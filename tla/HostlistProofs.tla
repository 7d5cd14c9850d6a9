--------------------------- MODULE HostlistProofs ---------------------------
(* What holds of a host list for all strings, lists and iterators: that its *)
(* count of names is right (HostlistConsistent), that hostlist_find finds    *)
(* what is there (HostlistFound), and that hostlist_sort and hostlist_uniq   *)
(* put a list in order without losing a name (HostlistSortRight).            *)
(*                                                                           *)
(* In order: induction and recursion over sets and sequences, which the      *)
(* folds and the loops of the code rest on; numbers and how they are printed *)
(* and read; lists of ranges and the count of their names; what each         *)
(* operation does to a list and its iterators; the inductive invariant; then *)
(* the order of ranges and what sort and uniq make of a list.                *)
EXTENDS Hostlist, WellFoundedInduction, SequenceTheorems, FiniteSetTheorems, FunctionTheorems,
        TLAPS

(* A set of numbers that is not empty has a least one.                     *)
LEMMA NatMin ==
  ASSUME NEW T \in SUBSET Nat, T # {}
  PROVE  \E x \in T : \A y \in T : ~(y < x)
<1> DEFINE R == {ss \in Nat \X Nat : ss[1] < ss[2]}
<1>1. IsWellFoundedOn(R, Nat)
  <2>1. R = OpToRel(<, Nat)
    BY Zenon DEF OpToRel
  <2>2. QED
    BY Zenon, <2>1, NatLessThanWellFounded
<1>2. \E x \in T : \A y \in T : ~(<<y, x>> \in R)
  <2> HIDE DEF R
  <2>1. QED
    BY <1>1, WFMin
<1>3. QED
  BY <1>2

(* Induction over the numbers, of a set: the hypothesis is that n is in S. *)
LEMMA Induction ==
  ASSUME NEW S, 0 \in S, \A n \in Nat : n \in S => n + 1 \in S
  PROVE  \A n \in Nat : n \in S
<1> DEFINE T == Nat \ S
<1> SUFFICES ASSUME T # {} PROVE FALSE
  OBVIOUS
<1>1. PICK x \in T : \A y \in T : ~(y < x)
  BY NatMin
<1>2. x # 0 /\ x - 1 \in Nat /\ x - 1 < x
  OBVIOUS
<1>3. x - 1 \in S
  BY <1>1, <1>2
<1>4. (x - 1) + 1 \in S /\ (x - 1) + 1 = x
  BY <1>2, <1>3
<1>5. QED
  BY <1>4

(* Recursion.  Unless d is in Stop, what is defined of d depends on what   *)
(* is defined of next[d], whose measure is less.                           *)
Descends(D, Stop, measure, next) ==
    /\ measure \in [D -> Nat] /\ next \in [D -> D]
    /\ \A d \in D \ Stop : measure[next[d]] < measure[d]

(* What holds at the stops and passes from next[d] to d holds throughout   *)
(* D.                                                                      *)
LEMMA DescentInduction ==
  ASSUME NEW D, NEW Stop, NEW measure, NEW next, Descends(D, Stop, measure, next),
         NEW S, \A d \in D : d \in Stop \/ next[d] \in S => d \in S
  PROVE  \A d \in D : d \in S
<1> DEFINE T == {n \in Nat : \E d \in D \ S : n = measure[d]}
<1> SUFFICES ASSUME NEW d \in D, d \notin S PROVE FALSE
  OBVIOUS
<1>1. measure[d] \in T
  BY DEF Descends
<1>2. PICK x \in T : \A y \in T : ~(y < x)
  BY <1>1, NatMin
<1>3. PICK e \in D \ S : x = measure[e]
  BY <1>2
<1>4. e \notin Stop /\ next[e] \notin S
  BY <1>3
<1>5. next[e] \in D /\ measure[next[e]] < measure[e] /\ measure[next[e]] \in Nat
  BY <1>4 DEF Descends
<1>6. measure[next[e]] \in T
  BY <1>4, <1>5
<1>7. QED
  BY <1>2, <1>3, <1>5, <1>6

(* f is a solution of the recursion down to the stops.                     *)
Solves(f, D, Stop, next, base, step) ==
    \A d \in D : f[d] = IF d \in Stop THEN base[d] ELSE step[<<d, f[next[d]]>>]

(* Such a recursion has a solution with values in V.                       *)
LEMMA Descent ==
  ASSUME NEW D, NEW Stop, NEW measure, NEW next, Descends(D, Stop, measure, next),
         NEW V, NEW base \in [D -> V], NEW step \in [D \X V -> V]
  PROVE  \E f \in [D -> V] : Solves(f, D, Stop, next, base, step)
<1> DEFINE Below(n) == {d \in D : measure[d] < n}
           Part(g, n) == g \in [Below(n) -> V] /\ \A d \in Below(n) :
                           g[d] = IF d \in Stop THEN base[d] ELSE step[<<d, g[next[d]]>>]
<1>1. ASSUME NEW n \in Nat, NEW d \in Below(n), d \notin Stop PROVE next[d] \in Below(n)
  BY <1>1 DEF Descends
<1>2. \A n \in Nat : \E g : Part(g, n)
  <2> DEFINE S == {n \in Nat : \E g : Part(g, n)}
  <2>1. 0 \in S
    <3>1. Below(0) = {}
      BY DEF Descends
    <3>2. Part([d \in {} |-> d], 0)
      BY <3>1
    <3>3. QED
      BY <3>2
  <2>2. ASSUME NEW n \in Nat, n \in S PROVE n + 1 \in S
    <3>1. PICK g : Part(g, n)
      BY <2>2
    <3> DEFINE h == [d \in Below(n + 1) |-> IF d \in Below(n) THEN g[d]
                         ELSE IF d \in Stop THEN base[d] ELSE step[<<d, g[next[d]]>>]]
    <3>2. ASSUME NEW d \in Below(n + 1), d \notin Stop PROVE next[d] \in Below(n)
      BY <3>2 DEF Descends
    <3>3. \A d \in Below(n) : g[d] \in V /\ d \in Below(n + 1) /\ d \in D
      BY <3>1 DEF Descends
    <3>4. ASSUME NEW d \in Below(n + 1)
          PROVE  h[d] \in V /\ h[d] = IF d \in Stop THEN base[d] ELSE step[<<d, h[next[d]]>>]
      <4>1. d \notin Stop => h[next[d]] = g[next[d]] /\ g[next[d]] \in V
        BY <3>2, <3>3
      <4>2. h[d] = IF d \in Stop THEN base[d] ELSE step[<<d, g[next[d]]>>]
        <5>1. CASE d \in Below(n)
          BY <3>1, <5>1
        <5>2. CASE d \notin Below(n)
          BY <5>2
        <5>3. QED
          BY <5>1, <5>2
      <4>3. d \in D /\ (d \notin Stop => step[<<d, g[next[d]]>>] \in V)
        BY <4>1
      <4> HIDE DEF h, Below
      <4>4. QED
        BY <4>1, <4>2, <4>3
    <3>5. h \in [Below(n + 1) -> V]
      BY <3>4
    <3>6. Part(h, n + 1)
      <4> HIDE DEF h, Below
      <4>1. QED
        BY <3>4, <3>5
    <3> HIDE DEF Part, h
    <3>7. QED
      BY <3>6
  <2> HIDE DEF S
  <2>3. \A n \in Nat : n \in S
    BY <2>1, <2>2, Induction
  <2>4. QED
    BY <2>3 DEF S
<1>3. ASSUME NEW n \in Nat, NEW k \in Nat, NEW g, NEW h, Part(g, n), Part(h, k)
      PROVE  \A d \in D : d \in Below(n) /\ d \in Below(k) => g[d] = h[d]
  <2> DEFINE S == {d \in D : d \in Below(n) /\ d \in Below(k) => g[d] = h[d]}
  <2>1. ASSUME NEW d \in D, d \in Stop \/ next[d] \in S PROVE d \in S
    <3>1. SUFFICES ASSUME d \in Below(n), d \in Below(k) PROVE g[d] = h[d]
      OBVIOUS
    <3>2. CASE d \in Stop
      BY <1>3, <3>1, <3>2
    <3>3. CASE d \notin Stop
      <4>1. next[d] \in Below(n) /\ next[d] \in Below(k)
        BY <1>1, <3>1, <3>3
      <4>2. g[next[d]] = h[next[d]]
        BY <2>1, <3>3, <4>1
      <4> HIDE DEF Below
      <4>3. QED
        BY <1>3, <3>1, <3>3, <4>2
    <3>4. QED
      BY <3>2, <3>3
  <2> HIDE DEF S
  <2>2. \A d \in D : d \in S
    BY <2>1, DescentInduction
  <2>3. QED
    BY <2>2 DEF S
<1> DEFINE G(n) == CHOOSE g : Part(g, n)
           f == [d \in D |-> G(measure[d] + 1)[d]]
<1>4. \A n \in Nat : Part(G(n), n)
  <2> HIDE DEF Part
  <2>1. QED
    BY <1>2
<1>5. \A d \in D : measure[d] \in Nat /\ measure[d] + 1 \in Nat /\ d \in Below(measure[d] + 1)
  BY DEF Descends
<1>6. f \in [D -> V]
  <2> HIDE DEF G
  <2>1. \A d \in D : G(measure[d] + 1)[d] \in V
    BY <1>4, <1>5
  <2>2. QED
    BY <2>1
<1>7. ASSUME NEW d \in D
      PROVE  f[d] = IF d \in Stop THEN base[d] ELSE step[<<d, f[next[d]]>>]
  <2> DEFINE n == measure[d] + 1
             k == measure[next[d]] + 1
  <2>1. f[d] = G(n)[d] /\ next[d] \in D /\ f[next[d]] = G(k)[next[d]]
    BY DEF Descends
  <2>2. n \in Nat /\ k \in Nat /\ Part(G(n), n) /\ Part(G(k), k)
    BY <1>4, <1>5, <2>1
  <2>3. d \in Below(n) /\ next[d] \in Below(k)
    BY <1>5, <2>1
  <2> HIDE DEF f, G, n, k
  <2>4. ASSUME d \notin Stop PROVE next[d] \in Below(n) /\ G(n)[next[d]] = G(k)[next[d]]
    <3>1. next[d] \in Below(n)
      BY <1>1, <2>2, <2>3, <2>4
    <3> HIDE DEF Part, Below
    <3>2. QED
      BY <1>3, <2>1, <2>2, <2>3, <3>1
  <2>5. G(n)[d] = IF d \in Stop THEN base[d] ELSE step[<<d, G(n)[next[d]]>>]
    BY <2>2, <2>3
  <2>6. QED
    BY <2>1, <2>4, <2>5
<1> HIDE DEF f
<1>8. QED
  BY <1>6, <1>7 DEF Solves

(* The greatest and the least of numbers in a range.                       *)
LEMMA MaxIs ==
  ASSUME NEW n \in Int, NEW m \in Int, NEW S \in SUBSET (m .. n), S # {}
  PROVE  Max(S) \in S /\ \A y \in S : Max(S) >= y
<1> DEFINE T == {k \in Nat : n - k \in S}
<1>1. PICK z \in S : TRUE
  OBVIOUS
<1>2. n - z \in T
  BY <1>1
<1>3. PICK x \in T : \A y \in T : ~(y < x)
  BY <1>2, NatMin
<1>4. n - x \in S
  BY <1>3
<1>5. ASSUME NEW y \in S PROVE n - x >= y
  <2>1. n - y \in T
    OBVIOUS
  <2>2. ~(n - y < x)
    BY <1>3, <2>1
  <2>3. QED
    BY <1>3, <2>2
<1>6. QED
  BY <1>4, <1>5 DEF Max

(* The least element of a set of integers that has bounds.                 *)
LEMMA MinIs ==
  ASSUME NEW n \in Int, NEW m \in Int, NEW S \in SUBSET (m .. n), S # {}
  PROVE  Min(S) \in S /\ \A y \in S : Min(S) <= y
<1> DEFINE T == {k \in Nat : m + k \in S}
<1>1. PICK z \in S : TRUE
  OBVIOUS
<1>2. z - m \in T
  BY <1>1
<1>3. PICK x \in T : \A y \in T : ~(y < x)
  BY <1>2, NatMin
<1>4. m + x \in S
  BY <1>3
<1>5. ASSUME NEW y \in S PROVE m + x <= y
  <2>1. y - m \in T
    OBVIOUS
  <2>2. ~(y - m < x)
    BY <1>3, <2>1
  <2>3. QED
    BY <1>3, <2>2
<1>6. QED
  BY <1>4, <1>5 DEF Min

(* The greatest position of a set of positions is one of them.             *)
LEMMA MaxInside ==
  ASSUME NEW N \in Nat
  PROVE  \A s \in SUBSET (1 .. N) : s # {} => Max(s) \in 1 .. N
<1>1. ASSUME NEW s \in SUBSET (1 .. N), s # {} PROVE Max(s) \in 1 .. N
  <2>1. 1 \in Int /\ N \in Int
    OBVIOUS
  <2>2. QED
    BY <1>1, <2>1, MaxIs
<1>2. QED
  BY <1>1

(* The least position of a set of positions is one of them.                *)
LEMMA MinInside ==
  ASSUME NEW N \in Nat
  PROVE  \A s \in SUBSET (1 .. N) : s # {} => Min(s) \in 1 .. N
<1>1. ASSUME NEW s \in SUBSET (1 .. N), s # {} PROVE Min(s) \in 1 .. N
  <2>1. 1 \in Int /\ N \in Int
    OBVIOUS
  <2>2. QED
    BY <1>1, <2>1, MinIs
<1>2. QED
  BY <1>1

(* An interval from 1 and what is left of it without its end.              *)
LEMMA IntervalEnds ==
  ASSUME NEW n \in Nat, n # 0
  PROVE  /\ Max(1 .. n) = n
         /\ (1 .. n) \ {Max(1 .. n)} = 1 .. n - 1
         /\ 1 .. n # {}
<1>1. 1 .. n # {} /\ 1 .. n \in SUBSET (1 .. n) /\ 1 \in Int /\ n \in Int
  OBVIOUS
<1>2. Max(1 .. n) \in 1 .. n /\ \A y \in 1 .. n : Max(1 .. n) >= y
  BY <1>1, MaxIs, Zenon
<1>3. Max(1 .. n) = n
  BY <1>2
<1>4. QED
  BY <1>1, <1>3

(* What FoldLeft computes exists.                                          *)
FoldedLeft(f, N, b, step) ==
    \A s \in SUBSET (1 .. N) : f[s] = IF s = {} THEN b ELSE step[<<Max(s), f[s \ {Max(s)}]>>]

(* The recursion behind FoldLeft has a solution with values in V.          *)
LEMMA LeftFold ==
  ASSUME NEW N \in Nat, NEW V, NEW b \in V, NEW step \in [(1 .. N) \X V -> V]
  PROVE  \E f \in [SUBSET (1 .. N) -> V] : FoldedLeft(f, N, b, step)
<1> DEFINE D == SUBSET (1 .. N)
           Stop == {{}}
           measure == [s \in D |-> IF s = {} THEN 0 ELSE Max(s)]
           next == [s \in D |-> IF s = {} THEN {} ELSE s \ {Max(s)}]
           base == [s \in D |-> b]
           go == [p \in D \X V |-> IF p[1] = {} THEN b ELSE step[<<Max(p[1]), p[2]>>]]
<1>1. ASSUME NEW s \in D, s # {} PROVE Max(s) \in s /\ Max(s) \in 1 .. N /\ \A y \in s : Max(s) >= y
  <2>1. s \in SUBSET (1 .. N) /\ 1 \in Int /\ N \in Int
    OBVIOUS
  <2>2. Max(s) \in s /\ \A y \in s : Max(s) >= y
    BY <1>1, <2>1, MaxIs, Zenon
  <2>3. QED
    BY <2>1, <2>2
<1>2. Descends(D, Stop, measure, next)
  <2>1. measure \in [D -> Nat] /\ next \in [D -> D]
    <3>1. \A s \in D : s # {} => Max(s) \in Nat
      BY <1>1
    <3>2. QED
      BY <3>1
  <2>2. ASSUME NEW d \in D \ Stop PROVE measure[next[d]] < measure[d]
    <3>1. d # {} /\ measure[d] = Max(d) /\ next[d] = d \ {Max(d)} /\ next[d] \in D
      OBVIOUS
    <3>2. CASE next[d] = {}
      BY <1>1, <3>1, <3>2
    <3>3. CASE next[d] # {}
      <4>1. Max(next[d]) \in d /\ Max(next[d]) # Max(d) /\ Max(next[d]) \in 1 .. N
        BY <1>1, <3>1, <3>3
      <4>2. Max(d) >= Max(next[d]) /\ Max(d) \in 1 .. N
        BY <1>1, <3>1, <4>1
      <4>3. QED
        BY <3>1, <3>3, <4>1, <4>2
    <3>4. QED
      BY <3>2, <3>3
  <2> HIDE DEF measure, next, D, Stop
  <2>3. QED
    BY <2>1, <2>2 DEF Descends
<1>3. base \in [D -> V]
  OBVIOUS
<1>4. go \in [D \X V -> V]
  BY <1>1
<1> HIDE DEF base, go, D, Stop, measure, next
<1>5. PICK f \in [D -> V] : Solves(f, D, Stop, next, base, go)
  BY <1>2, <1>3, <1>4, Descent, Zenon
<1>6. ASSUME NEW s \in D PROVE f[s] = IF s = {} THEN b ELSE step[<<Max(s), f[s \ {Max(s)}]>>]
  <2>1. CASE s = {}
    BY <1>5, <2>1 DEF base, Stop, Solves
  <2>2. CASE s # {}
    <3>1. next[s] = s \ {Max(s)} /\ next[s] \in D
      BY <1>2, <2>2 DEF next, Descends
    <3>2. f[next[s]] \in V
      BY <1>5, <3>1
    <3>3. f[s] = go[<<s, f[next[s]]>>]
      BY <1>5, <2>2 DEF Stop, Solves
    <3>4. QED
      BY <2>2, <3>1, <3>2, <3>3 DEF go
  <2>3. QED
    BY <2>1, <2>2
<1>7. QED
  BY <1>5, <1>6 DEF D, FoldedLeft

(* The same of FoldRight.                                                  *)
FoldedRight(f, N, b, step) ==
    \A s \in SUBSET (1 .. N) : f[s] = IF s = {} THEN b ELSE step[<<Min(s), f[s \ {Min(s)}]>>]

(* The recursion behind FoldRight has a solution with values in V.         *)
LEMMA RightFold ==
  ASSUME NEW N \in Nat, NEW V, NEW b \in V, NEW step \in [(1 .. N) \X V -> V]
  PROVE  \E f \in [SUBSET (1 .. N) -> V] : FoldedRight(f, N, b, step)
<1> DEFINE D == SUBSET (1 .. N)
           Stop == {{}}
           measure == [s \in D |-> IF s = {} THEN 0 ELSE N + 1 - Min(s)]
           next == [s \in D |-> IF s = {} THEN {} ELSE s \ {Min(s)}]
           base == [s \in D |-> b]
           go == [p \in D \X V |-> IF p[1] = {} THEN b ELSE step[<<Min(p[1]), p[2]>>]]
<1>1. ASSUME NEW s \in D, s # {} PROVE Min(s) \in s /\ Min(s) \in 1 .. N /\ \A y \in s : Min(s) <= y
  <2>1. s \in SUBSET (1 .. N) /\ 1 \in Int /\ N \in Int
    OBVIOUS
  <2>2. Min(s) \in s /\ \A y \in s : Min(s) <= y
    BY <1>1, <2>1, MinIs, Zenon
  <2>3. QED
    BY <2>1, <2>2
<1>2. Descends(D, Stop, measure, next)
  <2>1. measure \in [D -> Nat] /\ next \in [D -> D]
    <3>1. \A s \in D : s # {} => N + 1 - Min(s) \in Nat
      BY <1>1
    <3>2. QED
      BY <3>1
  <2>2. ASSUME NEW d \in D \ Stop PROVE measure[next[d]] < measure[d]
    <3>1. d # {} /\ measure[d] = N + 1 - Min(d) /\ next[d] = d \ {Min(d)} /\ next[d] \in D
      OBVIOUS
    <3>2. CASE next[d] = {}
      BY <1>1, <3>1, <3>2
    <3>3. CASE next[d] # {}
      <4>1. Min(next[d]) \in d /\ Min(next[d]) # Min(d) /\ Min(next[d]) \in 1 .. N
        BY <1>1, <3>1, <3>3
      <4>2. Min(d) <= Min(next[d]) /\ Min(d) \in 1 .. N
        BY <1>1, <3>1, <4>1
      <4>3. QED
        BY <3>1, <3>3, <4>1, <4>2
    <3>4. QED
      BY <3>2, <3>3
  <2> HIDE DEF measure, next, D, Stop
  <2>3. QED
    BY <2>1, <2>2 DEF Descends
<1>3. base \in [D -> V]
  OBVIOUS
<1>4. go \in [D \X V -> V]
  BY <1>1
<1> HIDE DEF base, go, D, Stop, measure, next
<1>5. PICK f \in [D -> V] : Solves(f, D, Stop, next, base, go)
  BY <1>2, <1>3, <1>4, Descent, Zenon
<1>6. ASSUME NEW s \in D PROVE f[s] = IF s = {} THEN b ELSE step[<<Min(s), f[s \ {Min(s)}]>>]
  <2>1. CASE s = {}
    BY <1>5, <2>1 DEF base, Stop, Solves
  <2>2. CASE s # {}
    <3>1. next[s] = s \ {Min(s)} /\ next[s] \in D
      BY <1>2, <2>2 DEF next, Descends
    <3>2. f[next[s]] \in V
      BY <1>5, <3>1
    <3>3. f[s] = go[<<s, f[next[s]]>>]
      BY <1>5, <2>2 DEF Stop, Solves
    <3>4. QED
      BY <2>2, <3>1, <3>2, <3>3 DEF go
  <2>3. QED
    BY <2>1, <2>2
<1>7. QED
  BY <1>5, <1>6 DEF D, FoldedRight

(* Recursion along the numbers up to N.                                    *)
Chained(f, N, b, step) == \A n \in 0 .. N : f[n] = IF n = 0 THEN b ELSE step[<<n, f[n - 1]>>]

(* A fold as a chain of accumulators, one after each element.              *)
LEMMA Chain ==
  ASSUME NEW N \in Nat, NEW V, NEW b \in V, NEW step \in [(1 .. N) \X V -> V]
  PROVE  \E f \in [0 .. N -> V] : Chained(f, N, b, step)
<1> DEFINE D == 0 .. N
           Stop == {0}
           measure == [n \in D |-> n]
           next == [n \in D |-> IF n = 0 THEN 0 ELSE n - 1]
           base == [n \in D |-> b]
           go == [p \in D \X V |-> IF p[1] = 0 THEN b ELSE step[p]]
<1>1. Descends(D, Stop, measure, next)
  BY DEF Descends
<1>2. base \in [D -> V]
  OBVIOUS
<1>3. go \in [D \X V -> V]
  <2>1. ASSUME NEW p \in D \X V, p[1] # 0 PROVE step[p] \in V
    <3>1. p \in (1 .. N) \X V
      BY <2>1
    <3>2. QED
      BY <3>1
  <2>2. QED
    BY <2>1
<1> HIDE DEF base, go, D, Stop, measure, next
<1>4. PICK f \in [D -> V] : Solves(f, D, Stop, next, base, go)
  BY <1>1, <1>2, <1>3, Descent, Zenon
<1>5. ASSUME NEW n \in D PROVE f[n] = IF n = 0 THEN b ELSE step[<<n, f[n - 1]>>]
  <2>1. CASE n = 0
    BY <1>4, <2>1 DEF base, Stop, Solves
  <2>2. CASE n # 0
    <3>1. next[n] = n - 1 /\ next[n] \in D
      BY <1>1, <2>2 DEF next, Descends
    <3>2. f[n - 1] \in V
      BY <1>4, <3>1
    <3>3. f[n] = go[<<n, f[n - 1]>>]
      BY <1>4, <2>2, <3>1 DEF Stop, Solves
    <3>4. QED
      BY <2>2, <3>2, <3>3 DEF go
  <2>3. QED
    BY <2>1, <2>2
<1>6. QED
  BY <1>4, <1>5 DEF D, Chained

(* A value that goes up by the steps of such a recursion.                  *)
LEMMA Climb ==
  ASSUME NEW N \in Nat, NEW V, NEW b \in V, NEW step \in [(1 .. N) \X V -> V], NEW h, h[0] = b,
         \A n \in 1 .. N : h[n - 1] \in V => h[n] = step[<<n, h[n - 1]>>]
  PROVE  (\A n \in 0 .. N : h[n] \in V) /\ Chained(h, N, b, step)
<1> DEFINE S == {n \in Nat : n <= N => h[n] \in V}
<1>1. 0 \in S
  OBVIOUS
<1>2. ASSUME NEW n \in Nat, n \in S PROVE n + 1 \in S
  <2>1. SUFFICES ASSUME n + 1 <= N PROVE h[n + 1] \in V
    OBVIOUS
  <2>2. n + 1 \in 1 .. N /\ (n + 1) - 1 = n /\ h[n] \in V
    BY <1>2, <2>1
  <2>3. h[n + 1] = step[<<n + 1, h[n]>>]
    BY <2>2
  <2>4. QED
    BY <2>2, <2>3
<1>3. \A n \in Nat : n \in S
  <2> HIDE DEF S
  <2>1. QED
    BY <1>1, <1>2, Induction
<1>4. \A n \in 0 .. N : h[n] \in V
  BY <1>3
<1>5. QED
  <2>1. ASSUME NEW n \in 0 .. N PROVE h[n] = IF n = 0 THEN b ELSE step[<<n, h[n - 1]>>]
    <3>1. CASE n # 0
      <4>1. n \in 1 .. N /\ n - 1 \in 0 .. N
        BY <3>1
      <4>2. QED
        BY <1>4, <3>1, <4>1
    <3>2. QED
      BY <3>1
  <2>2. QED
    BY <1>4, <2>1 DEF Chained

(* ... as that of FoldLeft does along 1 .. n, and that of FoldRight down   *)
(* from N.                                                                 *)
FoldsLeft(f, N, V, b, step) ==
    /\ f[{}] = b
    /\ \A s \in SUBSET (1 .. N) : s # {} /\ f[s \ {Max(s)}] \in V
             => f[s] = step[<<Max(s), f[s \ {Max(s)}]>>]

(* v is the last value of such a chain in V.                               *)
ClimbsTo(N, V, b, step, v) == \E h \in [0 .. N -> V] : Chained(h, N, b, step) /\ h[N] = v

(* The value of a left fold is the last of a chain in V.                   *)
LEMMA LeftClimb ==
  ASSUME NEW N \in Nat, NEW V, NEW b \in V, NEW step \in [(1 .. N) \X V -> V], NEW f,
         FoldsLeft(f, N, V, b, step)
  PROVE  ClimbsTo(N, V, b, step, f[1 .. N])
<1> DEFINE h == [n \in 0 .. N |-> f[1 .. n]]
<1>1. h[0] = b
  BY 1 .. 0 = {} DEF FoldsLeft
<1>2. ASSUME NEW n \in 1 .. N, h[n - 1] \in V PROVE h[n] = step[<<n, h[n - 1]>>]
  <2>1. n \in Nat /\ n # 0 /\ n - 1 \in 0 .. N /\ 1 .. n \in SUBSET (1 .. N)
    OBVIOUS
  <2>2. Max(1 .. n) = n /\ (1 .. n) \ {Max(1 .. n)} = 1 .. n - 1 /\ 1 .. n # {}
    BY <2>1, IntervalEnds, Zenon
  <2>3. h[n] = f[1 .. n] /\ h[n - 1] = f[1 .. n - 1]
    BY <2>1
  <2> HIDE DEF h
  <2>4. QED
    BY <1>2, <2>1, <2>2, <2>3 DEF FoldsLeft
<1> HIDE DEF h
<1>3. (\A n \in 0 .. N : h[n] \in V) /\ Chained(h, N, b, step)
  BY <1>1, <1>2, Climb
<1>4. QED
  BY <1>3 DEF h, ClimbsTo

(* An interval to N and what is left of it without its start.              *)
LEMMA IntervalStarts ==
  ASSUME NEW N \in Nat, NEW n \in 1 .. N
  PROVE  /\ Min(n .. N) = n
         /\ (n .. N) \ {Min(n .. N)} = n + 1 .. N
         /\ n .. N # {}
<1>1. n .. N # {} /\ n .. N \in SUBSET (n .. N) /\ n \in Int /\ N \in Int
  OBVIOUS
<1>2. Min(n .. N) \in n .. N /\ \A y \in n .. N : Min(n .. N) <= y
  BY <1>1, MinIs, Zenon
<1>3. Min(n .. N) = n
  BY <1>2
<1>4. QED
  BY <1>1, <1>3

(* f solves the recursion of FoldRight as far as its values are in V.      *)
FoldsRight(f, N, V, b, step) ==
    /\ f[{}] = b
    /\ \A s \in SUBSET (1 .. N) : s # {} /\ f[s \ {Min(s)}] \in V
             => f[s] = step[<<Min(s), f[s \ {Min(s)}]>>]

(* h is the chain of a right fold, built from the last element down.       *)
ChainedDown(h, N, b, step) == h[N + 1] = b /\ \A n \in 1 .. N : h[n] = step[<<n, h[n + 1]>>]

(* v is the value at the front of such a chain in V.                       *)
DropsTo(N, V, b, step, v) == \E h \in [1 .. N + 1 -> V] : ChainedDown(h, N, b, step) /\ h[1] = v

(* The value of a right fold is the front of a chain in V.                 *)
LEMMA RightClimb ==
  ASSUME NEW N \in Nat, NEW V, NEW b \in V, NEW step \in [(1 .. N) \X V -> V], NEW f,
         FoldsRight(f, N, V, b, step)
  PROVE  DropsTo(N, V, b, step, f[1 .. N])
<1> DEFINE h == [n \in 1 .. N + 1 |-> f[n .. N]]
           S == {m \in Nat : m <= N => h[N + 1 - m] \in V}
<1>1. h[N + 1] = b
  BY N + 1 .. N = {} DEF FoldsRight
<1>2. ASSUME NEW n \in 1 .. N, h[n + 1] \in V PROVE h[n] = step[<<n, h[n + 1]>>]
  <2>1. n + 1 \in 1 .. N + 1 /\ n \in 1 .. N + 1 /\ n .. N \in SUBSET (1 .. N)
    OBVIOUS
  <2>2. Min(n .. N) = n /\ (n .. N) \ {Min(n .. N)} = n + 1 .. N /\ n .. N # {}
    BY IntervalStarts, Zenon
  <2>3. h[n] = f[n .. N] /\ h[n + 1] = f[n + 1 .. N]
    BY <2>1
  <2> HIDE DEF h
  <2>4. QED
    BY <1>2, <2>1, <2>2, <2>3 DEF FoldsRight
<1> HIDE DEF h
<1>3. \A m \in Nat : m \in S
  <2>1. 0 \in S
    BY <1>1
  <2>2. ASSUME NEW m \in Nat, m \in S PROVE m + 1 \in S
    <3>1. SUFFICES ASSUME m + 1 <= N PROVE h[N + 1 - (m + 1)] \in V
      OBVIOUS
    <3>2. N - m \in 1 .. N /\ (N - m) + 1 = N + 1 - m /\ N + 1 - (m + 1) = N - m
      BY <3>1
    <3>3. h[(N - m) + 1] \in V
      BY <2>2, <3>1, <3>2
    <3>4. h[N - m] = step[<<N - m, h[(N - m) + 1]>>]
      BY <1>2, <3>2, <3>3
    <3>5. QED
      BY <3>2, <3>3, <3>4
  <2> HIDE DEF S
  <2>3. QED
    BY <2>1, <2>2, Induction
<1>4. \A n \in 1 .. N + 1 : h[n] \in V
  <2>1. ASSUME NEW n \in 1 .. N + 1 PROVE h[n] \in V
    <3>1. N + 1 - n \in Nat /\ N + 1 - n <= N /\ N + 1 - (N + 1 - n) = n
      OBVIOUS
    <3>2. QED
      BY <1>3, <3>1
  <2>2. QED
    BY <2>1
<1>5. h[1] = f[1 .. N]
  BY DEF h
<1>6. QED
  <2>1. \A n \in 1 .. N : h[n] = step[<<n, h[n + 1]>>]
    BY <1>2, <1>4
  <2>2. h \in [1 .. N + 1 -> V]
    BY <1>4 DEF h
  <2>3. QED
    BY <1>1, <1>5, <2>1, <2>2 DEF ChainedDown, DropsTo

(* A number is read digit by digit.                                        *)
Reads(s, h) ==
    /\ h[0] = 0 /\ h[Len(s)] = strtoul(s)
    /\ \A n \in 1 .. Len(s) : h[n - 1] \in Nat /\ h[n] = 10 * h[n - 1] + s[n]

(* What strtoul reads is a number, and there is the chain of its readings. *)
LEMMA ReadNumber ==
  ASSUME NEW s \in Seq(Nat)
  PROVE  strtoul(s) \in Nat /\ \E h : Reads(s, h)
<1> DEFINE N == Len(s)
           step == [p \in (1 .. N) \X Nat |-> 10 * p[2] + s[p[1]]]
           Is(f) == f = [S \in SUBSET (1 .. N) |-> IF S = {} THEN 0
                                                      ELSE 10 * f[S \ {Max(S)}] + s[Max(S)]]
           iter == CHOOSE f : Is(f)
<1>1. N \in Nat /\ 0 \in Nat /\ step \in [(1 .. N) \X Nat -> Nat] /\ DOMAIN s = 1 .. N
  OBVIOUS
<1>2. strtoul(s) = iter[1 .. N]
  BY <1>1 DEF strtoul, FoldLeft, MapThenFoldSet
<1>3. \A S \in SUBSET (1 .. N) : S # {} => Max(S) \in 1 .. N
  BY <1>1, MaxInside
<1>4. ASSUME NEW n \in 1 .. N, NEW v \in Nat PROVE step[<<n, v>>] = 10 * v + s[n]
  OBVIOUS
<1> HIDE DEF step, N
<1>5. PICK f \in [SUBSET (1 .. N) -> Nat] : FoldedLeft(f, N, 0, step)
  BY <1>1, LeftFold, Zenon
<1>6. Is(f)
  BY <1>3, <1>4, <1>5 DEF FoldedLeft
<1>7. Is(iter)
  BY <1>6
<1> HIDE DEF iter
<1>8. ClimbsTo(N, Nat, 0, step, iter[1 .. N])
  <2>1. FoldsLeft(iter, N, Nat, 0, step)
    BY <1>3, <1>4, <1>7 DEF FoldsLeft
  <2>2. QED
    BY <1>1, <2>1, LeftClimb, Zenon
<1>9. PICK h \in [0 .. N -> Nat] : Chained(h, N, 0, step) /\ h[N] = iter[1 .. N]
  BY <1>8 DEF ClimbsTo
<1>10. h[0] = 0 /\ \A n \in 1 .. N : h[n - 1] \in Nat /\ h[n] = 10 * h[n - 1] + s[n]
  <2>1. h[0] = 0
    <3>1. 0 \in 0 .. N
      BY <1>1
    <3>2. QED
      BY <1>9, <3>1 DEF Chained
  <2>2. ASSUME NEW n \in 1 .. N PROVE h[n - 1] \in Nat /\ h[n] = 10 * h[n - 1] + s[n]
    <3>1. n \in 0 .. N /\ n # 0 /\ n - 1 \in 0 .. N
      BY <1>1
    <3>2. h[n - 1] \in Nat /\ h[n] = step[<<n, h[n - 1]>>]
      BY <1>9, <3>1 DEF Chained
    <3>3. QED
      BY <1>4, <3>2
  <2>3. QED
    BY <2>1, <2>2
<1>11. h[N] = strtoul(s) /\ h[N] \in Nat
  BY <1>1, <1>2, <1>9
<1>12. Reads(s, h)
  BY <1>10, <1>11 DEF N, Reads
<1>13. QED
  BY <1>11, <1>12

-----------------------------------------------------------------------------

(* Lists of ranges.                                                        *)
Lists == Seq(HostRange)

(* CountBefore adds the sizes of the ranges.                               *)
LEMMA Counts ==
  ASSUME NEW rs \in Lists
  PROVE  /\ CountBefore(rs, 1) = 0
         /\ \A k \in 1 .. Len(rs) : CountBefore(rs, k + 1) = CountBefore(rs, k) + count(rs[k])
         /\ \A k \in 1 .. Len(rs) + 1 : CountBefore(rs, k) \in Nat
         /\ \A k \in 1 .. Len(rs) : count(rs[k]) \in Nat \ {0}
<1> DEFINE N == Len(rs)
<1>1. N \in Nat /\ \A k \in 1 .. N : rs[k] \in HostRange
  BY DEF Lists
<1>2. \A k \in 1 .. N : count(rs[k]) \in Nat \ {0}
  BY <1>1 DEF HostRange, count
<1> DEFINE step == [p \in (1 .. N) \X Nat |-> p[2] + count(rs[p[1]])]
           Is(f) == f = [j \in 0 .. N |-> IF j = 0 THEN 0 ELSE f[j - 1] + count(rs[j])]
           Sum == CHOOSE f : Is(f)
<1>3. \E f : Is(f) /\ f \in [0 .. N -> Nat]
  <2>1. step \in [(1 .. N) \X Nat -> Nat]
    BY <1>2
  <2>0. N \in Nat /\ 0 \in Nat
    BY <1>1
  <2> HIDE DEF step, N
  <2>2. PICK f \in [0 .. N -> Nat] : Chained(f, N, 0, step)
    BY <2>0, <2>1, Chain, Zenon
  <2>3. ASSUME NEW n \in 0 .. N PROVE f[n] = IF n = 0 THEN 0 ELSE f[n - 1] + count(rs[n])
    <3>1. CASE n # 0
      <4>1. n \in 1 .. N /\ n - 1 \in 0 .. N /\ f[n - 1] \in Nat
        BY <1>1, <3>1
      <4>2. step[<<n, f[n - 1]>>] = f[n - 1] + count(rs[n])
        BY <4>1 DEF step
      <4>3. QED
        BY <2>2, <3>1, <4>2 DEF Chained
    <3>2. QED
      BY <2>2, <3>1 DEF Chained
  <2>4. Is(f)
    BY <2>2, <2>3
  <2>5. QED
    BY <2>4
<1>4. Is(Sum)
  BY <1>3
<1>5. \A k : CountBefore(rs, k) = Sum[IF k > N THEN N ELSE IF k < 1 THEN 0 ELSE k - 1]
  BY DEF CountBefore
<1> HIDE DEF Sum
<1>6. Sum[0] = 0 /\ \A j \in 1 .. N : Sum[j] = Sum[j - 1] + count(rs[j])
  BY <1>1, <1>4
<1>7. \A k \in 1 .. N + 1 : CountBefore(rs, k) = Sum[k - 1]
  BY <1>1, <1>5
<1> DEFINE S == {j \in Nat : j <= N => Sum[j] \in Nat}
<1>8. \A k \in Nat : k \in S
  <2>1. 0 \in S
    BY <1>6
  <2>2. ASSUME NEW n \in Nat, n \in S PROVE n + 1 \in S
    BY <1>1, <1>2, <1>6, <2>2
  <2> HIDE DEF S
  <2>3. QED
    BY <2>1, <2>2, Induction
<1>9. QED
  <2>1. \A k \in 1 .. N : CountBefore(rs, k + 1) = CountBefore(rs, k) + count(rs[k])
    BY <1>1, <1>6, <1>7
  <2>2. QED
    BY <1>1, <1>2, <1>6, <1>7, <1>8, <2>1

(* What it means for rs to be one.                                         *)
LEMMA ListIs ==
  ASSUME NEW rs \in Lists
  PROVE  Len(rs) \in Nat /\ DOMAIN rs = 1 .. Len(rs) /\ \A k \in 1 .. Len(rs) : rs[k] \in HostRange
  BY DEF Lists

(* Where ranges have the same sizes, what is before them grows alike.      *)
CountAlike(rs, a, ts, b, m) ==
    /\ a + m <= Len(rs) /\ b + m <= Len(ts)
    /\ \A j \in 1 .. m : count(rs[a + j]) = count(ts[b + j])

(* The names of m ranges of rs from a on add up as those of ts from b on.  *)
GrowAlike(rs, a, ts, b, m) ==
    \A j \in 0 .. m : CountBefore(rs, a + j + 1) - CountBefore(rs, a + 1)
                    = CountBefore(ts, b + j + 1) - CountBefore(ts, b + 1)

(* Ranges with the same counts add up alike.                               *)
LEMMA SameCounts ==
  ASSUME NEW rs \in Lists, NEW ts \in Lists, NEW a \in Nat, NEW b \in Nat, NEW m \in Nat,
         CountAlike(rs, a, ts, b, m)
  PROVE  GrowAlike(rs, a, ts, b, m)
<1>0. /\ a + m <= Len(rs) /\ b + m <= Len(ts)
      /\ \A j \in 1 .. m : count(rs[a + j]) = count(ts[b + j])
  BY DEF CountAlike
<1> DEFINE S == {j \in Nat : j <= m => CountBefore(rs, a + j + 1) - CountBefore(rs, a + 1)
                                     = CountBefore(ts, b + j + 1) - CountBefore(ts, b + 1)}
<1>1. 0 \in S
  <2>1. a + 1 \in 1 .. Len(rs) + 1 /\ b + 1 \in 1 .. Len(ts) + 1
    BY <1>0, ListIs
  <2>2. CountBefore(rs, a + 1) \in Nat /\ CountBefore(ts, b + 1) \in Nat
    BY <2>1, Counts
  <2>3. QED
    BY <2>2
<1>2. ASSUME NEW j \in Nat, j \in S PROVE j + 1 \in S
  <2>1. SUFFICES ASSUME j + 1 <= m
                 PROVE  CountBefore(rs, a + (j + 1) + 1) - CountBefore(rs, a + 1)
                      = CountBefore(ts, b + (j + 1) + 1) - CountBefore(ts, b + 1)
    OBVIOUS
  <2>2. /\ a + j + 1 \in 1 .. Len(rs) /\ a + 1 \in 1 .. Len(rs) + 1
        /\ b + j + 1 \in 1 .. Len(ts) /\ b + 1 \in 1 .. Len(ts) + 1
        /\ a + j + 1 \in 1 .. Len(rs) + 1 /\ b + j + 1 \in 1 .. Len(ts) + 1
    BY <1>0, <2>1, ListIs
  <2>3. /\ CountBefore(rs, a + j + 1 + 1) = CountBefore(rs, a + j + 1) + count(rs[a + j + 1])
        /\ CountBefore(ts, b + j + 1 + 1) = CountBefore(ts, b + j + 1) + count(ts[b + j + 1])
        /\ CountBefore(rs, a + j + 1) \in Nat /\ CountBefore(rs, a + 1) \in Nat
        /\ CountBefore(ts, b + j + 1) \in Nat /\ CountBefore(ts, b + 1) \in Nat
        /\ count(rs[a + j + 1]) \in Nat
    BY <2>2, Counts
  <2>4. /\ a + j + 1 + 1 = a + (j + 1) + 1 /\ b + j + 1 + 1 = b + (j + 1) + 1
        /\ a + j + 1 = a + (j + 1) /\ b + j + 1 = b + (j + 1) /\ j + 1 \in 1 .. m
    BY <2>1
  <2>5. count(rs[a + j + 1]) = count(ts[b + j + 1])
    BY <1>0, <2>4
  <2>6. CountBefore(rs, a + j + 1) - CountBefore(rs, a + 1)
        = CountBefore(ts, b + j + 1) - CountBefore(ts, b + 1)
    BY <1>2, <2>1
  <2> DEFINE x == CountBefore(rs, a + j + 1)
             y == CountBefore(ts, b + j + 1)
             u == CountBefore(rs, a + 1)
             v == CountBefore(ts, b + 1)
             w == count(rs[a + j + 1])
  <2>7. x - u = y - v /\ x \in Nat /\ y \in Nat /\ u \in Nat /\ v \in Nat /\ w \in Nat
        => (x + w) - u = (y + w) - v
    <3> HIDE DEF x, y, u, v, w
    <3>1. QED
      OBVIOUS
  <2>8. CountBefore(rs, a + (j + 1) + 1) = x + w /\ CountBefore(ts, b + (j + 1) + 1) = y + w
    BY <2>3, <2>4, <2>5
  <2>9. QED
    BY <2>3, <2>6, <2>7, <2>8
<1>3. \A j \in Nat : j \in S
  <2> HIDE DEF S
  <2>1. QED
    BY <1>1, <1>2, Induction
<1>4. QED
  BY <1>3 DEF GrowAlike

(* More ranges, more names.                                                *)
LEMMA Grows ==
  ASSUME NEW rs \in Lists, NEW i \in 1 .. Len(rs) + 1, NEW j \in i .. Len(rs) + 1
  PROVE  CountBefore(rs, j) - CountBefore(rs, i) >= j - i
<1> DEFINE S == {m \in Nat :
                      i + m <= Len(rs) + 1 => CountBefore(rs, i + m) - CountBefore(rs, i) >= m}
<1>1. 0 \in S
  <2>1. CountBefore(rs, i) \in Nat
    BY Counts
  <2>2. QED
    BY <2>1, ListIs
<1>2. ASSUME NEW m \in Nat, m \in S PROVE m + 1 \in S
  <2>1. SUFFICES ASSUME i + (m + 1) <= Len(rs) + 1
                 PROVE  CountBefore(rs, i + (m + 1)) - CountBefore(rs, i) >= m + 1
    OBVIOUS
  <2>2. i + m \in 1 .. Len(rs) /\ i + m \in 1 .. Len(rs) + 1 /\ i + (m + 1) = (i + m) + 1
    BY <2>1, ListIs
  <2>3. /\ CountBefore(rs, (i + m) + 1) = CountBefore(rs, i + m) + count(rs[i + m])
        /\ count(rs[i + m]) \in Nat \ {0} /\ CountBefore(rs, i + m) \in Nat
           /\ CountBefore(rs, i) \in Nat
    BY <2>2, Counts
  <2>4. CountBefore(rs, i + m) - CountBefore(rs, i) >= m
    BY <1>2, <2>2, ListIs
  <2>5. QED
    BY <2>2, <2>3, <2>4
<1>3. \A m \in Nat : m \in S
  <2> HIDE DEF S
  <2>1. QED
    BY <1>1, <1>2, Induction
<1>4. j - i \in S /\ i + (j - i) = j /\ j - i \in Nat
  BY <1>3, ListIs
<1>5. QED
  BY <1>4

(* The size of a part of a list, ...                                       *)
LEMMA PartSize ==
  ASSUME NEW rs \in Lists, NEW i \in 1 .. Len(rs) + 1, NEW j \in i - 1 .. Len(rs)
  PROVE  /\ SubSeq(rs, i, j) \in Lists
         /\ Len(SubSeq(rs, i, j)) = j - i + 1
         /\ \A k \in 1 .. j - i + 1 : SubSeq(rs, i, j)[k] = rs[i + k - 1]
         /\ Size(SubSeq(rs, i, j)) = CountBefore(rs, j + 1) - CountBefore(rs, i)
         /\ \A k \in 1 .. j - i + 2 :
               CountBefore(SubSeq(rs, i, j), k) = CountBefore(rs, i + k - 1) - CountBefore(rs, i)
<1> DEFINE ts == SubSeq(rs, i, j)
<1>0. Len(rs) \in Nat /\ i \in Int /\ j \in Int
  BY ListIs
<1>1. ts \in Lists /\ Len(ts) = j - i + 1 /\ \A k \in 1 .. j - i + 1 : ts[k] = rs[i + k - 1]
  <2>1. \A k \in i .. j : rs[k] \in HostRange
    BY ListIs
  <2>2. QED
    BY <1>0, <2>1, SubSeqProperties DEF Lists
<1> HIDE DEF ts
<1>2. \A m \in 1 .. j - i + 1 : count(rs[i - 1 + m]) = count(ts[0 + m])
  BY <1>0, <1>1
<1>3. \A m \in 0 .. j - i + 1 : CountBefore(rs, i - 1 + m + 1) - CountBefore(rs, i - 1 + 1)
                              = CountBefore(ts, 0 + m + 1) - CountBefore(ts, 0 + 1)
  <2>1. /\ i - 1 \in Nat /\ 0 \in Nat /\ j - i + 1 \in Nat /\ i - 1 + (j - i + 1) <= Len(rs)
        /\ 0 + (j - i + 1) <= Len(ts)
    BY <1>0, <1>1
  <2> DEFINE a == i - 1
             n == j - i + 1
  <2>2. a \in Nat /\ n \in Nat /\ CountAlike(rs, a, ts, 0, n)
    BY <1>2, <2>1 DEF CountAlike
  <2> HIDE DEF a, n
  <2>3. GrowAlike(rs, a, ts, 0, n)
    BY <1>1, <2>1, <2>2, SameCounts, Zenon
  <2>4. QED
    BY <2>3 DEF a, n, GrowAlike
<1>4. CountBefore(ts, 1) = 0 /\ \A k \in 1 .. Len(ts) + 1 : CountBefore(ts, k) \in Nat
  BY <1>1, Counts
<1>5. ASSUME NEW k \in 1 .. j - i + 2
      PROVE  CountBefore(ts, k) = CountBefore(rs, i + k - 1) - CountBefore(rs, i)
  <2>1. k - 1 \in 0 .. j - i + 1 /\ i - 1 + (k - 1) + 1 = i + k - 1 /\ i - 1 + 1 = i
        /\ 0 + (k - 1) + 1 = k /\ 0 + 1 = 1 /\ k \in 1 .. Len(ts) + 1
    BY <1>0, <1>1
  <2>2. CountBefore(rs, i + k - 1) - CountBefore(rs, i) = CountBefore(ts, k) - CountBefore(ts, 1)
    BY <1>3, <2>1
  <2>3. QED
    BY <1>4, <2>1, <2>2
<1>6. Size(ts) = CountBefore(rs, j + 1) - CountBefore(rs, i)
  <2>1. j - i + 2 \in 1 .. j - i + 2 /\ i + (j - i + 2) - 1 = j + 1 /\ Len(ts) + 1 = j - i + 2
    BY <1>0, <1>1
  <2>2. CountBefore(ts, j - i + 2) = CountBefore(rs, j + 1) - CountBefore(rs, i)
    BY <1>5, <2>1
  <2>3. QED
    BY <2>1, <2>2 DEF Size
<1>7. QED
  BY <1>1, <1>5, <1>6 DEF ts

(* ... and of two lists one after the other.                               *)
LEMMA JoinedSize ==
  ASSUME NEW rs \in Lists, NEW ts \in Lists
  PROVE  /\ rs \o ts \in Lists
         /\ Len(rs \o ts) = Len(rs) + Len(ts)
         /\ Size(rs \o ts) = Size(rs) + Size(ts)
         /\ \A k \in 1 .. Len(rs) + 1 : CountBefore(rs \o ts, k) = CountBefore(rs, k)
         /\ \A k \in 1 .. Len(ts) + 1 :
               CountBefore(rs \o ts, Len(rs) + k) = Size(rs) + CountBefore(ts, k)
<1> DEFINE us == rs \o ts
           n == Len(rs)
           m == Len(ts)
<1>1. /\ n \in Nat /\ m \in Nat /\ us \in Lists /\ Len(us) = n + m
      /\ \A k \in 1 .. n + m : us[k] = IF k <= n THEN rs[k] ELSE ts[k - n]
  BY ListIs, ConcatProperties DEF Lists
<1> HIDE DEF us, n, m
<1>2. n <= Len(rs) /\ m <= Len(ts) /\ n = Len(rs) /\ m = Len(ts)
  BY <1>1 DEF n, m
<1>3. /\ \A k \in 1 .. n + 1 : CountBefore(us, k) \in Nat /\ CountBefore(rs, k) \in Nat
      /\ CountBefore(us, 1) = 0 /\ CountBefore(rs, 1) = 0 /\ CountBefore(ts, 1) = 0
      /\ \A k \in 1 .. m + 1 : CountBefore(us, n + k) \in Nat /\ CountBefore(ts, k) \in Nat
  <2>1. /\ CountBefore(us, 1) = 0 /\ CountBefore(rs, 1) = 0 /\ CountBefore(ts, 1) = 0
        /\ \A k \in 1 .. n + m + 1 : CountBefore(us, k) \in Nat
        /\ \A k \in 1 .. n + 1 : CountBefore(rs, k) \in Nat
        /\ \A k \in 1 .. m + 1 : CountBefore(ts, k) \in Nat
    BY <1>1, <1>2, Counts
  <2>2. QED
    BY <1>1, <2>1
<1>4. GrowAlike(us, 0, rs, 0, n)
  <2>1. CountAlike(us, 0, rs, 0, n) /\ 0 \in Nat
    BY <1>1, <1>2 DEF CountAlike
  <2>2. QED
    BY <1>1, <2>1, SameCounts, Zenon
<1>5. \A k \in 1 .. n + 1 : CountBefore(us, k) = CountBefore(rs, k)
  <2>1. ASSUME NEW k \in 1 .. n + 1 PROVE CountBefore(us, k) = CountBefore(rs, k)
    <3>1. k - 1 \in 0 .. n /\ 0 + (k - 1) + 1 = k /\ 0 + 1 = 1
      BY <1>1
    <3>2. CountBefore(us, k) - CountBefore(us, 1) = CountBefore(rs, k) - CountBefore(rs, 1)
      BY <1>4, <3>1 DEF GrowAlike
    <3>3. QED
      BY <1>3, <3>2
  <2>2. QED
    BY <2>1
<1>6. GrowAlike(us, n, ts, 0, m)
  <2>1. CountAlike(us, n, ts, 0, m) /\ 0 \in Nat
    BY <1>1, <1>2 DEF CountAlike
  <2>2. QED
    BY <1>1, <2>1, SameCounts, Zenon
<1>7. Size(rs) = CountBefore(us, n + 1)
  BY <1>1, <1>2, <1>5 DEF Size
<1>8. \A k \in 1 .. m + 1 : CountBefore(us, n + k) = Size(rs) + CountBefore(ts, k)
  <2>1. ASSUME NEW k \in 1 .. m + 1 PROVE CountBefore(us, n + k) = Size(rs) + CountBefore(ts, k)
    <3>1. k - 1 \in 0 .. m /\ 0 + (k - 1) + 1 = k /\ 0 + 1 = 1 /\ n + (k - 1) + 1 = n + k
      BY <1>1
    <3>2. CountBefore(us, n + k) - CountBefore(us, n + 1) = CountBefore(ts, k) - CountBefore(ts, 1)
      BY <1>6, <3>1 DEF GrowAlike
    <3>3. 1 \in 1 .. m + 1
      BY <1>1
    <3>4. QED
      BY <1>3, <1>7, <3>2, <3>3
  <2>2. QED
    BY <2>1
<1>9. Size(us) = Size(rs) + Size(ts)
  <2>1. m + 1 \in 1 .. m + 1 /\ Len(us) + 1 = n + (m + 1)
    BY <1>1
  <2>2. QED
    BY <1>2, <1>8, <2>1 DEF Size
<1>10. QED
  BY <1>1, <1>2, <1>5, <1>8, <1>9 DEF us

(* The fields of a range.                                                  *)
LEMMA RangeIs ==
  ASSUME NEW h \in HostRange
  PROVE  /\ h = [pfx |-> h.pfx, lo |-> h.lo, hi |-> h.hi, width |-> h.width, single |-> h.single]
         /\ h.pfx \in Seq(Int) /\ h.lo \in Nat /\ h.hi \in Nat /\ h.width \in Nat
            /\ h.single \in BOOLEAN
         /\ h.lo <= h.hi /\ (h.single => h.lo = 0 /\ h.hi = 0)
         /\ count(h) = h.hi - h.lo + 1
  BY DEF HostRange, count

(* A list of one range.                                                    *)
LEMMA OneSize ==
  ASSUME NEW h \in HostRange
  PROVE  <<h>> \in Lists /\ Len(<<h>>) = 1 /\ <<h>>[1] = h /\ Size(<<h>>) = count(h)
<1>1. <<h>> \in Lists /\ Len(<<h>>) = 1 /\ <<h>>[1] = h
  BY DEF Lists
<1>2. /\ CountBefore(<<h>>, 1) = 0 /\ 1 \in 1 .. Len(<<h>>)
      /\ \A k \in 1 .. Len(<<h>>) :
               CountBefore(<<h>>, k + 1) = CountBefore(<<h>>, k) + count(<<h>>[k])
      /\ \A k \in 1 .. Len(<<h>>) : count(<<h>>[k]) \in Nat \ {0}
  BY <1>1, Counts
<1>3. CountBefore(<<h>>, 1 + 1) = 0 + count(h) /\ count(h) \in Nat
  BY <1>1, <1>2
<1>4. QED
  BY <1>1, <1>3 DEF Size

(* The list of no range.                                                   *)
LEMMA EmptySize ==
  <<>> \in Lists /\ Size(<<>>) = 0 /\ Len(<<>>) = 0
<1>1. <<>> \in Lists /\ Len(<<>>) = 0
  BY DEF Lists
<1>2. CountBefore(<<>>, 1) = 0
  BY <1>1, Counts
<1>3. QED
  BY <1>1, <1>2 DEF Size

(* A list has at least a name for every range, and none only if it is      *)
(* empty.                                                                  *)
LEMMA SizeIs ==
  ASSUME NEW rs \in Lists
  PROVE  Size(rs) \in Nat /\ Size(rs) >= Len(rs) /\ (Size(rs) = 0 <=> rs = <<>>)
<1>1. Len(rs) \in Nat /\ 1 \in 1 .. Len(rs) + 1 /\ Len(rs) + 1 \in 1 .. Len(rs) + 1
  BY ListIs
<1>2. CountBefore(rs, Len(rs) + 1) \in Nat /\ CountBefore(rs, 1) = 0
  BY <1>1, Counts
<1>3. CountBefore(rs, Len(rs) + 1) - CountBefore(rs, 1) >= (Len(rs) + 1) - 1
  BY <1>1, Grows
<1>4. rs = <<>> <=> Len(rs) = 0
  BY DEF Lists
<1>5. QED
  BY <1>1, <1>2, <1>3, <1>4, EmptySize DEF Size

(* A range at the end adds its names.                                      *)
LEMMA AppendSize ==
  ASSUME NEW rs \in Lists, NEW h \in HostRange
  PROVE  /\ Append(rs, h) \in Lists /\ Append(rs, h) # <<>> /\ Len(Append(rs, h)) = Len(rs) + 1
         /\ Size(Append(rs, h)) = Size(rs) + count(h)
<1>1. Append(rs, h) = rs \o <<h>>
  BY AppendIsConcat DEF Lists
<1>2. <<h>> \in Lists /\ Size(<<h>>) = count(h) /\ Len(<<h>>) = 1
  BY OneSize
<1>3. rs \o <<h>> \in Lists /\ Len(rs \o <<h>>) = Len(rs) + Len(<<h>>)
      /\ Size(rs \o <<h>>) = Size(rs) + Size(<<h>>)
  BY <1>2, JoinedSize
<1>4. Len(rs) \in Nat /\ Len(Append(rs, h)) = Len(rs) + 1 /\ Len(<<>>) = 0
  BY <1>1, <1>2, <1>3, ListIs
<1>5. Append(rs, h) # <<>>
  BY <1>4
<1>6. QED
  BY <1>1, <1>2, <1>3, <1>4, <1>5

(* A range in the place of another changes the count of names after it by  *)
(* the difference.                                                         *)
LEMMA ReplacedSize ==
  ASSUME NEW rs \in Lists, NEW k \in 1 .. Len(rs), NEW h \in HostRange
  PROVE  /\ [rs EXCEPT ![k] = h] \in Lists /\ Len([rs EXCEPT ![k] = h]) = Len(rs)
         /\ [rs EXCEPT ![k] = h] # <<>>
         /\ \A j \in 1 .. Len(rs) : [rs EXCEPT ![k] = h][j] = IF j = k THEN h ELSE rs[j]
         /\ \A j \in 1 .. k : CountBefore([rs EXCEPT ![k] = h], j) = CountBefore(rs, j)
         /\ \A j \in k + 1 .. Len(rs) + 1 :
               CountBefore([rs EXCEPT ![k] = h], j) = CountBefore(rs, j) + count(h) - count(rs[k])
         /\ Size([rs EXCEPT ![k] = h]) = Size(rs) + count(h) - count(rs[k])
<1> DEFINE ts == [rs EXCEPT ![k] = h]
           n == Len(rs)
<1>1. /\ ts \in Lists /\ Len(ts) = n /\ n \in Nat /\ ts # <<>>
      /\ \A j \in 1 .. n : ts[j] = IF j = k THEN h ELSE rs[j]
  BY DEF Lists
<1> HIDE DEF ts
<1>2. /\ \A j \in 1 .. n + 1 : CountBefore(rs, j) \in Nat /\ CountBefore(ts, j) \in Nat
      /\ CountBefore(rs, 1) = 0 /\ CountBefore(ts, 1) = 0
      /\ count(rs[k]) \in Nat /\ count(h) \in Nat
      /\ CountBefore(rs, k + 1) = CountBefore(rs, k) + count(rs[k])
      /\ CountBefore(ts, k + 1) = CountBefore(ts, k) + count(ts[k])
  <2>1. /\ \A j \in 1 .. n + 1 : CountBefore(rs, j) \in Nat
        /\ CountBefore(rs, 1) = 0 /\ count(rs[k]) \in Nat
        /\ CountBefore(rs, k + 1) = CountBefore(rs, k) + count(rs[k])
    BY Counts
  <2>2. /\ \A j \in 1 .. n + 1 : CountBefore(ts, j) \in Nat
        /\ CountBefore(ts, 1) = 0 /\ count(ts[k]) \in Nat
        /\ CountBefore(ts, k + 1) = CountBefore(ts, k) + count(ts[k])
    BY <1>1, Counts
  <2>3. QED
    BY <1>1, <2>1, <2>2
<1>3. \A j \in 1 .. k : CountBefore(ts, j) = CountBefore(rs, j)
  <2>1. k - 1 \in Nat /\ 0 \in Nat /\ CountAlike(ts, 0, rs, 0, k - 1)
    BY <1>1 DEF CountAlike
  <2>2. GrowAlike(ts, 0, rs, 0, k - 1)
    BY <1>1, <2>1, SameCounts, Zenon
  <2>3. ASSUME NEW j \in 1 .. k PROVE CountBefore(ts, j) = CountBefore(rs, j)
    <3>1. j - 1 \in 0 .. k - 1 /\ 0 + (j - 1) + 1 = j /\ 0 + 1 = 1
      OBVIOUS
    <3>2. CountBefore(ts, j) - CountBefore(ts, 1) = CountBefore(rs, j) - CountBefore(rs, 1)
      BY <2>2, <3>1 DEF GrowAlike
    <3>3. j \in 1 .. n + 1
      BY <1>1
    <3>4. QED
      BY <1>2, <3>2, <3>3
  <2>4. QED
    BY <2>3
<1>4. CountBefore(ts, k + 1) = CountBefore(rs, k + 1) + count(h) - count(rs[k])
  <2>1. CountBefore(ts, k) = CountBefore(rs, k) /\ ts[k] = h /\ k \in 1 .. n + 1
    BY <1>1, <1>3
  <2>2. QED
    BY <1>2, <2>1
<1>5. \A j \in k + 1 .. n + 1 : CountBefore(ts, j) = CountBefore(rs, j) + count(h) - count(rs[k])
  <2>1. k \in Nat /\ n - k \in Nat /\ CountAlike(ts, k, rs, k, n - k)
    BY <1>1 DEF CountAlike
  <2> DEFINE m == n - k
  <2> HIDE DEF m
  <2>2. GrowAlike(ts, k, rs, k, m)
    BY <1>1, <2>1, SameCounts, Zenon DEF m
  <2>3. ASSUME NEW j \in k + 1 .. n + 1
        PROVE  CountBefore(ts, j) = CountBefore(rs, j) + count(h) - count(rs[k])
    <3>1. j - k - 1 \in 0 .. m /\ k + (j - k - 1) + 1 = j
      BY <1>1 DEF m
    <3>2. CountBefore(ts, j) - CountBefore(ts, k + 1) = CountBefore(rs, j) - CountBefore(rs, k + 1)
      BY <2>2, <3>1 DEF GrowAlike
    <3>3. j \in 1 .. n + 1 /\ k + 1 \in 1 .. n + 1
      BY <1>1
    <3>4. /\ CountBefore(ts, j) \in Nat /\ CountBefore(rs, j) \in Nat
          /\ CountBefore(ts, k + 1) \in Nat /\ CountBefore(rs, k + 1) \in Nat
          /\ count(h) \in Nat /\ count(rs[k]) \in Nat
      BY <1>2, <3>3
    <3> HIDE DEF n, m
    <3>5. QED
      BY <1>4, <3>2, <3>4, SMTT(30)
  <2>4. QED
    BY <2>3
<1>6. n + 1 \in k + 1 .. n + 1
  BY <1>1
<1>7. Size(ts) = Size(rs) + count(h) - count(rs[k])
  BY <1>1, <1>5, <1>6 DEF Size
<1>8. QED
  BY <1>1, <1>3, <1>5, <1>7 DEF ts

(* hostlist_push_range adds the names of the range, joined to the last     *)
(* range or not.                                                           *)
LEMMA PushRange ==
  ASSUME NEW rs \in Lists, NEW h \in HostRange
  PROVE  /\ push_range(rs, h) \in Lists /\ Size(push_range(rs, h)) = Size(rs) + count(h)
         /\ Len(push_range(rs, h)) >= Len(rs)
<1>1. CASE rs # <<>> /\ Follows(Last(rs), h)
  <2> DEFINE n == Len(rs)
             g == rs[n]
             e == [g EXCEPT !.hi = h.hi]
  <2>1. n \in Nat /\ n # 0 /\ n \in 1 .. n /\ g \in HostRange /\ Last(rs) = g
    <3>1. n \in Nat /\ (n = 0 => rs = <<>>)
      BY DEF Lists
    <3>2. QED
      BY <1>1, <3>1, ListIs DEF Last
  <2>2. /\ g.pfx \in Seq(Int) /\ g.lo \in Nat /\ g.hi \in Nat /\ g.width \in Nat
           /\ g.single \in BOOLEAN
        /\ g.lo <= g.hi /\ (g.single => g.lo = 0 /\ g.hi = 0) /\ count(g) = g.hi - g.lo + 1
        /\ h.lo \in Nat /\ h.hi \in Nat /\ h.lo <= h.hi /\ (h.single => h.lo = 0 /\ h.hi = 0)
        /\ count(h) = h.hi - h.lo + 1
        /\ g.single = h.single /\ g.hi = h.lo - 1
    BY <1>1, <2>1, RangeIs DEF Follows, prefix_eq
  <2>3. ~g.single
    BY <2>2
  <2>4. e \in HostRange /\ count(e) = count(g) + count(h)
    <3>1. /\ e = [pfx |-> g.pfx, lo |-> g.lo, hi |-> h.hi, width |-> g.width, single |-> g.single]
      <4>1. g \in [pfx : Seq(Int), lo : Nat, hi : Nat, width : Nat, single : BOOLEAN]
        BY <2>1 DEF HostRange
      <4> HIDE DEF g
      <4>2. QED
        BY <4>1
    <3>2. e \in HostRange
      BY <2>2, <2>3, <3>1 DEF HostRange
    <3>3. count(e) = h.hi - g.lo + 1
      BY <2>3, <3>1 DEF count
    <3>4. QED
      BY <2>2, <3>2, <3>3
  <2>5. push_range(rs, h) = [rs EXCEPT ![n] = e]
    <3>1. [rs EXCEPT ![n].hi = h.hi] = [rs EXCEPT ![n] = e]
      BY <2>1 DEF Lists
    <3>2. QED
      BY <1>1, <3>1 DEF push_range
  <2>6. Size(rs) \in Nat /\ count(g) \in Nat /\ count(h) \in Nat
    BY <2>2, SizeIs
  <2> HIDE DEF e, g, n
  <2>7. /\ [rs EXCEPT ![n] = e] \in Lists
           /\ Size([rs EXCEPT ![n] = e]) = Size(rs) + count(e) - count(g)
        /\ Len([rs EXCEPT ![n] = e]) = Len(rs) /\ Len(rs) \in Nat
    <3>1. n \in 1 .. Len(rs) /\ rs[n] = g
      BY <2>1 DEF n, g
    <3>2. QED
      BY <2>4, <3>1, ReplacedSize, ListIs
  <2>8. QED
    BY <2>4, <2>5, <2>6, <2>7
<1>2. CASE ~(rs # <<>> /\ Follows(Last(rs), h))
  BY <1>2, AppendSize, ListIs DEF push_range
<1>3. QED
  BY <1>1, <1>2

(* h are the lists that come about when new is pushed, a range at a time.  *)
PushesUp(h, rs, new) ==
    /\ h[0] = rs /\ h[Len(new)] = push_ranges(rs, new)
    /\ \A n \in 1 .. Len(new) : h[n - 1] \in Lists /\ h[n] = push_range(h[n - 1], new[n])

(* Pushing a list of ranges adds the names of all of them.                 *)
LEMMA PushRanges ==
  ASSUME NEW rs \in Lists, NEW new \in Lists
  PROVE  /\ push_ranges(rs, new) \in Lists /\ Size(push_ranges(rs, new)) = Size(rs) + Size(new)
         /\ Len(push_ranges(rs, new)) >= Len(rs)
         /\ \E h : PushesUp(h, rs, new)
<1> DEFINE N == Len(new)
           step == [p \in (1 .. N) \X Lists |-> push_range(p[2], new[p[1]])]
           Is(f) == f = [s \in SUBSET (1 .. N) |-> IF s = {} THEN rs
                                                      ELSE push_range(f[s \ {Max(s)}], new[Max(s)])]
           iter == CHOOSE f : Is(f)
<1>1. N \in Nat /\ DOMAIN new = 1 .. N /\ \A n \in 1 .. N : new[n] \in HostRange
  BY ListIs
<1>2. step \in [(1 .. N) \X Lists -> Lists]
  BY <1>1, PushRange
<1>3. push_ranges(rs, new) = iter[1 .. N]
  BY <1>1 DEF push_ranges, FoldLeft, MapThenFoldSet
<1>4. \A s \in SUBSET (1 .. N) : s # {} => Max(s) \in 1 .. N
  BY <1>1, MaxInside
<1>5. ASSUME NEW n \in 1 .. N, NEW v \in Lists PROVE step[<<n, v>>] = push_range(v, new[n])
  OBVIOUS
<1> HIDE DEF step, N
<1>6. PICK f \in [SUBSET (1 .. N) -> Lists] : FoldedLeft(f, N, rs, step)
  BY <1>1, <1>2, LeftFold, Zenon
<1>7. Is(f)
  BY <1>4, <1>5, <1>6 DEF FoldedLeft
<1>8. Is(iter)
  BY <1>7
<1> HIDE DEF iter
<1>9. ClimbsTo(N, Lists, rs, step, iter[1 .. N])
  <2>1. FoldsLeft(iter, N, Lists, rs, step)
    BY <1>4, <1>5, <1>8 DEF FoldsLeft
  <2>2. QED
    BY <1>1, <1>2, <2>1, LeftClimb, Zenon
<1>10. PICK h \in [0 .. N -> Lists] : Chained(h, N, rs, step) /\ h[N] = iter[1 .. N]
  BY <1>9 DEF ClimbsTo
<1> DEFINE S == {n \in Nat : n <= N => /\ Size(h[n]) = Size(rs) + CountBefore(new, n + 1)
                                       /\ Len(h[n]) >= Len(rs)}
<1>11. \A n \in Nat : n \in S
  <2>1. 0 \in S
    <3>1. h[0] = rs
      <4>1. 0 \in 0 .. N
        BY <1>1
      <4>2. QED
        BY <1>10, <4>1 DEF Chained
    <3>2. CountBefore(new, 0 + 1) = 0 /\ Size(rs) \in Nat
      <4>1. CountBefore(new, 1) = 0 /\ Size(rs) \in Nat
        BY Counts, SizeIs
      <4>2. 0 + 1 = 1
        OBVIOUS
      <4>3. QED
        BY <4>1, <4>2
    <3>3. Size(h[0]) = Size(rs) + CountBefore(new, 0 + 1)
      <4>1. Size(h[0]) = Size(rs)
        BY <3>1
      <4> HIDE DEF Is
      <4>2. QED
        BY <3>2, <4>1
    <3>4. Len(h[0]) >= Len(rs)
      BY <3>1, ListIs
    <3>5. QED
      BY <3>3, <3>4
  <2>2. ASSUME NEW n \in Nat, n \in S PROVE n + 1 \in S
    <3>1. SUFFICES ASSUME n + 1 <= N
                   PROVE  /\ Size(h[n + 1]) = Size(rs) + CountBefore(new, (n + 1) + 1)
                          /\ Len(h[n + 1]) >= Len(rs)
      OBVIOUS
    <3>2. n + 1 \in 1 .. N /\ n + 1 \in 0 .. N /\ n \in 0 .. N /\ (n + 1) - 1 = n /\ n + 1 # 0
      BY <1>1, <3>1
    <3>3. h[n] \in Lists /\ h[n + 1] = push_range(h[n], new[n + 1])
      BY <1>5, <1>10, <3>2 DEF Chained
    <3>4. Size(h[n + 1]) = Size(h[n]) + count(new[n + 1]) /\ Len(h[n + 1]) >= Len(h[n])
      BY <1>1, <3>2, <3>3, PushRange
    <3>5. /\ CountBefore(new, (n + 1) + 1) = CountBefore(new, n + 1) + count(new[n + 1])
          /\ CountBefore(new, n + 1) \in Nat /\ count(new[n + 1]) \in Nat
      <4>1. n + 1 \in 1 .. Len(new) /\ n + 1 \in 1 .. Len(new) + 1
        BY <3>2 DEF N
      <4>2. QED
        BY <4>1, Counts
    <3>6. Size(h[n]) = Size(rs) + CountBefore(new, n + 1) /\ Size(rs) \in Nat
      BY <2>2, <3>2, SizeIs
    <3>7. Len(h[n + 1]) >= Len(rs)
      <4>1. Len(h[n]) >= Len(rs) /\ Len(h[n]) \in Nat /\ Len(rs) \in Nat /\ Len(h[n + 1]) \in Nat
        BY <1>10, <2>2, <3>2, <3>3, ListIs
      <4>2. QED
        BY <3>4, <4>1
    <3>8. QED
      BY <3>4, <3>5, <3>6, <3>7
  <2> HIDE DEF S
  <2>3. QED
    BY <2>1, <2>2, Induction
<1>12. h[N] \in Lists /\ Size(h[N]) = Size(rs) + CountBefore(new, N + 1) /\ Len(h[N]) >= Len(rs)
  BY <1>1, <1>10, <1>11
<1>13. PushesUp(h, rs, new)
  <2>1. ASSUME NEW n \in 1 .. N
        PROVE  h[n - 1] \in Lists /\ h[n] = push_range(h[n - 1], new[n])
    <3>1. n \in 0 .. N /\ n # 0 /\ n - 1 \in 0 .. N
      BY <1>1
    <3>2. h[n - 1] \in Lists /\ h[n] = step[<<n, h[n - 1]>>]
      BY <1>10, <3>1 DEF Chained
    <3>3. QED
      BY <1>5, <3>2
  <2>2. h[0] = rs
    <3>1. 0 \in 0 .. N
      BY <1>1
    <3>2. QED
      BY <1>10, <3>1 DEF Chained
  <2>3. QED
    BY <1>3, <1>10, <2>1, <2>2 DEF PushesUp, N
<1>14. QED
  BY <1>3, <1>10, <1>12, <1>13 DEF Size, N

(* f is the chain of sequences FlattenSeq goes through.                    *)
Flattens(f, seqs) ==
    /\ f[1] = seqs[1] /\ FlattenSeq(seqs) = f[Len(seqs)]
    /\ \A i \in 2 .. Len(seqs) : f[i] = f[i - 1] \o seqs[i]

(* FlattenSeq of sequences over X is one over X, by such a chain.          *)
LEMMA Flatten ==
  ASSUME NEW X, NEW seqs \in Seq(Seq(X))
  PROVE  /\ FlattenSeq(seqs) \in Seq(X)
         /\ seqs = <<>> => FlattenSeq(seqs) = <<>>
         /\ seqs # <<>> => \E f \in [1 .. Len(seqs) -> Seq(X)] : Flattens(f, seqs)
<1>1. CASE Len(seqs) = 0
  <2>1. seqs = <<>> /\ FlattenSeq(seqs) = seqs
    BY <1>1 DEF FlattenSeq
  <2>2. FlattenSeq(seqs) = <<>> /\ <<>> \in Seq(X)
    BY <2>1
  <2>3. QED
    BY <2>1, <2>2
<1>2. CASE Len(seqs) # 0
  <2> DEFINE N == Len(seqs)
             V == Seq(X)
             step == [p \in (1 .. N - 1) \X V |-> p[2] \o seqs[p[1] + 1]]
             Is(f) == f = [i \in 1 .. N |-> IF i = 1 THEN seqs[i] ELSE f[i - 1] \o seqs[i]]
             flatten == CHOOSE f : Is(f)
  <2>1. N \in Nat \ {0} /\ N - 1 \in Nat /\ \A i \in 1 .. N : seqs[i] \in V
    BY <1>2
  <2>2. step \in [(1 .. N - 1) \X V -> V]
    BY <2>1
  <2>3. FlattenSeq(seqs) = flatten[N] /\ seqs # <<>>
    BY <1>2 DEF FlattenSeq
  <2>4. ASSUME NEW n \in 1 .. N - 1, NEW v \in V PROVE step[<<n, v>>] = v \o seqs[n + 1]
    OBVIOUS
  <2>5. seqs[1] \in V
    BY <2>1
  <2>6. \A v \in V, w \in V : v \o w \in V
    OBVIOUS
  <2> HIDE DEF step, N, V
  <2> DEFINE M == N - 1
  <2>7. M \in Nat /\ step \in [(1 .. M) \X V -> V]
    BY <2>1, <2>2
  <2> HIDE DEF M
  <2>8. PICK g \in [0 .. M -> V] : Chained(g, M, seqs[1], step)
    BY <2>5, <2>7, Chain, Zenon
  <2>9. g[0] = seqs[1] /\ \A n \in 1 .. M : g[n] = step[<<n, g[n - 1]>>]
    <3>1. 0 \in 0 .. M /\ \A n \in 1 .. M : n \in 0 .. M /\ n # 0
      BY <2>7
    <3>2. QED
      BY <2>8, <3>1 DEF Chained
  <2> DEFINE f == [i \in 1 .. N |-> g[i - 1]]
  <2>10. /\ f \in [1 .. N -> V] /\ f[1] = seqs[1]
         /\ \A i \in 2 .. N : f[i] = f[i - 1] \o seqs[i]
    <3>1. \A i \in 1 .. N : i - 1 \in 0 .. M
      BY <2>1 DEF M
    <3>2. f \in [1 .. N -> V] /\ f[1] = seqs[1]
      BY <2>1, <2>8, <2>9, <3>1
    <3>3. ASSUME NEW i \in 2 .. N PROVE f[i] = f[i - 1] \o seqs[i]
      <4>1. i - 1 \in 1 .. M /\ (i - 1) + 1 = i /\ i \in 1 .. N /\ i - 1 \in 1 .. N
            /\ (i - 1) - 1 \in 0 .. M
        BY <2>1 DEF M
      <4>2. g[i - 1] = step[<<i - 1, g[(i - 1) - 1]>>] /\ g[(i - 1) - 1] \in V
        BY <2>8, <2>9, <4>1
      <4>3. step[<<i - 1, g[(i - 1) - 1]>>] = g[(i - 1) - 1] \o seqs[i]
        BY <2>4, <4>1, <4>2 DEF M
      <4>4. f[i] = g[i - 1] /\ f[i - 1] = g[(i - 1) - 1]
        BY <4>1
      <4>5. QED
        BY <4>2, <4>3, <4>4
    <3>4. QED
      BY <3>2, <3>3
  <2> HIDE DEF f
  <2>11. Is(f)
    <3>1. \A i \in 1 .. N : f[i] = IF i = 1 THEN seqs[i] ELSE f[i - 1] \o seqs[i]
      <4>1. ASSUME NEW i \in 1 .. N, i # 1 PROVE f[i] = f[i - 1] \o seqs[i]
        <5>1. i \in 2 .. N
          BY <2>1, <4>1
        <5>2. QED
          BY <2>10, <5>1
      <4>2. f[1] = seqs[1]
        BY <2>10
      <4> HIDE DEF Is
      <4>3. QED
        BY <4>1, <4>2
    <3>2. f \in [1 .. N -> V]
      BY <2>10
    <3>3. f = [i \in 1 .. N |-> IF i = 1 THEN seqs[i] ELSE f[i - 1] \o seqs[i]]
      BY <3>1, <3>2, Zenon
    <3>4. QED
      BY <3>3, Zenon
  <2>12. Is(flatten)
    BY <2>11
  <2> HIDE DEF flatten
  <2>13. /\ flatten[1] = seqs[1]
         /\ \A i \in 2 .. N : flatten[i] = flatten[i - 1] \o seqs[i]
    <3>1. \A i \in 1 .. N : flatten[i] = IF i = 1 THEN seqs[i] ELSE flatten[i - 1] \o seqs[i]
      BY <2>12, Zenon
    <3>2. 1 \in 1 .. N /\ \A i \in 2 .. N : i \in 1 .. N /\ i # 1
      BY <2>1
    <3>3. QED
      BY <3>1, <3>2, Zenon
  <2> DEFINE S == {n \in Nat : n + 1 <= N => flatten[n + 1] \in V}
  <2>14. \A n \in Nat : n \in S
    <3>1. 0 \in S
      BY <2>5, <2>13
    <3>2. ASSUME NEW n \in Nat, n \in S PROVE n + 1 \in S
      <4>1. SUFFICES ASSUME (n + 1) + 1 <= N PROVE flatten[(n + 1) + 1] \in V
        OBVIOUS
      <4>2. (n + 1) + 1 \in 2 .. N /\ (n + 1) + 1 \in 1 .. N /\ ((n + 1) + 1) - 1 = n + 1
            /\ flatten[n + 1] \in V
        BY <2>1, <3>2, <4>1
      <4>3. seqs[(n + 1) + 1] \in V
        BY <2>1, <4>2
      <4>4. QED
        BY <2>6, <2>13, <4>2, <4>3
    <3> HIDE DEF S
    <3>3. QED
      BY <3>1, <3>2, Induction
  <2>15. flatten \in [1 .. N -> V]
    <3>1. ASSUME NEW i \in 1 .. N PROVE flatten[i] \in V
      <4>1. i - 1 \in Nat /\ (i - 1) + 1 = i /\ (i - 1) + 1 <= N
        BY <2>1
      <4>2. i - 1 \in S
        BY <2>14, <4>1
      <4>3. QED
        BY <4>1, <4>2
    <3>2. QED
      BY <2>12, <3>1
  <2>16. flatten[N] \in V
    BY <2>1, <2>15
  <2>17. QED
    BY <2>3, <2>13, <2>15, <2>16 DEF N, V, Flattens
<1>3. QED
  BY <1>1, <1>2

(* A number is written in digits.                                          *)
LEMMA DigitsAre ==
  ASSUME NEW n \in Nat
  PROVE  /\ Digits[n] \in Seq(0 .. 9)
         /\ Digits[n] = IF n < 10 THEN <<n>> ELSE Append(Digits[n \div 10], n % 10)
<1> DEFINE V == Seq(0 .. 9)
           Stop == 0 .. 9
           measure == [m \in Nat |-> m]
           next == [m \in Nat |-> IF m < 10 THEN 0 ELSE m \div 10]
           base == [m \in Nat |-> IF m < 10 THEN <<m>> ELSE <<>>]
           step == [p \in Nat \X V |-> Append(p[2], p[1] % 10)]
           Is(f) == f = [m \in Nat |-> IF m < 10 THEN <<m>> ELSE Append(f[m \div 10], m % 10)]
<1>1. Descends(Nat, Stop, measure, next)
  <2>1. ASSUME NEW m \in Nat, ~(m < 10) PROVE m \div 10 \in Nat /\ m \div 10 < m
    BY <2>1
  <2>2. next \in [Nat -> Nat]
    BY <2>1
  <2>3. QED
    BY <2>1, <2>2 DEF Descends
<1>2. base \in [Nat -> V]
  <2>1. \A m \in Nat : m < 10 => <<m>> \in V
    <3>1. \A m \in 0 .. 9 : <<m>> \in Seq(0 .. 9)
      OBVIOUS
    <3>2. QED
      BY <3>1
  <2>2. <<>> \in V
    OBVIOUS
  <2> HIDE DEF V
  <2>3. QED
    BY <2>1, <2>2
<1>3. step \in [Nat \X V -> V]
  <2>1. \A m \in Nat, v \in V : m % 10 \in 0 .. 9 /\ Append(v, m % 10) \in V
    OBVIOUS
  <2>2. QED
    BY <2>1
<1>4. ASSUME NEW m \in Nat
      PROVE  /\ m \in Stop <=> m < 10
             /\ m < 10 => base[m] = <<m>>
             /\ ~(m < 10) => next[m] = m \div 10 /\ \A v \in V : step[<<m, v>>] = Append(v, m % 10)
  OBVIOUS
<1>5. \A m \in Nat : next[m] \in Nat
  BY <1>1 DEF Descends
<1> HIDE DEF V, Stop, measure, next, base, step
<1>6. PICK f \in [Nat -> V] : Solves(f, Nat, Stop, next, base, step)
  BY <1>1, <1>2, <1>3, Descent, Zenon
<1>7. ASSUME NEW m \in Nat
      PROVE  f[m] = IF m < 10 THEN <<m>> ELSE Append(f[m \div 10], m % 10)
  <2>1. f[m] = IF m \in Stop THEN base[m] ELSE step[<<m, f[next[m]]>>]
    BY <1>6 DEF Solves
  <2>2. f[next[m]] \in V
    BY <1>5, <1>6
  <2>3. QED
    BY <1>4, <2>1, <2>2
<1>8. Is(f)
  <2> HIDE DEF Is
  <2>1. f = [m \in Nat |-> IF m < 10 THEN <<m>> ELSE Append(f[m \div 10], m % 10)]
    BY <1>6, <1>7, Zenon
  <2>2. QED
    BY <2>1, Zenon DEF Is
<1>9. Is(Digits)
  BY <1>8, Zenon DEF Digits
<1>10. \A m \in Nat : Digits[m] = IF m < 10 THEN <<m>> ELSE Append(Digits[m \div 10], m % 10)
  BY <1>9, Zenon
<1> DEFINE S == {m \in Nat : Digits[m] \in V}
<1>11. \A m \in Nat : m \in S
  <2>1. ASSUME NEW m \in Nat, m \in Stop \/ next[m] \in S PROVE m \in S
    <3>1. CASE m < 10
      <4>1. m \in Stop /\ Digits[m] = base[m]
        <5>1. m \in Stop /\ base[m] = <<m>>
          BY <1>4, <3>1
        <5>2. Digits[m] = <<m>>
          BY <1>10, <3>1
        <5>3. QED
          BY <5>1, <5>2
      <4>2. QED
        BY <1>2, <4>1
    <3>2. CASE ~(m < 10)
      <4>1. Digits[m \div 10] \in V /\ m % 10 \in 0 .. 9
        <5>1. next[m] = m \div 10 /\ m \notin Stop
          BY <1>4, <3>2
        <5>2. Digits[m \div 10] \in V
          BY <2>1, <5>1
        <5>3. QED
          BY <5>2
      <4>2. Append(Digits[m \div 10], m % 10) \in Seq(0 .. 9)
        <5> HIDE DEF Is
        <5>1. \A v \in Seq(0 .. 9), x \in 0 .. 9 : Append(v, x) \in Seq(0 .. 9)
          OBVIOUS
        <5>2. QED
          BY <4>1, <5>1 DEF V
      <4>3. QED
        BY <1>10, <3>2, <4>2 DEF V
    <3>3. QED
      BY <3>1, <3>2
  <2> HIDE DEF S
  <2>2. QED
    BY <1>1, <2>1, DescentInduction
<1>12. QED
  BY <1>10, <1>11 DEF V

(* A printed number is a sequence of digits.                               *)
LEMMA PrintedIs ==
  ASSUME NEW n \in Nat, NEW w \in Nat
  PROVE  zero_padded(n, w) \in Nat /\ Printed(n, w) \in Seq(0 .. 9)
<1>1. Digits[n] \in Seq(0 .. 9)
  BY DigitsAre
<1>2. zero_padded(n, w) \in Nat
  BY <1>1 DEF zero_padded
<1>3. [k \in 1 .. zero_padded(n, w) |-> 0] \in Seq(0 .. 9)
  BY <1>2
<1>4. \A s \in Seq(0 .. 9), t \in Seq(0 .. 9) : s \o t \in Seq(0 .. 9)
  OBVIOUS
<1>5. QED
  BY <1>1, <1>2, <1>3, <1>4 DEF Printed

(* A name of a range is a sequence of characters.                          *)
LEMMA HostIs ==
  ASSUME NEW h \in HostRange, NEW depth \in Nat
  PROVE  Host(h, depth) \in Seq(Int)
<1>1. Printed(h.lo + depth, h.width) \in Seq(0 .. 9)
  <2>1. h.lo + depth \in Nat /\ h.width \in Nat
    BY RangeIs
  <2>2. QED
    BY <2>1, PrintedIs
<1>2. Printed(h.lo + depth, h.width) \in Seq(Int)
  BY <1>1
<1>3. QED
  BY <1>2, RangeIs DEF Host

(* The names of a list are sequences of characters.                        *)
LEMMA NamesAre ==
  ASSUME NEW rs \in Lists
  PROVE  NamesOf(rs) \in Seq(Seq(Int))
<1>1. ASSUME NEW k \in DOMAIN rs PROVE Hosts(rs[k]) \in Seq(Seq(Int))
  <2>1. rs[k] \in HostRange /\ count(rs[k]) \in Nat
    BY ListIs, Counts
  <2>2. \A j \in 1 .. count(rs[k]) : Host(rs[k], j - 1) \in Seq(Int)
    BY <2>1, HostIs
  <2>3. QED
    BY <2>1, <2>2 DEF Hosts
<1>2. [k \in DOMAIN rs |-> Hosts(rs[k])] \in Seq(Seq(Seq(Int)))
  BY <1>1, ListIs
<1>3. QED
  BY <1>2, Flatten DEF NamesOf

(* Span stops at the first position of K.                                  *)
LEMMA SpanIs ==
  ASSUME NEW s \in Seq(Int), NEW K \in SUBSET (1 .. Len(s))
  PROVE  /\ Span(s, K) \in 0 .. Len(s)
         /\ \A k \in 1 .. Span(s, K) : k \notin K
<1> DEFINE T == K \cup {Len(s) + 1}
<1>1. Len(s) \in Nat /\ T \in SUBSET (1 .. Len(s) + 1) /\ T # {} /\ 1 \in Int /\ Len(s) + 1 \in Int
  <2>1. Len(s) \in Nat
    OBVIOUS
  <2> DEFINE n == Len(s)
  <2> HIDE DEF n
  <2>2. n \in Nat /\ K \in SUBSET (1 .. n)
    BY <2>1 DEF n
  <2>3. K \cup {n + 1} \in SUBSET (1 .. n + 1) /\ K \cup {n + 1} # {}
    BY <2>2
  <2>4. QED
    BY <2>1, <2>3 DEF n
<1> HIDE DEF T
<1>2. Min(T) \in T /\ \A y \in T : Min(T) <= y
  BY <1>1, MinIs, Zenon
<1>3. Min(T) \in 1 .. Len(s) + 1 /\ \A y \in K : Min(T) <= y
  BY <1>1, <1>2 DEF T
<1>4. Span(s, K) = Min(T) - 1
  BY DEF Span, T
<1>5. QED
  BY <1>1, <1>3, <1>4

(* A sequence is one over any set that holds its elements.                 *)
LEMMA Retyped ==
  ASSUME NEW X, NEW Y, NEW s \in Seq(X), \A k \in 1 .. Len(s) : s[k] \in Y
  PROVE  s \in Seq(Y)
<1>1. s = [k \in 1 .. Len(s) |-> s[k]] /\ Len(s) \in Nat
  OBVIOUS
<1>2. [k \in 1 .. Len(s) |-> s[k]] \in Seq(Y)
  BY <1>1
<1>3. QED
  BY <1>1, <1>2

(* A part of a sequence.                                                   *)
LEMMA PartIs ==
  ASSUME NEW X, NEW s \in Seq(X), NEW i \in 1 .. Len(s) + 1, NEW j \in 0 .. Len(s)
  PROVE  /\ SubSeq(s, i, j) \in Seq(X)
         /\ Len(SubSeq(s, i, j)) = IF i <= j THEN j - i + 1 ELSE 0
         /\ \A k \in 1 .. Len(SubSeq(s, i, j)) :
                  SubSeq(s, i, j)[k] = s[i + k - 1] /\ i + k - 1 \in i .. j
  BY SubSeqProperties

(* A sequence is its two parts on either side of a position.               *)
LEMMA TwoParts ==
  ASSUME NEW X, NEW s \in Seq(X), NEW i \in 0 .. Len(s)
  PROVE  s = SubSeq(s, 1, i) \o SubSeq(s, i + 1, Len(s))
<1> DEFINE a == SubSeq(s, 1, i)
           b == SubSeq(s, i + 1, Len(s))
<1>1. Len(s) \in Nat /\ 1 \in 1 .. Len(s) + 1 /\ i + 1 \in 1 .. Len(s) + 1 /\ Len(s) \in 0 .. Len(s)
  OBVIOUS
<1>2. a \in Seq(X) /\ Len(a) = i /\ \A k \in 1 .. i : a[k] = s[k]
  BY <1>1, PartIs
<1>3. b \in Seq(X) /\ Len(b) = Len(s) - i /\ \A k \in 1 .. Len(s) - i : b[k] = s[i + k]
  BY <1>1, PartIs
<1> HIDE DEF a, b
<1>4. /\ a \o b \in Seq(X) /\ Len(a \o b) = Len(s)
      /\ \A k \in 1 .. Len(s) : (a \o b)[k] = IF k <= i THEN a[k] ELSE b[k - i]
  BY <1>1, <1>2, <1>3
<1>5. \A k \in 1 .. Len(s) : (a \o b)[k] = s[k]
  BY <1>1, <1>2, <1>3, <1>4
<1>6. QED
  BY <1>4, <1>5, SeqEqual DEF a, b

(* The digits in front are digits, the rest is the rest.                   *)
LEMMA LeadIs ==
  ASSUME NEW s \in Seq(Int)
  PROVE  /\ LeadDigits(s) \in Seq(0 .. 9) /\ LeadDigits(s) \in Seq(Nat)
            /\ LeadDigits(s) \in Seq(Int)
         /\ Len(LeadDigits(s)) \in 0 .. Len(s)
         /\ \A k \in 1 .. Len(LeadDigits(s)) : s[k] \in 0 .. 9
         /\ strtoul(LeadDigits(s)) \in Nat
         /\ AfterDigits(s) \in Seq(Int)
<1> DEFINE K == DOMAIN s \ digits(s)
           n == Span(s, K)
<1>1. /\ K \in SUBSET (1 .. Len(s))
      /\ \A k \in 1 .. Len(s) : k \notin K => s[k] \in 0 .. 9
  BY SMTT(30) DEF digits, isdigit
<1> HIDE DEF K
<1>2. n \in 0 .. Len(s) /\ \A k \in 1 .. n : k \notin K
  BY <1>1, SpanIs
<1>3. LeadDigits(s) = SubSeq(s, 1, n)
  BY DEF LeadDigits, K
<1> HIDE DEF n
<1>4. /\ Len(s) \in Nat /\ 1 \in 1 .. Len(s) + 1
      /\ Len(SubSeq(s, 1, n)) = n /\ SubSeq(s, 1, n) \in Seq(Int)
      /\ \A k \in 1 .. n : SubSeq(s, 1, n)[k] = s[k]
  BY <1>2, SubSeqProperties
<1>5. \A k \in 1 .. n : s[k] \in 0 .. 9
  BY <1>1, <1>2
<1>6. \A k \in 1 .. n : SubSeq(s, 1, n)[k] \in 0 .. 9
  BY <1>4, <1>5
<1>7. LeadDigits(s) \in Seq(0 .. 9)
  <2>1. \A k \in 1 .. Len(SubSeq(s, 1, n)) : SubSeq(s, 1, n)[k] \in 0 .. 9
    BY <1>4, <1>6
  <2>2. QED
    BY <1>3, <1>4, <2>1, Retyped
<1>8. LeadDigits(s) \in Seq(Nat)
  BY <1>7, SMTT(30)
<1>9. strtoul(LeadDigits(s)) \in Nat
  BY <1>8, ReadNumber
<1>10. AfterDigits(s) \in Seq(Int)
  <2>1. Len(LeadDigits(s)) + 1 \in 1 .. Len(s) + 1 /\ Len(s) \in 0 .. Len(s)
    BY <1>2, <1>3, <1>4
  <2>2. QED
    BY <2>1, PartIs DEF AfterDigits
<1>11. QED
  BY <1>2, <1>3, <1>4, <1>5, <1>7, <1>8, <1>9, <1>10

(* One digit more.                                                         *)
LEMMA ReadOn ==
  ASSUME NEW s \in Seq(Nat), NEW n \in Nat, Len(s) = n + 1
  PROVE  /\ SubSeq(s, 1, n) \in Seq(Nat) /\ s = Append(SubSeq(s, 1, n), s[n + 1])
         /\ s[n + 1] \in Nat
         /\ strtoul(s) = 10 * strtoul(SubSeq(s, 1, n)) + s[n + 1]
<1> DEFINE t == SubSeq(s, 1, n)
<1>1. /\ t \in Seq(Nat) /\ Len(t) = n /\ \A k \in 1 .. n : t[k] = s[k]
      /\ s = Append(t, s[n + 1]) /\ s[n + 1] \in Nat
  OBVIOUS
<1> HIDE DEF t
<1>2. PICK g : Reads(s, g)
  BY ReadNumber
<1>3. PICK h : Reads(t, h)
  BY <1>1, ReadNumber
<1> DEFINE S == {k \in Nat : k <= n => g[k] = h[k]}
<1>4. 0 \in S
  BY <1>2, <1>3 DEF Reads
<1>5. ASSUME NEW k \in Nat, k \in S PROVE k + 1 \in S
  <2>1. SUFFICES ASSUME k + 1 <= n PROVE g[k + 1] = h[k + 1]
    OBVIOUS
  <2>2. k + 1 \in 1 .. n /\ k + 1 \in 1 .. n + 1 /\ (k + 1) - 1 = k /\ g[k] = h[k]
    BY <1>5, <2>1
  <2>3. g[k + 1] = 10 * g[k] + s[k + 1]
    BY <1>2, <2>2 DEF Reads
  <2>4. h[k + 1] = 10 * h[k] + t[k + 1]
    BY <1>1, <1>3, <2>2 DEF Reads
  <2>5. QED
    BY <1>1, <2>2, <2>3, <2>4
<1>6. \A k \in Nat : k \in S
  <2> HIDE DEF S
  <2>1. QED
    BY <1>4, <1>5, Induction
<1>7. g[n] = h[n] /\ h[n] = strtoul(t)
  BY <1>1, <1>3, <1>6 DEF Reads
<1>8. strtoul(s) = 10 * g[n] + s[n + 1]
  <2>1. n + 1 \in 1 .. Len(s) /\ (n + 1) - 1 = n
    OBVIOUS
  <2>2. QED
    BY <1>2, <2>1 DEF Reads
<1>9. QED
  BY <1>1, <1>7, <1>8 DEF t

(* A greater number is not written in fewer digits.                        *)
LEMMA DigitsGrow ==
  ASSUME NEW m \in Nat, NEW n \in 0 .. m
  PROVE  /\ Len(Digits[n]) \in Nat \ {0} /\ Len(Digits[m]) \in Nat \ {0}
         /\ Len(Digits[n]) <= Len(Digits[m])
<1> DEFINE L(k) == Len(Digits[k])
           S == {b \in Nat : \A k \in 0 .. b : \A j \in 0 .. k : L(j) <= L(k)}
<1>1. ASSUME NEW k \in Nat
      PROVE  L(k) \in Nat /\ L(k) = IF k < 10 THEN 1 ELSE L(k \div 10) + 1
  <2>1. CASE k < 10
    <3>1. Digits[k] = <<k>>
      BY <2>1, DigitsAre
    <3>2. QED
      BY <2>1, <3>1
  <2>2. CASE ~(k < 10)
    <3>1. k \div 10 \in Nat
      BY <2>2
    <3>2. Digits[k \div 10] \in Seq(0 .. 9) /\ Digits[k] = Append(Digits[k \div 10], k % 10)
      BY <2>2, <3>1, DigitsAre
    <3>3. L(k) = L(k \div 10) + 1 /\ L(k \div 10) \in Nat
      BY <3>2
    <3> HIDE DEF L
    <3>4. QED
      BY <2>2, <3>3
  <2>3. QED
    BY <2>1, <2>2
<1>2. ASSUME NEW k \in Nat, ~(k < 10) PROVE k \div 10 \in Nat /\ k \div 10 < k
  BY <1>2
<1> HIDE DEF L
<1>3. \A k \in Nat : L(k) \in Nat \ {0}
  BY <1>1, <1>2
<1>4. 0 \in S
  <2>1. \A k \in 0 .. 0 : \A j \in 0 .. k : j = k /\ L(k) \in Nat
    BY <1>3
  <2>2. QED
    BY <2>1
<1>5. ASSUME NEW b \in Nat, b \in S PROVE b + 1 \in S
  <2>1. SUFFICES ASSUME NEW k \in 0 .. b + 1, NEW j \in 0 .. k PROVE L(j) <= L(k)
    OBVIOUS
  <2>2. CASE k <= b
    BY <1>5, <2>2
  <2>3. CASE ~(k <= b) /\ j < 10
    <3>1. L(j) = 1 /\ L(k) \in Nat \ {0}
      BY <1>1, <1>3, <2>3
    <3>2. QED
      BY <3>1
  <2>4. CASE ~(k <= b) /\ ~(j < 10)
    <3>1. k \in Nat /\ j \in Nat /\ ~(k < 10) /\ k = b + 1
      BY <2>4
    <3>2. k \div 10 \in 0 .. b /\ j \div 10 \in 0 .. k \div 10
      BY <3>1, <2>1
    <3>3. L(j \div 10) <= L(k \div 10)
      BY <1>5, <3>2
    <3>4. L(j) = L(j \div 10) + 1 /\ L(k) = L(k \div 10) + 1
      BY <1>1, <2>4, <3>1
    <3>5. L(j \div 10) \in Nat /\ L(k \div 10) \in Nat
      BY <1>3, <3>2
    <3>6. QED
      BY <3>3, <3>4, <3>5
  <2>5. QED
    BY <2>2, <2>3, <2>4
<1>6. \A b \in Nat : b \in S
  <2> HIDE DEF S
  <2>1. QED
    BY <1>4, <1>5, Induction
<1>7. L(n) <= L(m) /\ L(n) \in Nat \ {0} /\ L(m) \in Nat \ {0}
  BY <1>3, <1>6
<1>8. QED
  BY <1>7 DEF L

(* Two widths are the same for a number that is as long as both.           *)
Fits(n, v, w) == v = w \/ (v <= Len(Digits[n]) /\ w <= Len(Digits[n]))

(* Two widths pad a number alike exactly if it fits both or they are       *)
(* equal.                                                                  *)
LEMMA PadIs ==
  ASSUME NEW n \in Nat, NEW v \in Nat, NEW w \in Nat
  PROVE  zero_padded(n, v) = zero_padded(n, w) <=> Fits(n, v, w)
<1> DEFINE d == Len(Digits[n])
<1>1. d \in Nat
  BY DigitsAre
<1>2. zero_padded(n, v) = (IF v > d THEN v - d ELSE 0)
      /\ zero_padded(n, w) = (IF w > d THEN w - d ELSE 0)
  BY DEF zero_padded
<1>3. Fits(n, v, w) <=> v = w \/ (v <= d /\ w <= d)
  BY DEF Fits
<1> HIDE DEF d
<1>4. QED
  BY <1>1, <1>2, <1>3

(* Two ranges that are padded alike at the lesser number are at the        *)
(* greater, and at all that are greater still.                             *)
LEMMA EquivIs ==
  ASSUME NEW n \in Nat, NEW v \in Nat, NEW m \in Nat, NEW w \in Nat
  PROVE  /\ width_equiv(n, v, m, w) <=> Fits(n, v, w) \/ Fits(m, v, w)
         /\ n <= m /\ Fits(n, v, w) => Fits(m, v, w)
<1>1. width_equiv(n, v, m, w) <=> Fits(n, v, w) \/ Fits(m, v, w)
  <2>1. zero_padded(n, v) = zero_padded(n, w) <=> Fits(n, v, w)
    BY PadIs
  <2>2. zero_padded(m, w) = zero_padded(m, v) <=> Fits(m, v, w)
    BY PadIs
  <2>3. QED
    BY <2>1, <2>2, Zenon DEF width_equiv
<1>2. ASSUME n <= m, Fits(n, v, w) PROVE Fits(m, v, w)
  <2>1. n \in 0 .. m
    BY <1>2
  <2>2. Len(Digits[n]) \in Nat /\ Len(Digits[m]) \in Nat /\ Len(Digits[n]) <= Len(Digits[m])
    BY <2>1, DigitsGrow
  <2>3. QED
    BY <1>2, <2>2 DEF Fits
<1>3. QED
  BY <1>1, <1>2

(* What is read is written again as it was.                                *)
LEMMA ZerosOn ==
  ASSUME NEW n \in Nat, NEW t, t = [k \in 1 .. n + 1 |-> 0]
  PROVE  [k \in 1 .. n |-> 0] \o <<0>> = t
  OBVIOUS

(* A number with one more digit, and its digits apart again.               *)
LEMMA TenTimes ==
  ASSUME NEW a \in Nat, NEW d \in 0 .. 9
  PROVE  /\ 10 * a + d \in Nat /\ (10 * a + d) \div 10 = a /\ (10 * a + d) % 10 = d
         /\ a # 0 => ~(10 * a + d < 10)
<1>1. (10 * a + d) \div 10 = a
  OBVIOUS
<1>2. (10 * a + d) % 10 = d
  OBVIOUS
<1>3. 10 * a + d \in Nat /\ (a # 0 => ~(10 * a + d < 10))
  OBVIOUS
<1>4. QED
  BY <1>1, <1>2, <1>3

(* Digits that are read and printed with their own width are the same      *)
(* digits.                                                                 *)
LEMMA PrintRead ==
  ASSUME NEW s \in Seq(0 .. 9), s # <<>>
  PROVE  Printed(strtoul(s), Len(s)) = s
<1> DEFINE S == {n \in Nat : \A u \in Seq(0 .. 9) :
                                Len(u) = n + 1 => Printed(strtoul(u), n + 1) = u}
           Z(n) == [k \in 1 .. n |-> 0]
<1>1. ASSUME NEW d \in 0 .. 9, NEW n \in Nat PROVE Printed(d, n + 1) = Z(n) \o <<d>>
  <2>1. Digits[d] = <<d>>
    <3>1. d \in Nat /\ d < 10
      OBVIOUS
    <3>2. QED
      BY <3>1, DigitsAre
  <2>2. Len(Digits[d]) = 1
    BY <2>1
  <2>3. zero_padded(d, n + 1) = n
    <3>1. n + 1 > 1 => (n + 1) - 1 = n
      OBVIOUS
    <3>2. ~(n + 1 > 1) => n = 0
      OBVIOUS
    <3>3. QED
      BY <2>2, <3>1, <3>2 DEF zero_padded
  <2>4. QED
    BY <2>1, <2>3 DEF Printed
<1>2. 0 \in S
  <2>1. SUFFICES ASSUME NEW u \in Seq(0 .. 9), Len(u) = 0 + 1 PROVE Printed(strtoul(u), 0 + 1) = u
    OBVIOUS
  <2>2. u \in Seq(Nat) /\ 0 \in Nat /\ u = <<u[1]>> /\ u[1] \in 0 .. 9
    <3>1. Len(u) = 1
      BY <2>1
    <3>2. u[1] \in 0 .. 9 /\ u = <<u[1]>>
      <4>1. 1 \in 1 .. Len(u)
        BY <3>1
      <4>2. \A k \in 1 .. Len(u) : u[k] \in 0 .. 9
        OBVIOUS
      <4>3. u = <<u[1]>>
        BY <3>1
      <4>4. QED
        BY <4>1, <4>2, <4>3
    <3>3. u \in Seq(Nat)
      OBVIOUS
    <3>4. QED
      BY <3>2, <3>3
  <2>3. strtoul(u) = 10 * strtoul(SubSeq(u, 1, 0)) + u[1]
    <3>1. strtoul(u) = 10 * strtoul(SubSeq(u, 1, 0)) + u[0 + 1]
      BY <2>1, <2>2, ReadOn
    <3>2. QED
      BY <3>1
  <2>4. strtoul(SubSeq(u, 1, 0)) = 0
    <3>1. SubSeq(u, 1, 0) \in Seq(Nat) /\ Len(SubSeq(u, 1, 0)) = 0
      BY <2>2
    <3>2. PICK h : Reads(SubSeq(u, 1, 0), h)
      BY <3>1, ReadNumber
    <3>3. QED
      BY <3>1, <3>2 DEF Reads
  <2>5. strtoul(u) = u[1]
    BY <2>2, <2>3, <2>4
  <2>6. Printed(u[1], 0 + 1) = Z(0) \o <<u[1]>>
    BY <1>1, <2>2
  <2>7. Z(0) \o <<u[1]>> = <<u[1]>>
    BY <2>2
  <2>8. QED
    BY <2>2, <2>5, <2>6, <2>7
<1>3. ASSUME NEW n \in Nat, n \in S PROVE n + 1 \in S
  <2>1. SUFFICES ASSUME NEW u \in Seq(0 .. 9), Len(u) = (n + 1) + 1
        PROVE  Printed(strtoul(u), (n + 1) + 1) = u
    OBVIOUS
  <2> DEFINE t == SubSeq(u, 1, n + 1)
             d == u[(n + 1) + 1]
             a == strtoul(t)
  <2>2. t \in Seq(0 .. 9) /\ Len(t) = n + 1 /\ d \in 0 .. 9
    BY <2>1
  <2>3. u = Append(t, d) /\ strtoul(u) = 10 * a + d /\ a \in Nat
    <3>1. u \in Seq(Nat) /\ n + 1 \in Nat
      BY <2>1
    <3>2. u = Append(t, d) /\ strtoul(u) = 10 * a + d /\ t \in Seq(Nat)
      BY <2>1, <3>1, ReadOn
    <3>3. QED
      BY <3>2, ReadNumber
  <2> HIDE DEF t, d, a
  <2>4. Printed(a, n + 1) = t
    BY <1>3, <2>2 DEF a
  <2>5. CASE a = 0
    <3>1. strtoul(u) = d
      <4>1. strtoul(u) = 10 * a + d /\ d \in 0 .. 9
        BY <2>2, <2>3
      <4>2. QED
        BY <2>5, <4>1
    <3>2. Printed(d, (n + 1) + 1) = Z(n + 1) \o <<d>>
      <4>1. n + 1 \in Nat /\ d \in 0 .. 9
        BY <2>2
      <4> HIDE DEF Z
      <4>2. QED
        BY <1>1, <4>1
    <3>3. t = Z(n) \o <<0>>
      <4>1. 0 \in 0 .. 9
        OBVIOUS
      <4>2. Printed(0, n + 1) = Z(n) \o <<0>>
        BY <1>1, <4>1
      <4>3. QED
        BY <2>4, <2>5, <4>2
    <3>4. Z(n) \o <<0>> = Z(n + 1)
      BY ZerosOn
    <3>5. t \o <<d>> = Append(t, d)
      BY <2>2
    <3>6. QED
      BY <2>3, <3>1, <3>2, <3>3, <3>4, <3>5
  <2>6. CASE a # 0
    <3> DEFINE v == 10 * a + d
               z == zero_padded(a, n + 1)
    <3>1. v \in Nat /\ ~(v < 10) /\ v \div 10 = a /\ v % 10 = d
      <4>1. d \in 0 .. 9 /\ a \in Nat
        BY <2>2, <2>3
      <4>2. QED
        BY <2>6, <4>1, TenTimes
    <3> HIDE DEF v
    <3>2. Digits[v] = Append(Digits[a], d) /\ Digits[a] \in Seq(0 .. 9)
      BY <2>3, <3>1, DigitsAre
    <3>3. Len(Digits[v]) = Len(Digits[a]) + 1 /\ Len(Digits[a]) \in Nat
      BY <2>2, <3>2
    <3>4. zero_padded(v, (n + 1) + 1) = z /\ z \in Nat
      <4> DEFINE l == Len(Digits[a])
      <4>1. l \in Nat /\ Len(Digits[v]) = l + 1
        BY <3>3
      <4> HIDE DEF l
      <4>2. zero_padded(v, (n + 1) + 1) = IF (n + 1) + 1 > l + 1 THEN ((n + 1) + 1) - (l + 1) ELSE 0
        BY <4>1 DEF zero_padded
      <4>3. z = IF n + 1 > l THEN (n + 1) - l ELSE 0
        BY DEF zero_padded, l
      <4> HIDE DEF z
      <4>4. QED
        BY <4>1, <4>2, <4>3
    <3> HIDE DEF z
    <3>5. Printed(v, (n + 1) + 1) = Z(z) \o Append(Digits[a], d) /\ t = Z(z) \o Digits[a]
      BY <2>4, <3>2, <3>4 DEF Printed, z
    <3>6. Z(z) \in Seq(0 .. 9)
      BY <3>4
    <3> HIDE DEF Z
    <3>7. \A p \in Seq(0 .. 9), q \in Seq(0 .. 9) : p \o Append(q, d) = Append(p \o q, d)
      BY <2>2
    <3>8. QED
      BY <2>3, <3>2, <3>5, <3>6, <3>7 DEF v
  <2>7. QED
    BY <2>5, <2>6
<1> HIDE DEF S
<1>4. \A n \in Nat : n \in S
  BY <1>2, <1>3, Induction
<1>5. Len(s) - 1 \in Nat /\ (Len(s) - 1) + 1 = Len(s)
  OBVIOUS
<1>6. QED
  BY <1>4, <1>5 DEF S

(* The number at the end of a name.                                        *)
LEMMA NumberIs ==
  ASSUME NEW s \in Seq(Int)
  PROVE  LET hn == hostname_create(s) IN
         /\ hn.hostname = s /\ hn.pfx \in Seq(Int) /\ hn.num \in Nat /\ hn.width \in Nat
         /\ hn.valid \in BOOLEAN
         /\ hn.valid => s = hn.pfx \o Printed(hn.num, hn.width)
<1> DEFINE r == Reverse(s)
           idx == Len(s) - Len(LeadDigits(r))
           suffix == SubSeq(s, idx + 1, Len(s))
<1>1. r \in Seq(Int) /\ Len(r) = Len(s) /\ \A k \in 1 .. Len(s) : r[k] = s[(Len(s) - k) + 1]
  BY DEF Reverse
<1> HIDE DEF r
<1>2. Len(LeadDigits(r)) \in 0 .. Len(s) /\ \A k \in 1 .. Len(LeadDigits(r)) : r[k] \in 0 .. 9
  BY <1>1, LeadIs
<1>3. idx \in 0 .. Len(s) /\ idx + 1 \in 1 .. Len(s) + 1 /\ Len(s) \in 0 .. Len(s)
      /\ 1 \in 1 .. Len(s) + 1
  BY <1>2
<1>4. \A j \in idx + 1 .. Len(s) : s[j] \in 0 .. 9
  <2>1. ASSUME NEW j \in idx + 1 .. Len(s) PROVE s[j] \in 0 .. 9
    <3> DEFINE k == (Len(s) - j) + 1
    <3>1. k \in 1 .. Len(LeadDigits(r)) /\ k \in 1 .. Len(s) /\ (Len(s) - k) + 1 = j
      BY <1>2, <1>3
    <3> HIDE DEF k
    <3>2. QED
      BY <1>1, <1>2, <3>1
  <2>2. QED
    BY <2>1
<1> HIDE DEF idx
<1>5. SubSeq(s, 1, idx) \in Seq(Int)
  BY <1>3, PartIs
<1>6. /\ suffix \in Seq(Int) /\ Len(suffix) \in Nat
      /\ \A k \in 1 .. Len(suffix) :
               suffix[k] = s[(idx + 1) + k - 1] /\ (idx + 1) + k - 1 \in idx + 1 .. Len(s)
  BY <1>3, PartIs
<1> HIDE DEF suffix
<1>7. suffix \in Seq(Nat)
  <2>1. \A k \in 1 .. Len(suffix) : suffix[k] \in Nat
    <3>1. ASSUME NEW k \in 1 .. Len(suffix) PROVE suffix[k] \in Nat
      <4>1. suffix[k] = s[(idx + 1) + k - 1] /\ s[(idx + 1) + k - 1] \in 0 .. 9
        BY <1>4, <1>6
      <4>2. QED
        BY <4>1, SMTT(30)
    <3>2. QED
      BY <3>1
  <2>2. suffix \in Seq(Int)
    BY <1>6
  <2>3. QED
    BY <2>1, <2>2, Retyped, Zenon
<1>8. strtoul(suffix) \in Nat
  BY <1>7, ReadNumber
<1>9. suffix # <<>> => s = SubSeq(s, 1, idx) \o Printed(strtoul(suffix), Len(suffix))
  <2>1. ASSUME NEW k \in 1 .. Len(suffix) PROVE suffix[k] \in 0 .. 9
    <3>1. suffix[k] = s[(idx + 1) + k - 1] /\ s[(idx + 1) + k - 1] \in 0 .. 9
      BY <1>4, <1>6
    <3>2. QED
      BY <3>1
  <2>2. suffix \in Seq(0 .. 9)
    BY <1>6, <2>1, Retyped, Zenon
  <2>3. suffix # <<>> => Printed(strtoul(suffix), Len(suffix)) = suffix
    BY <2>2, PrintRead
  <2>4. s = SubSeq(s, 1, idx) \o SubSeq(s, idx + 1, Len(s))
    BY <1>3, TwoParts
  <2>5. QED
    BY <2>3, <2>4 DEF suffix
<1> DEFINE hn == hostname_create(s)
           valid == suffix # <<>> /\ strtoul(suffix) <= MaxSuffix
<1>10. /\ hn.hostname = s /\ hn.width = Len(suffix) /\ hn.valid = valid
       /\ hn.pfx = (IF valid THEN SubSeq(s, 1, idx) ELSE s)
       /\ hn.num = (IF valid THEN strtoul(suffix) ELSE 0)
  <2>1. hn = [hostname |-> s, pfx |-> IF valid THEN SubSeq(s, 1, idx) ELSE s,
              num |-> IF valid THEN strtoul(suffix) ELSE 0, width |-> Len(suffix), valid |-> valid]
    BY Zenon DEF hostname_create, r, idx, suffix
  <2> HIDE DEF hn, valid
  <2>2. QED
    BY <2>1
<1>11. valid \in BOOLEAN
  BY DEF MaxSuffix
<1>12. valid => suffix # <<>>
  OBVIOUS
<1> HIDE DEF valid, hn
<1>13. hn.hostname = s /\ hn.pfx \in Seq(Int) /\ hn.num \in Nat /\ hn.width \in Nat
       /\ hn.valid \in BOOLEAN
  <2>1. CASE valid
    BY <1>5, <1>6, <1>8, <1>10, <1>11, <2>1
  <2>2. CASE ~valid
    BY <1>6, <1>10, <1>11, <2>2
  <2>3. QED
    BY <2>1, <2>2
<1>14. ASSUME hn.valid PROVE s = hn.pfx \o Printed(hn.num, hn.width)
  <2>1. valid
    BY <1>10, <1>14
  <2>2. QED
    BY <1>9, <1>10, <1>12, <2>1
<1>15. QED
  BY <1>13, <1>14 DEF hn

(* hostlist_push_host of a name gives a list.                              *)
LEMMA PushHost ==
  ASSUME NEW rs \in Lists, NEW s \in Seq(Int)
  PROVE  push_host(rs, s) \in Lists
<1> DEFINE hn == hostname_create(s)
<1>1. hn.pfx \in Seq(Int) /\ hn.num \in Nat /\ hn.width \in Nat
  BY NumberIs
<1> HIDE DEF hn
<1>2. hostrange_create(hn.pfx, hn.num, hn.num, hn.width) \in HostRange
  BY <1>1 DEF hostrange_create, HostRange
<1>3. create_single(s) \in HostRange
  BY DEF create_single, HostRange
<1>4. QED
  BY <1>2, <1>3, PushRange DEF push_host, hn

(* What hostlist_create keeps between two tokens.                          *)
Reading == [pfx : Seq(Int), fmt : Nat, rs : Lists]

(* A word is made into ranges that are not empty.                          *)
LEMMA RecklessToken ==
  ASSUME NEW st \in Reading, NEW tok \in Seq(Int), tok # <<>>
  PROVE  reckless_token(st, tok) \in Reading
<1> DEFINE end   == IF Dash \in Range(tok) THEN Max({k \in DOMAIN tok : tok[k] = Dash})
                       ELSE Len(tok)
           back  == Min({k \in 1 .. end : \A j \in k .. end - 1 : isdigit(tok[j])})
           pos   == IF isdigit(tok[back]) THEN back ELSE Len(tok)
           reuse == pos = 1 /\ st.pfx # <<>>
           rest  == SubSeq(tok, pos, Len(tok))
           pfx   == IF reuse THEN st.pfx ELSE SubSeq(tok, 1, pos - 1)
           fmt   == IF reuse THEN st.fmt ELSE Len(LeadDigits(rest))
           low   == strtoul(LeadDigits(rest))
           range == AfterDigits(rest) # <<>> /\ AfterDigits(rest)[1] = Dash
           upper == Tail(AfterDigits(rest))
           alpha == Span(upper, digits(upper))
           upnum == SubSeq(upper, alpha + 1, Len(upper))
           high  == strtoul(LeadDigits(upnum))
           wrong == \/ ~reuse /\ fmt = 0
                    \/ range /\ \/ alpha > 0 /\ SubSeq(upper, 1, alpha) # pfx
                                \/ LeadDigits(upnum) = <<>> \/ high - low \notin 1 .. MaxRange
                                \/ AfterDigits(upnum) # <<>>
                    \/ ~range /\ (low = 0 \/ AfterDigits(rest) # <<>>)
           h == hostrange_create(pfx, low, IF range THEN high ELSE low, fmt)
<1>0. st.pfx \in Seq(Int) /\ st.fmt \in Nat /\ st.rs \in Lists
  BY DEF Reading
<1>1. reckless_token(st, tok) = [pfx |-> pfx, fmt |-> fmt,
         rs |-> IF wrong THEN push_host(st.rs, tok) ELSE push_range(st.rs, h)]
  BY DEF reckless_token
<1>2. Len(tok) \in Nat \ {0}
  BY EmptySeq
<1>3. end \in 1 .. Len(tok)
  <2>1. CASE Dash \in Range(tok)
    <3> DEFINE T == {k \in DOMAIN tok : tok[k] = Dash}
    <3>1. T \in SUBSET (1 .. Len(tok)) /\ T # {} /\ Len(tok) \in Nat
      BY <1>2, <2>1 DEF Range
    <3> HIDE DEF T
    <3>2. Max(T) \in 1 .. Len(tok)
      BY <3>1, MaxInside
    <3>3. QED
      BY <2>1, <3>2 DEF T
  <2>2. CASE Dash \notin Range(tok)
    BY <1>2, <2>2
  <2>3. QED
    BY <2>1, <2>2
<1> HIDE DEF end
<1>4. back \in 1 .. Len(tok)
  <2> DEFINE T == {k \in 1 .. end : \A j \in k .. end - 1 : isdigit(tok[j])}
  <2>1. T \in SUBSET (1 .. Len(tok)) /\ Len(tok) \in Nat
    BY <1>2, <1>3
  <2>2. end \in T
    BY <1>3
  <2> HIDE DEF T
  <2>3. Min(T) \in 1 .. Len(tok)
    BY <2>1, <2>2, MinInside
  <2>4. QED
    BY <2>3 DEF T
<1> HIDE DEF back
<1>5. pos \in 1 .. Len(tok)
  BY <1>2, <1>4
<1> HIDE DEF pos
<1>6. rest \in Seq(Int) /\ SubSeq(tok, 1, pos - 1) \in Seq(Int)
  <2>1. pos \in 1 .. Len(tok) + 1 /\ Len(tok) \in 0 .. Len(tok) /\ 1 \in 1 .. Len(tok) + 1
        /\ pos - 1 \in 0 .. Len(tok)
    BY <1>2, <1>5
  <2>2. QED
    BY <2>1, PartIs
<1>7. pfx \in Seq(Int)
  BY <1>0, <1>6
<1> HIDE DEF rest, pfx
<1>8. LeadDigits(rest) \in Seq(Int) /\ low \in Nat /\ AfterDigits(rest) \in Seq(Int)
  BY <1>6, LeadIs
<1>9. fmt \in Nat
  BY <1>0, <1>8
<1> HIDE DEF fmt, low, reuse
<1>10. ASSUME range PROVE high \in Nat
  <2>1. upper \in Seq(Int)
    BY <1>8, <1>10
  <2> HIDE DEF upper
  <2>2. digits(upper) \in SUBSET (1 .. Len(upper))
    BY <2>1 DEF digits
  <2>3. alpha \in 0 .. Len(upper) /\ Len(upper) \in Nat
    BY <2>1, <2>2, SpanIs
  <2> HIDE DEF alpha
  <2>4. upnum \in Seq(Int)
    <3>1. alpha + 1 \in 1 .. Len(upper) + 1 /\ Len(upper) \in 0 .. Len(upper)
      BY <2>3
    <3>2. QED
      BY <2>1, <3>1, PartIs
  <2> HIDE DEF upnum
  <2>5. QED
    BY <2>4, LeadIs
<1>11. ASSUME ~wrong PROVE h \in HostRange
  <2>1. CASE range
    <3>1. high - low \in 1 .. MaxRange
      BY <1>11, <2>1
    <3>2. low <= high /\ high \in Nat
      <4>1. high \in Nat
        BY <1>10, <2>1
      <4> HIDE DEF high
      <4>2. QED
        BY <1>8, <3>1, <4>1, SMTT(30) DEF MaxRange
    <3> HIDE DEF high, range
    <3>3. QED
      BY <1>7, <1>8, <1>9, <2>1, <3>2 DEF hostrange_create, HostRange
  <2>2. CASE ~range
    <3> HIDE DEF high, range
    <3>1. QED
      BY <1>7, <1>8, <1>9, <2>2 DEF hostrange_create, HostRange
  <2>3. QED
    BY <2>1, <2>2
<1> HIDE DEF h, wrong
<1>12. (IF wrong THEN push_host(st.rs, tok) ELSE push_range(st.rs, h)) \in Lists
  <2>1. ~wrong => push_range(st.rs, h) \in Lists
    BY <1>0, <1>11, PushRange
  <2>2. push_host(st.rs, tok) \in Lists
    BY <1>0, PushHost
  <2>3. QED
    BY <2>1, <2>2
<1>13. QED
  BY <1>1, <1>7, <1>9, <1>12 DEF Reading

(* A range that was understood goes from a number to one that is no less.  *)
LEMMA ParseSingleRange ==
  ASSUME NEW s \in Seq(Int), parse_single_range(s) # NULL
  PROVE  /\ parse_single_range(s).lo \in Nat /\ parse_single_range(s).hi \in Nat
         /\ parse_single_range(s).width \in Nat
         /\ parse_single_range(s).lo <= parse_single_range(s).hi
<1> DEFINE dash == Span(s, {k \in DOMAIN s : s[k] = Dash})
           lows == SubSeq(s, 1, dash)
           ups  == SubSeq(s, dash + 2, Len(s))
           lo   == strtoul(LeadDigits(lows))
           hi   == IF ups = <<>> THEN lo ELSE strtoul(LeadDigits(ups))
           wrong == \/ LeadDigits(lows) = <<>> \/ hi - lo \notin 0 .. MaxRange - 1
                    \/ AfterDigits(IF ups = <<>> THEN lows ELSE ups) # <<>>
<1>1. parse_single_range(s) = IF wrong THEN NULL ELSE [lo |-> lo, hi |-> hi, width |-> Len(lows)]
  BY DEF parse_single_range
<1>2. {k \in DOMAIN s : s[k] = Dash} \in SUBSET (1 .. Len(s))
  OBVIOUS
<1>3. dash \in 0 .. Len(s) /\ Len(s) \in Nat
  BY <1>2, SpanIs
<1> HIDE DEF dash
<1>4. lows \in Seq(Int) /\ ups \in Seq(Int)
  <2>1. SubSeq(s, 1, dash) \in Seq(Int)
    BY <1>3, PartIs, 1 \in 1 .. Len(s) + 1
  <2>2. CASE dash = Len(s)
    BY <1>3, <2>1, <2>2
  <2>3. CASE dash # Len(s)
    <3>1. dash + 2 \in 1 .. Len(s) + 1 /\ Len(s) \in 0 .. Len(s)
      BY <1>3, <2>3
    <3>2. QED
      BY <2>1, <3>1, PartIs
  <2>4. QED
    BY <2>2, <2>3
<1> HIDE DEF lows, ups
<1>5. lo \in Nat /\ hi \in Nat /\ Len(lows) \in Nat
  <2>1. strtoul(LeadDigits(lows)) \in Nat /\ strtoul(LeadDigits(ups)) \in Nat
    BY <1>4, LeadIs
  <2>2. QED
    BY <1>4, <2>1
<1> HIDE DEF lo, hi
<1>6. ~wrong
  BY <1>1
<1>7. hi - lo \in 0 .. MaxRange - 1
  BY <1>6
<1>8. lo <= hi
  BY <1>5, <1>7, SMTT(30) DEF MaxRange
<1>9. parse_single_range(s) = [lo |-> lo, hi |-> hi, width |-> Len(lows)]
  BY <1>1, <1>6
<1>10. QED
  BY <1>5, <1>8, <1>9

(* So is a word with brackets, of which every item can be read.            *)
LEMMA BracketedToken ==
  ASSUME NEW rs \in Lists, NEW tok \in Token,
         \A k \in DOMAIN tok.items : parse_single_range(tok.items[k]) # NULL
  PROVE  bracketed_token(rs, tok) \in Lists
<1> DEFINE r(item) == parse_single_range(item)
           h(item) == hostrange_create(tok.pre, r(item).lo, r(item).hi, r(item).width)
           held(item) == IF tok.suf = <<>> THEN <<h(item)>>
                         ELSE [k \in 1 .. count(h(item)) |->
                                  create_single(Host(h(item), k - 1) \o tok.suf)]
           all == [k \in DOMAIN tok.items |-> held(tok.items[k])]
<1>1. tok.pre \in Seq(Int) /\ tok.suf \in Seq(Int) /\ tok.items \in Seq(Seq(Int))
  BY DEF Token
<1>2. ASSUME NEW k \in DOMAIN tok.items PROVE held(tok.items[k]) \in Lists
  <2> DEFINE item == tok.items[k]
             g == h(item)
  <2>1. item \in Seq(Int) /\ r(item) # NULL
    BY <1>1
  <2> HIDE DEF item
  <2>2. g \in HostRange
    <3>1. r(item).lo \in Nat /\ r(item).hi \in Nat /\ r(item).width \in Nat
          /\ r(item).lo <= r(item).hi
      BY <2>1, ParseSingleRange
    <3> HIDE DEF r
    <3>2. QED
      BY <1>1, <3>1 DEF hostrange_create, HostRange
  <2>3. count(g) \in Nat
    BY <2>2, RangeIs
  <2> HIDE DEF g
  <2>4. <<g>> \in Lists
    BY <2>2, OneSize
  <2>5. \A s \in Seq(Int), t \in Seq(Int) : s \o t \in Seq(Int)
    OBVIOUS
  <2>6. \A j \in 1 .. count(g) : create_single(Host(g, j - 1) \o tok.suf) \in HostRange
    <3>1. ASSUME NEW j \in 1 .. count(g)
          PROVE create_single(Host(g, j - 1) \o tok.suf) \in HostRange
      <4>1. j - 1 \in Nat
        BY <2>3
      <4>2. Host(g, j - 1) \o tok.suf \in Seq(Int)
        BY <1>1, <2>2, <2>5, <4>1, HostIs
      <4>3. QED
        BY <4>2 DEF create_single, HostRange
    <3>2. QED
      BY <3>1
  <2>7. [j \in 1 .. count(g) |-> create_single(Host(g, j - 1) \o tok.suf)] \in Lists
    BY <2>3, <2>6 DEF Lists
  <2>8. held(item) = IF tok.suf = <<>> THEN <<g>>
                     ELSE [j \in 1 .. count(g) |-> create_single(Host(g, j - 1) \o tok.suf)]
    BY DEF g
  <2> HIDE DEF held
  <2>9. held(item) \in Lists
    BY <2>4, <2>7, <2>8
  <2>10. QED
    BY <2>9 DEF item
<1>3. bracketed_token(rs, tok) = IF tok.items = <<>> THEN push_host(rs, tok.pre)
                                    ELSE push_ranges(rs, FlattenSeq(all))
  BY DEF bracketed_token
<1> HIDE DEF held
<1>4. all \in Seq(Seq(HostRange))
  <2>1. DOMAIN tok.items = 1 .. Len(tok.items) /\ Len(tok.items) \in Nat
    BY <1>1
  <2>2. \A k \in 1 .. Len(tok.items) : held(tok.items[k]) \in Seq(HostRange)
    BY <1>2, <2>1 DEF Lists
  <2> DEFINE n == Len(tok.items)
  <2>3. all = [k \in 1 .. n |-> held(tok.items[k])] /\ n \in Nat
    BY <2>1
  <2> HIDE DEF n, all
  <2>4. [k \in 1 .. n |-> held(tok.items[k])] \in Seq(Seq(HostRange))
    BY <2>2, <2>3 DEF n
  <2>5. QED
    BY <2>3, <2>4
<1> HIDE DEF all
<1>5. FlattenSeq(all) \in Lists
  <2>1. FlattenSeq(all) \in Seq(HostRange)
    BY <1>4, Flatten
  <2>2. QED
    BY <2>1 DEF Lists
<1>6. push_host(rs, tok.pre) \in Lists /\ push_ranges(rs, FlattenSeq(all)) \in Lists
  BY <1>1, <1>5, PushHost, PushRanges
<1>7. QED
  BY <1>3, <1>6

(* Folds that only keep a set.                                             *)
LEMMA RecklessTokens ==
  ASSUME NEW toks \in Seq(Seq(Int)), \A k \in DOMAIN toks : toks[k] # <<>>
  PROVE  FoldLeft(reckless_token, [pfx |-> <<>>, fmt |-> 0, rs |-> <<>>], toks) \in Reading
<1> DEFINE N == Len(toks)
           b == [pfx |-> <<>>, fmt |-> 0, rs |-> <<>>]
           step == [p \in (1 .. N) \X Reading |-> reckless_token(p[2], toks[p[1]])]
           Is(f) == f = [s \in SUBSET (1 .. N) |-> IF s = {} THEN b
                                            ELSE reckless_token(f[s \ {Max(s)}], toks[Max(s)])]
           iter == CHOOSE f : Is(f)
<1>1. N \in Nat /\ DOMAIN toks = 1 .. N /\ \A n \in 1 .. N : toks[n] \in Seq(Int) /\ toks[n] # <<>>
  OBVIOUS
<1>2. step \in [(1 .. N) \X Reading -> Reading]
  BY <1>1, RecklessToken
<1>3. FoldLeft(reckless_token, b, toks) = iter[1 .. N]
  BY <1>1 DEF FoldLeft, MapThenFoldSet
<1>4. \A s \in SUBSET (1 .. N) : s # {} => Max(s) \in 1 .. N
  BY <1>1, MaxInside
<1>5. ASSUME NEW n \in 1 .. N, NEW v \in Reading PROVE step[<<n, v>>] = reckless_token(v, toks[n])
  OBVIOUS
<1>6. b \in Reading
  BY EmptySize DEF Reading
<1> HIDE DEF step, N, b
<1>7. PICK f \in [SUBSET (1 .. N) -> Reading] : FoldedLeft(f, N, b, step)
  BY <1>1, <1>2, <1>6, LeftFold, Zenon
<1>8. Is(f)
  BY <1>4, <1>5, <1>7 DEF FoldedLeft
<1>9. Is(iter)
  BY <1>8
<1> HIDE DEF iter
<1>10. ClimbsTo(N, Reading, b, step, iter[1 .. N])
  <2>1. FoldsLeft(iter, N, Reading, b, step)
    BY <1>4, <1>5, <1>9 DEF FoldsLeft
  <2>2. QED
    BY <1>1, <1>2, <1>6, <2>1, LeftClimb, Zenon
<1>11. iter[1 .. N] \in Reading
  BY <1>1, <1>10 DEF ClimbsTo
<1>12. QED
  BY <1>3, <1>11 DEF b

(* The tokens of a string in brackets make a list.                         *)
LEMMA BracketedTokens ==
  ASSUME NEW str \in Seq(Token),
         \A k \in DOMAIN str : \A j \in DOMAIN str[k].items :
               parse_single_range(str[k].items[j]) # NULL
  PROVE  FoldLeft(bracketed_token, <<>>, str) \in Lists
<1> DEFINE N == Len(str)
           step == [p \in (1 .. N) \X Lists |-> bracketed_token(p[2], str[p[1]])]
           Is(f) == f = [s \in SUBSET (1 .. N) |-> IF s = {} THEN <<>>
                                            ELSE bracketed_token(f[s \ {Max(s)}], str[Max(s)])]
           iter == CHOOSE f : Is(f)
<1>1. N \in Nat /\ DOMAIN str = 1 .. N /\ \A n \in 1 .. N : str[n] \in Token
  OBVIOUS
<1>2. step \in [(1 .. N) \X Lists -> Lists]
  <2>1. \A n \in 1 .. N, v \in Lists : bracketed_token(v, str[n]) \in Lists
    BY <1>1, BracketedToken
  <2>2. QED
    BY <2>1
<1>3. FoldLeft(bracketed_token, <<>>, str) = iter[1 .. N]
  BY <1>1 DEF FoldLeft, MapThenFoldSet
<1>4. \A s \in SUBSET (1 .. N) : s # {} => Max(s) \in 1 .. N
  BY <1>1, MaxInside
<1>5. ASSUME NEW n \in 1 .. N, NEW v \in Lists PROVE step[<<n, v>>] = bracketed_token(v, str[n])
  OBVIOUS
<1>6. <<>> \in Lists
  BY EmptySize
<1> HIDE DEF step, N
<1>7. PICK f \in [SUBSET (1 .. N) -> Lists] : FoldedLeft(f, N, <<>>, step)
  BY <1>1, <1>2, <1>6, LeftFold, Zenon
<1>8. Is(f)
  BY <1>4, <1>5, <1>7 DEF FoldedLeft
<1>9. Is(iter)
  BY <1>8
<1> HIDE DEF iter
<1>10. ClimbsTo(N, Lists, <<>>, step, iter[1 .. N])
  <2>1. FoldsLeft(iter, N, Lists, <<>>, step)
    BY <1>4, <1>5, <1>9 DEF FoldsLeft
  <2>2. QED
    BY <1>1, <1>2, <1>6, <2>1, LeftClimb, Zenon
<1>11. iter[1 .. N] \in Lists
  BY <1>1, <1>10 DEF ClimbsTo
<1>12. QED
  BY <1>3, <1>11

(* Every list a call takes is one of ranges that are well formed.          *)
LEMMA MadeAre == Made \subseteq Lists
<1>1. ASSUME NEW str \in Strings, hostlist_create(str) # NULL PROVE hostlist_create(str) \in Lists
  <2>1. str \in Seq(Token) /\ DOMAIN str = 1 .. Len(str) /\ Len(str) \in Nat
        /\ \A k \in 1 .. Len(str) : str[k] \in Token
    BY HostlistAssumption
  <2>2. CASE \A k \in DOMAIN str : str[k].items = <<>>
    <3> DEFINE toks == [k \in DOMAIN str |-> str[k].pre]
    <3>1. \A k \in DOMAIN str : str[k].pre \in Seq(Int) /\ str[k].pre # <<>>
      BY <2>1, <2>2 DEF Token
    <3>2. toks \in Seq(Seq(Int)) /\ \A k \in DOMAIN toks : toks[k] # <<>>
      BY <2>1, <3>1
    <3>3. hostlist_create(str)
             = FoldLeft(reckless_token, [pfx |-> <<>>, fmt |-> 0, rs |-> <<>>], toks).rs
      BY <2>2 DEF hostlist_create
    <3> HIDE DEF toks
    <3>4. FoldLeft(reckless_token, [pfx |-> <<>>, fmt |-> 0, rs |-> <<>>], toks) \in Reading
      BY <3>2, RecklessTokens
    <3>5. QED
      BY <3>3, <3>4 DEF Reading
  <2>3. CASE ~ \A k \in DOMAIN str : str[k].items = <<>>
    <3>1. hostlist_create(str) =
             IF \E k \in DOMAIN str : NULL \in {parse_single_range(s) : s \in Range(str[k].items)}
             THEN NULL ELSE FoldLeft(bracketed_token, <<>>, str)
      BY <2>3 DEF hostlist_create
    <3>2. /\ ~ \E k \in DOMAIN str : NULL \in {parse_single_range(s) : s \in Range(str[k].items)}
          /\ hostlist_create(str) = FoldLeft(bracketed_token, <<>>, str)
      BY <1>1, <3>1
    <3>3. \A k \in DOMAIN str : \A j \in DOMAIN str[k].items :
                parse_single_range(str[k].items[j]) # NULL
      BY <3>2 DEF Range
    <3>4. QED
      BY <2>1, <3>2, <3>3, BracketedTokens
  <2>4. QED
    BY <2>2, <2>3
<1>2. QED
  BY <1>1 DEF Made

(* A list is empty exactly if it has no range.                             *)
LEMMA NotEmpty ==
  ASSUME NEW rs \in Lists
  PROVE  Len(rs) \in Nat /\ (Len(rs) = 0 <=> rs = <<>>)
  BY DEF Lists

(* The n-th name of a list is in the range RangeOf names.                  *)
LEMMA RangeOfIs ==
  ASSUME NEW rs \in Lists, NEW n \in Nat, n < Size(rs)
  PROVE  /\ RangeOf(rs, n) \in 1 .. Len(rs)
         /\ n < CountBefore(rs, RangeOf(rs, n) + 1) /\ n >= CountBefore(rs, RangeOf(rs, n))
<1> DEFINE T == {k \in 1 .. Len(rs) : n < CountBefore(rs, k + 1)}
<1>1. Len(rs) \in Nat /\ DOMAIN rs = 1 .. Len(rs)
  BY ListIs
<1>2. Len(rs) # 0
  BY <1>1, Counts DEF Size
<1>3. Len(rs) \in T
  BY <1>1, <1>2 DEF Size
<1>4. T \in SUBSET (1 .. Len(rs)) /\ T # {} /\ 1 \in Int /\ Len(rs) \in Int
  BY <1>1, <1>3
<1>5. Min(T) \in T /\ \A y \in T : Min(T) <= y
  <2> HIDE DEF T
  <2>1. QED
    BY <1>4, MinIs, Zenon
<1> DEFINE m == Min(T)
<1> HIDE DEF m
<1>6. m \in 1 .. Len(rs) /\ n < CountBefore(rs, m + 1) /\ \A y \in T : m <= y
  BY <1>5 DEF m
<1>7. n >= CountBefore(rs, m)
  <2>1. CASE m = 1
    BY <2>1, Counts
  <2>2. CASE m # 1
    <3>1. m - 1 \in 1 .. Len(rs) /\ (m - 1) + 1 = m /\ m \in 1 .. Len(rs) + 1
      BY <1>1, <1>6, <2>2
    <3>2. m - 1 \notin T
      BY <1>6, <3>1
    <3>3. ~(n < CountBefore(rs, m))
      BY <3>1, <3>2
    <3>4. CountBefore(rs, m) \in Nat
      BY <3>1, Counts
    <3>5. QED
      BY <3>3, <3>4
  <2>3. QED
    BY <2>1, <2>2
<1>8. m \in DOMAIN rs /\ n < CountBefore(rs, m + 1) /\ n >= CountBefore(rs, m)
  BY <1>1, <1>6, <1>7
<1> HIDE DEF T
<1>9. QED
  BY <1>1, <1>8 DEF RangeOf

(* Without a range a list has its names less.                              *)
LEMMA RemovedSize ==
  ASSUME NEW rs \in Lists, NEW k \in 1 .. Len(rs)
  PROVE  /\ RemoveAt(rs, k) \in Lists /\ Len(RemoveAt(rs, k)) = Len(rs) - 1
         /\ Size(RemoveAt(rs, k)) = Size(rs) - count(rs[k])
<1> DEFINE n == Len(rs)
           a == SubSeq(rs, 1, k - 1)
           b == SubSeq(rs, k + 1, n)
<1>1. /\ n \in Nat /\ k + 1 \in 1 .. n + 1 /\ n \in (k + 1) - 1 .. n /\ 1 \in 1 .. n + 1
         /\ k - 1 \in 1 - 1 .. n
      /\ (k - 1) + 1 = k /\ k \in 1 .. n + 1 /\ n + 1 \in 1 .. n + 1
  BY ListIs
<1>2. /\ a \in Lists /\ Len(a) = (k - 1) - 1 + 1
         /\ Size(a) = CountBefore(rs, (k - 1) + 1) - CountBefore(rs, 1)
      /\ b \in Lists /\ Len(b) = n - (k + 1) + 1
         /\ Size(b) = CountBefore(rs, n + 1) - CountBefore(rs, k + 1)
  BY <1>1, PartSize
<1>3. RemoveAt(rs, k) = a \o b
  BY DEF RemoveAt
<1> HIDE DEF a, b
<1>4. a \o b \in Lists /\ Len(a \o b) = Len(a) + Len(b) /\ Size(a \o b) = Size(a) + Size(b)
  BY <1>2, JoinedSize
<1>5. /\ CountBefore(rs, 1) = 0 /\ CountBefore(rs, k) \in Nat /\ CountBefore(rs, n + 1) \in Nat
      /\ CountBefore(rs, k + 1) = CountBefore(rs, k) + count(rs[k]) /\ count(rs[k]) \in Nat
      /\ Size(rs) = CountBefore(rs, n + 1)
  BY <1>1, Counts DEF Size
<1> HIDE DEF n
<1>6. QED
  BY <1>1, <1>2, <1>3, <1>4, <1>5 DEF n

(* With a range put in, a list has its names more.                         *)
LEMMA InsertedSize ==
  ASSUME NEW rs \in Lists, NEW k \in 1 .. Len(rs) + 1, NEW h \in HostRange
  PROVE  /\ InsertAt(rs, k, h) \in Lists /\ Len(InsertAt(rs, k, h)) = Len(rs) + 1
         /\ Size(InsertAt(rs, k, h)) = Size(rs) + count(h)
<1> DEFINE n == Len(rs)
           a == SubSeq(rs, 1, k - 1)
           b == SubSeq(rs, k, n)
<1>1. /\ n \in Nat /\ k \in 1 .. n + 1 /\ n \in k - 1 .. n /\ 1 \in 1 .. n + 1
         /\ k - 1 \in 1 - 1 .. n
      /\ (k - 1) + 1 = k /\ n + 1 \in 1 .. n + 1
  BY ListIs
<1>2. /\ a \in Lists /\ Len(a) = (k - 1) - 1 + 1
         /\ Size(a) = CountBefore(rs, (k - 1) + 1) - CountBefore(rs, 1)
      /\ b \in Lists /\ Len(b) = n - k + 1 /\ Size(b) = CountBefore(rs, n + 1) - CountBefore(rs, k)
      /\ <<h>> \in Lists /\ Len(<<h>>) = 1 /\ Size(<<h>>) = count(h) /\ count(h) \in Nat
  <2>1. count(h) \in Nat
    BY RangeIs
  <2>2. QED
    BY <1>1, <2>1, PartSize, OneSize
<1>3. InsertAt(rs, k, h) = (a \o <<h>>) \o b
  BY DEF InsertAt
<1> HIDE DEF a, b
<1>4. a \o <<h>> \in Lists /\ Len(a \o <<h>>) = Len(a) + 1 /\ Size(a \o <<h>>) = Size(a) + count(h)
  BY <1>2, JoinedSize
<1>5. /\ (a \o <<h>>) \o b \in Lists /\ Len((a \o <<h>>) \o b) = Len(a \o <<h>>) + Len(b)
      /\ Size((a \o <<h>>) \o b) = Size(a \o <<h>>) + Size(b)
  BY <1>2, <1>4, JoinedSize
<1>6. /\ CountBefore(rs, 1) = 0 /\ CountBefore(rs, k) \in Nat /\ CountBefore(rs, n + 1) \in Nat
      /\ Size(rs) = CountBefore(rs, n + 1)
  BY <1>1, Counts DEF Size
<1> HIDE DEF n
<1>7. QED
  BY <1>1, <1>2, <1>3, <1>4, <1>5, <1>6 DEF n

(* A struct hostlist, and iterators that are in place: the range of each   *)
(* is there unless it is behind the last.                                  *)
Iterator == [idx : Nat, depth : Int, fresh : BOOLEAN]

(* The record of a list with its iterators, whatever its count says.       *)
HostLists == [hr : Lists, nhosts : Int, ilist : [Iter -> Iterator]]

(* An iterator stands on a range of the list or, fresh no more, after the  *)
(* last.                                                                   *)
InPlace(it, rs) ==
    /\ rs # <<>> /\ it.idx >= 1 /\ it.depth >= -1
    /\ it.fresh <=> it.idx <= Len(rs)
    /\ it.idx > Len(rs) => it.depth >= 0

(* An iterator put at another range.                                       *)
LEMMA Moved ==
  ASSUME NEW it \in Iterator, NEW n \in Nat, NEW rs
  PROVE  /\ At(rs, it, n) \in Iterator
         /\ At(rs, it, n).idx = n /\ At(rs, it, n).depth = it.depth
         /\ At(rs, it, n).fresh <=> n <= Len(rs)
<1> DEFINE p == n <= Len(rs)
<1>1. p \in BOOLEAN
  BY DEF p
<1>2. At(rs, it, n) = [it EXCEPT !.idx = n, !.fresh = p]
  BY DEF At
<1> HIDE DEF p
<1>3. it.depth \in Int /\ it \in [idx : Nat, depth : Int, fresh : BOOLEAN]
  <2>1. it \in [idx : Nat, depth : Int, fresh : BOOLEAN]
    BY DEF Iterator
  <2>2. QED
    BY <2>1
<1>4. [it EXCEPT !.idx = n, !.fresh = p] = [idx |-> n, depth |-> it.depth, fresh |-> p]
  <2> DEFINE y == [it EXCEPT !.idx = n, !.fresh = p]
             z == [it EXCEPT !.idx = n]
  <2>1. z = [idx |-> n, depth |-> it.depth, fresh |-> it.fresh]
    BY <1>3
  <2>2. y = [z EXCEPT !.fresh = p]
    OBVIOUS
  <2> HIDE DEF y, z
  <2>3. y = [idx |-> n, depth |-> it.depth, fresh |-> p]
    BY <2>1, <2>2, Zenon
  <2>4. QED
    BY <2>3 DEF y
<1> DEFINE x == At(rs, it, n)
<1>5. x = [idx |-> n, depth |-> it.depth, fresh |-> p]
  BY <1>2, <1>4
<1> HIDE DEF x
<1>6. x \in Iterator /\ x.idx = n /\ x.depth = it.depth /\ x.fresh = p
  BY <1>1, <1>3, <1>5 DEF Iterator
<1>7. x.fresh <=> n <= Len(rs)
  BY <1>6 DEF p
<1>8. QED
  BY <1>6, <1>7 DEF x

(* An iterator put at the beginning.                                       *)
LEMMA Begun ==
  ASSUME NEW rs
  PROVE  /\ Begin(rs) \in Iterator /\ Begin(rs).idx = 1 /\ Begin(rs).depth = -1
         /\ Begin(rs).fresh <=> rs # <<>>
<1> DEFINE p == rs # <<>>
<1>1. p \in BOOLEAN /\ Begin(rs) = [idx |-> 1, depth |-> -1, fresh |-> p]
  BY DEF Begin, p
<1> HIDE DEF p
<1>2. Begin(rs) \in Iterator /\ Begin(rs).idx = 1 /\ Begin(rs).depth = -1 /\ Begin(rs).fresh = p
  BY <1>1 DEF Iterator
<1>3. QED
  BY <1>2 DEF p

(* hostlist_delete_range takes a range away and moves the iterators behind *)
(* it up.                                                                  *)
LEMMA DeleteRange ==
  ASSUME NEW l \in HostLists, NEW k \in 1 .. Len(l.hr)
  PROVE  /\ delete_range(l, k) \in HostLists
         /\ delete_range(l, k).hr = RemoveAt(l.hr, k) /\ delete_range(l, k).nhosts = l.nhosts
         /\ Len(delete_range(l, k).hr) = Len(l.hr) - 1
         /\ Size(delete_range(l, k).hr) = Size(l.hr) - count(l.hr[k])
         /\ \A i \in Iter :
                  InPlace(l.ilist[i], l.hr) /\ l.ilist[i].idx >= k /\ delete_range(l, k).hr # <<>>
                               => InPlace(delete_range(l, k).ilist[i], delete_range(l, k).hr)
<1> DEFINE rs == RemoveAt(l.hr, k)
           new(it) == IF it.idx < k THEN it
                       ELSE IF it.idx = 1 THEN Begin(rs) ELSE At(rs, it, it.idx - 1)
           d == delete_range(l, k)
<1>1. l.hr \in Lists /\ l.nhosts \in Int /\ l.ilist \in [Iter -> Iterator]
  BY DEF HostLists
<1>2. rs \in Lists /\ Len(rs) = Len(l.hr) - 1 /\ Size(rs) = Size(l.hr) - count(l.hr[k])
      /\ Len(l.hr) \in Nat
  BY <1>1, RemovedSize, ListIs
<1>3. d = [l EXCEPT !.hr = rs, !.ilist = [i \in Iter |-> new(l.ilist[i])]]
  BY DEF delete_range
<1> HIDE DEF rs
<1>5. ASSUME NEW it \in Iterator PROVE new(it) \in Iterator
  <2>1. CASE it.idx < k
    BY <2>1
  <2>2. CASE ~(it.idx < k) /\ it.idx = 1
    BY <2>2, Begun
  <2>3. CASE ~(it.idx < k) /\ it.idx # 1
    <3>1. it.idx - 1 \in Nat
      <4>1. it.idx \in Nat /\ k \in Nat /\ k >= 1
        BY DEF Iterator
      <4>2. QED
        BY <2>3, <4>1
    <3>2. QED
      BY <2>3, <3>1, Moved
  <2>4. QED
    BY <2>1, <2>2, <2>3
<1>6. ASSUME NEW it \in Iterator, InPlace(it, l.hr), it.idx >= k, rs # <<>>
      PROVE InPlace(new(it), rs)
  <2>1. it.idx \in Nat /\ it.depth \in Int /\ ~(it.idx < k) /\ Len(rs) \in Nat /\ Len(rs) # 0
    <3>1. it.idx \in Nat /\ it.depth \in Int
      BY DEF Iterator
    <3>2. Len(rs) \in Nat /\ Len(rs) # 0
      BY <1>2, <1>6, NotEmpty
    <3>3. QED
      BY <1>6, <3>1, <3>2
  <2>2. CASE it.idx = 1
    <3>1. new(it) = Begin(rs)
      BY <2>1, <2>2
    <3> HIDE DEF new
    <3>2. QED
      BY <1>6, <2>1, <3>1, Begun DEF InPlace
  <2>3. CASE it.idx # 1
    <3>1. new(it) = At(rs, it, it.idx - 1) /\ it.idx - 1 \in Nat
      BY <2>1, <2>3
    <3> DEFINE x == At(rs, it, it.idx - 1)
    <3>2. x.idx = it.idx - 1 /\ x.depth = it.depth /\ (x.fresh <=> it.idx - 1 <= Len(rs))
      BY <3>1, Moved, ZenonT(30)
    <3> HIDE DEF new, x
    <3>3. InPlace(x, rs)
      BY <1>2, <1>6, <2>1, <2>3, <3>2 DEF InPlace
    <3>4. QED
      BY <3>1, <3>3 DEF x
  <2>4. QED
    BY <2>2, <2>3
<1> HIDE DEF new
<1>7. d = [hr |-> rs, nhosts |-> l.nhosts, ilist |-> [i \in Iter |-> new(l.ilist[i])]]
  BY <1>3 DEF HostLists
<1> HIDE DEF d
<1>8. d \in HostLists
  BY <1>1, <1>2, <1>5, <1>7 DEF HostLists
<1>9. \A i \in Iter : InPlace(l.ilist[i], l.hr) /\ l.ilist[i].idx >= k /\ d.hr # <<>>
            => InPlace(d.ilist[i], d.hr)
  BY <1>1, <1>6, <1>7
<1>10. QED
  BY <1>2, <1>7, <1>8, <1>9 DEF d, rs

(* A range with other ends.                                                *)
Bounded(h, lo, hi) == [pfx |-> h.pfx, lo |-> lo, hi |-> hi, width |-> h.width, single |-> h.single]

(* A range with one end changed, as Bounded has it.                        *)
LEMMA OtherEnd ==
  ASSUME NEW h \in HostRange, NEW x
  PROVE  /\ [h EXCEPT !.lo = x] = Bounded(h, x, h.hi)
         /\ [h EXCEPT !.hi = x] = Bounded(h, h.lo, x)
<1>1. h = [pfx |-> h.pfx, lo |-> h.lo, hi |-> h.hi, width |-> h.width, single |-> h.single]
  BY RangeIs
<1>2. [h EXCEPT !.lo = x] = Bounded(h, x, h.hi)
  BY <1>1 DEF Bounded
<1>3. [h EXCEPT !.hi = x] = Bounded(h, h.lo, x)
  BY <1>1 DEF Bounded
<1>4. QED
  BY <1>2, <1>3

(* A range with other ends is well formed if they are in order.            *)
LEMMA BoundedIs ==
  ASSUME NEW h \in HostRange, ~h.single, NEW lo \in Nat, NEW hi \in Nat, lo <= hi
  PROVE  /\ Bounded(h, lo, hi) \in HostRange /\ count(Bounded(h, lo, hi)) = hi - lo + 1
         /\ ~empty(Bounded(h, lo, hi))
<1> DEFINE g == Bounded(h, lo, hi)
<1>1. h.pfx \in Seq(Int) /\ h.width \in Nat /\ h.single \in BOOLEAN
  BY RangeIs
<1>2. g = [pfx |-> h.pfx, lo |-> lo, hi |-> hi, width |-> h.width, single |-> h.single]
  BY DEF Bounded
<1> HIDE DEF g
<1>3. g \in HostRange
  BY <1>1, <1>2 DEF HostRange
<1>4. count(g) = hi - lo + 1
  BY <1>2 DEF count
<1>5. ~empty(g)
  BY <1>2 DEF empty
<1>6. QED
  BY <1>3, <1>4, <1>5 DEF g

(* A list with one range replaced.                                         *)
LEMMA WithRange ==
  ASSUME NEW l \in HostLists, NEW k \in 1 .. Len(l.hr), NEW g \in HostRange
  PROVE  LET m == [l EXCEPT !.hr[k] = g] IN
         /\ m \in HostLists /\ m.hr = [l.hr EXCEPT ![k] = g] /\ m.nhosts = l.nhosts
            /\ m.ilist = l.ilist
         /\ m.hr # <<>> /\ Len(m.hr) = Len(l.hr)
            /\ Size(m.hr) = Size(l.hr) + count(g) - count(l.hr[k])
<1> DEFINE m == [l EXCEPT !.hr[k] = g]
           rs == [l.hr EXCEPT ![k] = g]
<1>1. l.hr \in Lists /\ l.nhosts \in Int /\ l.ilist \in [Iter -> Iterator]
  BY DEF HostLists
<1>2. rs \in Lists /\ rs # <<>> /\ Len(rs) = Len(l.hr)
      /\ Size(rs) = Size(l.hr) + count(g) - count(l.hr[k])
  <2> DEFINE hr == l.hr
  <2>1. hr \in Lists /\ k \in 1 .. Len(hr)
    BY <1>1
  <2> HIDE DEF hr
  <2>2. /\ [hr EXCEPT ![k] = g] \in Lists /\ [hr EXCEPT ![k] = g] # <<>>
           /\ Len([hr EXCEPT ![k] = g]) = Len(hr)
        /\ Size([hr EXCEPT ![k] = g]) = Size(hr) + count(g) - count(hr[k])
    BY <2>1, ReplacedSize
  <2>3. QED
    BY <2>2 DEF hr
<1>3. l \in [hr : Lists, nhosts : Int, ilist : [Iter -> Iterator]]
  BY DEF HostLists
<1>4. m = [hr |-> rs, nhosts |-> l.nhosts, ilist |-> l.ilist]
  BY <1>3, SMTT(30)
<1> HIDE DEF rs, m
<1>5. m \in HostLists
  BY <1>1, <1>2, <1>4 DEF HostLists
<1>6. QED
  BY <1>2, <1>4, <1>5 DEF m, rs

(* hostlist_insert_range puts a range in.                                  *)
LEMMA InsertRange ==
  ASSUME NEW l \in HostLists, NEW k \in 1 .. Len(l.hr) + 1, NEW h \in HostRange
  PROVE  LET d == insert_range(l, h, k) IN
         /\ d \in HostLists /\ d.nhosts = l.nhosts
         /\ Len(d.hr) = Len(l.hr) + 1 /\ Size(d.hr) = Size(l.hr) + count(h)
<1> DEFINE rs == InsertAt(l.hr, k, h)
           new(it) == IF it.idx >= k THEN At(rs, it, it.idx + 1) ELSE it
           d == insert_range(l, h, k)
<1>1. l.hr \in Lists /\ l.nhosts \in Int /\ l.ilist \in [Iter -> Iterator]
  BY DEF HostLists
<1>2. rs \in Lists /\ Len(rs) = Len(l.hr) + 1 /\ Size(rs) = Size(l.hr) + count(h)
  BY <1>1, InsertedSize
<1>3. d = [l EXCEPT !.hr = rs, !.ilist = [i \in Iter |-> new(l.ilist[i])]]
  BY DEF insert_range
<1> HIDE DEF rs
<1>4. ASSUME NEW it \in Iterator PROVE new(it) \in Iterator
  <2>1. it.idx + 1 \in Nat
    BY DEF Iterator
  <2>2. At(rs, it, it.idx + 1) \in Iterator
    BY <2>1, Moved
  <2>3. QED
    BY <2>2
<1> HIDE DEF new
<1>5. d = [hr |-> rs, nhosts |-> l.nhosts, ilist |-> [i \in Iter |-> new(l.ilist[i])]]
  BY <1>3 DEF HostLists
<1> HIDE DEF d
<1>6. d \in HostLists
  BY <1>1, <1>2, <1>4, <1>5 DEF HostLists
<1>7. QED
  BY <1>2, <1>5, <1>6 DEF d

(* One name goes, wherever it is in a range.                               *)
LEMMA DeleteHost ==
  ASSUME NEW l \in HostLists, NEW k \in 1 .. Len(l.hr), NEW num \in l.hr[k].lo .. l.hr[k].hi
  PROVE  LET d == delete_host(l, k, num) IN
         /\ d \in HostLists /\ d.nhosts = l.nhosts /\ Size(d.hr) = Size(l.hr) - 1
         /\ Len(d.hr) \in Len(l.hr) - 1 .. Len(l.hr) + 1
         /\ Len(d.hr) < Len(l.hr) => d = delete_range(l, k)
         /\ Len(d.hr) = Len(l.hr) => d.ilist = l.ilist
<1> DEFINE h == l.hr[k]
           rest == IF num = h.lo THEN [h EXCEPT !.lo = @ + 1]
                   ELSE IF num = h.hi THEN [h EXCEPT !.hi = @ - 1] ELSE [h EXCEPT !.hi = num - 1]
           d == delete_host(l, k, num)
<1>0. l.hr \in Lists
  BY DEF HostLists
<1>1. h \in HostRange /\ Len(l.hr) \in Nat /\ Size(l.hr) \in Nat
  BY <1>0, ListIs, SizeIs
<1>2. d = IF h.single \/ empty(rest) THEN delete_range(l, k)
          ELSE IF num \in {h.lo, h.hi} THEN [l EXCEPT !.hr[k] = rest]
          ELSE insert_range([l EXCEPT !.hr[k] = rest], [h EXCEPT !.lo = num + 1], k + 1)
  BY DEF delete_host
<1> HIDE DEF h, d
<1>3. /\ h.lo \in Nat /\ h.hi \in Nat /\ h.lo <= h.hi /\ h.single \in BOOLEAN
      /\ h.single => h.lo = 0 /\ h.hi = 0
      /\ count(h) = h.hi - h.lo + 1
  BY <1>1, RangeIs
<1>4. num \in h.lo .. h.hi /\ num \in Nat
  BY <1>3 DEF h
<1>5. CASE h.lo = h.hi
  <2>1. num = h.lo /\ count(h) = 1
    BY <1>3, <1>4, <1>5
  <2>2. empty(rest)
    <3>1. rest = [h EXCEPT !.lo = h.lo + 1]
      BY <2>1
    <3>2. rest = Bounded(h, h.lo + 1, h.hi)
      BY <1>1, <3>1, OtherEnd
    <3> HIDE DEF rest
    <3>3. QED
      BY <1>3, <1>5, <3>2 DEF empty, Bounded
  <2>3. d = delete_range(l, k)
    BY <1>2, <2>2
  <2>4. /\ d \in HostLists /\ d.nhosts = l.nhosts /\ Len(d.hr) = Len(l.hr) - 1
        /\ Size(d.hr) = Size(l.hr) - count(h)
    BY <2>3, DeleteRange DEF h
  <2>5. QED
    BY <1>1, <2>1, <2>3, <2>4 DEF d
<1>6. CASE h.lo # h.hi
  <2>1. ~h.single /\ h.lo < h.hi
    BY <1>3, <1>6
  <2>2. CASE num = h.lo
    <3> DEFINE g == Bounded(h, h.lo + 1, h.hi)
    <3>1. h.lo + 1 \in Nat /\ h.lo + 1 <= h.hi
      BY <1>3, <2>1
    <3>2. g \in HostRange /\ count(g) = h.hi - (h.lo + 1) + 1 /\ ~empty(g)
      BY <1>1, <1>3, <2>1, <3>1, BoundedIs
    <3>3. rest = g
      <4>1. rest = [h EXCEPT !.lo = h.lo + 1]
        BY <2>2
      <4>2. QED
        BY <1>1, <4>1, OtherEnd
    <3> HIDE DEF g, rest
    <3>4. d = [l EXCEPT !.hr[k] = g]
      BY <1>2, <2>1, <2>2, <3>2, <3>3
    <3>5. /\ d \in HostLists /\ d.nhosts = l.nhosts /\ d.ilist = l.ilist
          /\ Len(d.hr) = Len(l.hr) /\ Size(d.hr) = Size(l.hr) + count(g) - count(h)
      BY <3>2, <3>4, WithRange DEF h
    <3>6. Size(d.hr) = Size(l.hr) - 1
      BY <1>1, <1>3, <3>2, <3>5
    <3>7. QED
      BY <1>1, <3>5, <3>6 DEF d
  <2>3. CASE num # h.lo /\ num = h.hi
    <3> DEFINE g == Bounded(h, h.lo, h.hi - 1)
    <3>1. h.hi - 1 \in Nat /\ h.lo <= h.hi - 1
      BY <1>3, <2>1
    <3>2. g \in HostRange /\ count(g) = (h.hi - 1) - h.lo + 1 /\ ~empty(g)
      BY <1>1, <1>3, <2>1, <3>1, BoundedIs
    <3>3. rest = g
      <4>1. rest = [h EXCEPT !.hi = h.hi - 1]
        BY <2>3
      <4>2. QED
        BY <1>1, <4>1, OtherEnd
    <3> HIDE DEF g, rest
    <3>4. d = [l EXCEPT !.hr[k] = g]
      BY <1>2, <2>1, <2>3, <3>2, <3>3
    <3>5. /\ d \in HostLists /\ d.nhosts = l.nhosts /\ d.ilist = l.ilist
          /\ Len(d.hr) = Len(l.hr) /\ Size(d.hr) = Size(l.hr) + count(g) - count(h)
      BY <3>2, <3>4, WithRange DEF h
    <3>6. Size(d.hr) = Size(l.hr) - 1
      BY <1>1, <1>3, <3>2, <3>5
    <3>7. QED
      BY <1>1, <3>5, <3>6 DEF d
  <2>4. CASE num # h.lo /\ num # h.hi
    <3> DEFINE g == Bounded(h, h.lo, num - 1)
               e == Bounded(h, num + 1, h.hi)
               m == [l EXCEPT !.hr[k] = g]
    <3>1. num - 1 \in Nat /\ h.lo <= num - 1 /\ num + 1 \in Nat /\ num + 1 <= h.hi
      BY <1>3, <1>4, <2>4
    <3>2. g \in HostRange /\ count(g) = (num - 1) - h.lo + 1 /\ ~empty(g)
      BY <1>1, <1>3, <2>1, <3>1, BoundedIs
    <3>3. e \in HostRange /\ count(e) = h.hi - (num + 1) + 1
      BY <1>1, <1>3, <2>1, <3>1, BoundedIs
    <3>4. rest = g
      <4>1. rest = [h EXCEPT !.hi = num - 1]
        BY <2>4
      <4>2. QED
        BY <1>1, <4>1, OtherEnd
    <3>5. [h EXCEPT !.lo = num + 1] = e
      BY <1>1, OtherEnd
    <3> HIDE DEF g, e, rest
    <3>6. d = insert_range(m, e, k + 1)
      BY <1>2, <2>1, <2>4, <3>2, <3>4, <3>5
    <3>7. /\ m \in HostLists /\ m.nhosts = l.nhosts
          /\ Len(m.hr) = Len(l.hr) /\ Size(m.hr) = Size(l.hr) + count(g) - count(h)
      BY <3>2, WithRange DEF h
    <3> HIDE DEF m
    <3>8. k + 1 \in 1 .. Len(m.hr) + 1
      BY <1>1, <3>7
    <3>9. /\ d \in HostLists /\ d.nhosts = m.nhosts
          /\ Len(d.hr) = Len(m.hr) + 1 /\ Size(d.hr) = Size(m.hr) + count(e)
      BY <3>3, <3>6, <3>7, <3>8, InsertRange
    <3>10. Size(d.hr) = Size(l.hr) - 1
      <4>1. count(e) + count(g) = count(h) - 1 /\ count(e) \in Int /\ count(g) \in Int
            /\ count(h) \in Int
        <5>1. \A a, b, x \in Int : /\ (b - (x + 1) + 1) + ((x - 1) - a + 1) = (b - a + 1) - 1
                                 /\ b - (x + 1) + 1 \in Int /\ (x - 1) - a + 1 \in Int
                                    /\ b - a + 1 \in Int
          OBVIOUS
        <5>2. h.lo \in Int /\ h.hi \in Int /\ num \in Int
          BY <1>3, <1>4
        <5>3. QED
          BY <1>3, <3>2, <3>3, <5>1, <5>2, SMTT(30)
      <4>2. Size(d.hr) = (Size(l.hr) + count(g) - count(h)) + count(e) /\ Size(l.hr) \in Int
        BY <1>1, <3>7, <3>9
      <4>3. QED
        BY <4>1, <4>2
    <3>11. d.nhosts = l.nhosts /\ Len(d.hr) = Len(l.hr) + 1
      BY <3>7, <3>9
    <3>12. Len(d.hr) \in Len(l.hr) - 1 .. Len(l.hr) + 1 /\ ~(Len(d.hr) < Len(l.hr))
           /\ Len(d.hr) # Len(l.hr)
      BY <1>1, <3>11
    <3>13. QED
      BY <3>9, <3>10, <3>11, <3>12 DEF d
  <2>5. QED
    BY <2>2, <2>3, <2>4
<1>7. QED
  BY <1>5, <1>6

(* hostlist_delete_nth takes one name away, from an end of its range or    *)
(* from between.                                                           *)
LEMMA DeleteNth ==
  ASSUME NEW l \in HostLists, NEW n \in Nat, n < Size(l.hr)
  PROVE  /\ delete_nth(l, n) \in HostLists /\ Size(delete_nth(l, n).hr) = Size(l.hr) - 1
         /\ delete_nth(l, n).nhosts = l.nhosts - 1
<1> DEFINE rs == l.hr
           k == RangeOf(rs, n)
           h == rs[k]
           num == h.lo + n - CountBefore(rs, k)
           d == delete_host(l, k, num)
<1>1. rs \in Lists /\ l.nhosts \in Int
  BY DEF HostLists
<1> HIDE DEF rs
<1>2. k \in 1 .. Len(rs) /\ n < CountBefore(rs, k + 1) /\ n >= CountBefore(rs, k)
  <2>1. n < Size(rs)
    BY DEF rs
  <2>2. QED
    BY <1>1, <2>1, RangeOfIs
<1>3. delete_nth(l, n) = [d EXCEPT !.nhosts = @ - 1]
  BY DEF delete_nth, rs
<1> HIDE DEF k
<1>4. /\ h \in HostRange /\ CountBefore(rs, k + 1) = CountBefore(rs, k) + count(h)
      /\ CountBefore(rs, k) \in Nat
  <2>1. k \in 1 .. Len(rs) + 1
    BY <1>1, <1>2, ListIs
  <2>2. QED
    BY <1>1, <1>2, <2>1, ListIs, Counts
<1> HIDE DEF h
<1>5. num \in h.lo .. h.hi
  <2>1. h.lo \in Nat /\ h.hi \in Nat /\ count(h) = h.hi - h.lo + 1
    BY <1>4, RangeIs
  <2>2. QED
    BY <1>2, <1>4, <2>1
<1> HIDE DEF num
<1>6. d \in HostLists /\ d.nhosts = l.nhosts /\ Size(d.hr) = Size(l.hr) - 1
  <2>1. k \in 1 .. Len(l.hr) /\ num \in l.hr[k].lo .. l.hr[k].hi
    BY <1>2, <1>5 DEF h, rs
  <2>2. QED
    BY <2>1, DeleteHost
<1> HIDE DEF d
<1>7. d \in [hr : Lists, nhosts : Int, ilist : [Iter -> Iterator]]
  BY <1>6 DEF HostLists
<1>8. [d EXCEPT !.nhosts = @ - 1] = [hr |-> d.hr, nhosts |-> d.nhosts - 1, ilist |-> d.ilist]
  BY <1>7
<1>9. [hr |-> d.hr, nhosts |-> d.nhosts - 1, ilist |-> d.ilist] \in HostLists
  BY <1>7 DEF HostLists
<1>10. QED
  BY <1>3, <1>6, <1>8, <1>9

(* Whatever is looked for, a position that is found is one of the list.    *)
FoundAt(rs, hn, n, k) ==
    /\ n \in CountBefore(rs, k) .. CountBefore(rs, k + 1) - 1
    /\ hn_within(rs[k], hn)
    /\ hn.valid /\ ~rs[k].single => n - CountBefore(rs, k) = hn.num - rs[k].lo

(* hostlist_find answers -1 or the place of a name in one of the ranges.   *)
LEMMA FindIs ==
  ASSUME NEW rs \in Lists, NEW hn
  PROVE  /\ hostlist_find(rs, hn) \in -1 .. Size(rs) - 1
         /\ hostlist_find(rs, hn) # -1
                  => \E k \in 1 .. Len(rs) : FoundAt(rs, hn, hostlist_find(rs, hn), k)
<1> DEFINE hits == {k \in DOMAIN rs : hn_within(rs[k], hn)}
           k == Min(hits)
           h == rs[k]
           off == IF hn.valid /\ ~h.single THEN hn.num - h.lo ELSE 0
<1>0. Size(rs) \in Nat /\ Len(rs) \in Nat /\ DOMAIN rs = 1 .. Len(rs)
  BY SizeIs, ListIs
<1>1. hostlist_find(rs, hn) = IF hits = {} THEN -1 ELSE CountBefore(rs, k) + off
  BY DEF hostlist_find
<1>2. CASE hits = {}
  BY <1>0, <1>1, <1>2
<1>3. CASE hits # {}
  <2>1. hits \in SUBSET (1 .. Len(rs)) /\ 1 \in Int /\ Len(rs) \in Int
    BY <1>0
  <2>2. k \in hits
    <3> HIDE DEF hits
    <3>1. QED
      BY <1>3, <2>1, MinIs
  <2>3. k \in 1 .. Len(rs) /\ hn_within(h, hn)
    BY <1>0, <2>2
  <2> HIDE DEF hits, k
  <2>4. /\ h \in HostRange /\ CountBefore(rs, k + 1) = CountBefore(rs, k) + count(h)
        /\ CountBefore(rs, k) \in Nat
    <3>1. k \in 1 .. Len(rs) + 1
      BY <1>0, <2>3
    <3>2. QED
      BY <2>3, <3>1, ListIs, Counts
  <2>5. CountBefore(rs, k + 1) <= Size(rs)
    <3>1. k + 1 \in 1 .. Len(rs) + 1 /\ Len(rs) + 1 \in k + 1 .. Len(rs) + 1
      BY <1>0, <2>3
    <3>2. CountBefore(rs, Len(rs) + 1) - CountBefore(rs, k + 1) >= (Len(rs) + 1) - (k + 1)
      BY <3>1, Grows
    <3>3. CountBefore(rs, k + 1) \in Nat
      BY <3>1, Counts
    <3> DEFINE s == CountBefore(rs, Len(rs) + 1)
    <3>4. s = Size(rs)
      BY DEF Size
    <3> HIDE DEF s
    <3>5. QED
      BY <1>0, <2>3, <3>2, <3>3, <3>4 DEF s
  <2> HIDE DEF h
  <2>6. h.lo \in Nat /\ h.hi \in Nat /\ h.lo <= h.hi /\ count(h) = h.hi - h.lo + 1
    BY <2>4, RangeIs
  <2>7. off \in 0 .. count(h) - 1
    <3>1. CASE hn.valid /\ ~h.single
      <4>1. hn.num \in h.lo .. h.hi
        BY <2>3, <3>1 DEF hn_within
      <4>2. QED
        BY <2>6, <3>1, <4>1
    <3>2. CASE ~(hn.valid /\ ~h.single)
      BY <2>6, <3>2
    <3>3. QED
      BY <3>1, <3>2
  <2> DEFINE n == CountBefore(rs, k) + off
  <2>8. n - CountBefore(rs, k) = off /\ n \in CountBefore(rs, k) .. CountBefore(rs, k + 1) - 1
    <3> HIDE DEF off
    <3>1. QED
      BY <2>4, <2>6, <2>7
  <2>9. n \in 0 .. Size(rs) - 1
    <3> HIDE DEF off
    <3>1. QED
      BY <1>0, <2>4, <2>5, <2>6, <2>7, SMTT(30)
  <2>10. hn.valid /\ ~h.single => off = hn.num - h.lo
    OBVIOUS
  <2>11. hostlist_find(rs, hn) = n
    BY <1>1, <1>3
  <2> HIDE DEF off, n
  <2>12. FoundAt(rs, hn, n, k)
    BY <2>3, <2>8, <2>10 DEF FoundAt, h
  <2>13. QED
    BY <1>0, <2>3, <2>9, <2>11, <2>12
<1>4. QED
  BY <1>2, <1>3

(* Lists whose count of names is c too low.                                *)
Counted(c) == {l \in HostLists : l.nhosts = Size(l.hr) - c}

(* hostlist_delete_host keeps the count right and deletes at most a name.  *)
LEMMA DeleteFound ==
  ASSUME NEW c \in Int, NEW l \in Counted(c), NEW hn
  PROVE  delete_found(l, hn) \in Counted(c)
         /\ (delete_found(l, hn) = l \/ delete_found(l, hn).nhosts < l.nhosts)
<1> DEFINE n == hostlist_find(l.hr, hn)
<1>1. l \in HostLists /\ l.hr \in Lists /\ l.nhosts = Size(l.hr) - c /\ l.nhosts \in Int
      /\ Size(l.hr) \in Nat
  BY SizeIs DEF Counted, HostLists
<1>2. n \in -1 .. Size(l.hr) - 1
  BY <1>1, FindIs
<1>3. delete_found(l, hn) = IF n < 0 THEN l ELSE delete_nth(l, n)
  BY DEF delete_found
<1> HIDE DEF n
<1>4. CASE n < 0
  BY <1>3, <1>4
<1>5. CASE ~(n < 0)
  <2>1. n \in Nat /\ n < Size(l.hr)
    BY <1>1, <1>2, <1>5
  <2> DEFINE d == delete_nth(l, n)
  <2>2. d \in HostLists /\ Size(d.hr) = Size(l.hr) - 1 /\ d.nhosts = l.nhosts - 1
    BY <1>1, <2>1, DeleteNth
  <2>3. delete_found(l, hn) = d
    BY <1>3, <1>5
  <2> HIDE DEF d
  <2>4. d \in Counted(c) /\ d.nhosts < l.nhosts
    BY <1>1, <2>2 DEF Counted
  <2>5. QED
    BY <2>3, <2>4
<1>6. QED
  BY <1>4, <1>5

(* A list without the names of seq.                                        *)
Deleted(l, seq) == FoldRight(LAMBDA s, acc : delete_found(acc, hostname_create(s)), seq, l)

(* hostlist_delete keeps the count right.                                  *)
LEMMA DeleteAll ==
  ASSUME NEW c \in Int, NEW l \in Counted(c), NEW seq \in Seq(Seq(Int))
  PROVE  Deleted(l, seq) \in Counted(c) /\ (Deleted(l, seq) = l \/ Deleted(l, seq).nhosts < l.nhosts)
<1> DEFINE N == Len(seq)
           V == {d \in Counted(c) : d = l \/ d.nhosts < l.nhosts}
           one(v, n) == delete_found(v, hostname_create(seq[n]))
           step == [p \in (1 .. N) \X V |-> one(p[2], p[1])]
           Is(f) == f = [s \in SUBSET (1 .. N) |-> IF s = {} THEN l
                                                      ELSE one(f[s \ {Min(s)}], Min(s))]
           iter == CHOOSE f : Is(f)
<1>1. N \in Nat /\ DOMAIN seq = 1 .. N
  OBVIOUS
<1>2. \A v \in V, n \in 1 .. N : one(v, n) \in V
  <2>1. ASSUME NEW v \in V, NEW n PROVE one(v, n) \in V
    <3>1. v \in Counted(c) /\ (v = l \/ v.nhosts < l.nhosts)
      OBVIOUS
    <3>2. v.nhosts \in Int /\ l.nhosts \in Int
      BY <3>1 DEF Counted, HostLists
    <3>3. one(v, n) \in Counted(c) /\ (one(v, n) = v \/ one(v, n).nhosts < v.nhosts)
      BY <3>1, DeleteFound
    <3>4. one(v, n).nhosts \in Int
      BY <3>3 DEF Counted, HostLists
    <3> HIDE DEF one
    <3>5. QED
      BY <3>1, <3>2, <3>3, <3>4
  <2>2. QED
    BY <2>1
<1> HIDE DEF V
<1>3. step \in [(1 .. N) \X V -> V]
  <2> HIDE DEF one
  <2>1. QED
    BY <1>2
<1>4. Deleted(l, seq) = iter[1 .. N]
  BY <1>1 DEF Deleted, FoldRight, MapThenFoldSet
<1> HIDE DEF one
<1>5. \A s \in SUBSET (1 .. N) : s # {} => Min(s) \in 1 .. N
  BY <1>1, MinInside
<1>6. ASSUME NEW n \in 1 .. N, NEW v \in V PROVE step[<<n, v>>] = one(v, n)
  OBVIOUS
<1>7. l \in V
  BY DEF V
<1> HIDE DEF step, N
<1>8. PICK f \in [SUBSET (1 .. N) -> V] : FoldedRight(f, N, l, step)
  BY <1>1, <1>3, <1>7, RightFold, Zenon
<1>9. Is(f)
  BY <1>5, <1>6, <1>8 DEF FoldedRight
<1>10. Is(iter)
  BY <1>9
<1> HIDE DEF iter
<1>11. DropsTo(N, V, l, step, iter[1 .. N])
  <2>1. FoldsRight(iter, N, V, l, step)
    BY <1>5, <1>6, <1>10 DEF FoldsRight
  <2>2. QED
    BY <1>1, <1>3, <1>7, <2>1, RightClimb, Zenon
<1>12. iter[1 .. N] \in V
  BY <1>1, <1>11 DEF DropsTo
<1>13. QED
  BY <1>4, <1>12 DEF V

(* The names of a list, as places in its ranges: there are Size of them.   *)
Cells(rs) == {c \in (1 .. Len(rs)) \X Nat : c[2] < count(rs[c[1]])}

(* A list has as many cells as names.                                      *)
LEMMA CellsCount ==
  ASSUME NEW rs \in Lists
  PROVE  IsFiniteSet(Cells(rs)) /\ Cardinality(Cells(rs)) = Size(rs)
<1> DEFINE N == Size(rs)
           T == 0 .. N - 1
           f == [c \in Cells(rs) |-> CountBefore(rs, c[1]) + c[2]]
<1>0. Len(rs) \in Nat /\ N \in Nat
  BY SizeIs, ListIs
<1>1. \A k \in 1 .. Len(rs) : /\ CountBefore(rs, k) \in Nat /\ count(rs[k]) \in Nat
                              /\ CountBefore(rs, k + 1) = CountBefore(rs, k) + count(rs[k])
  <2>1. \A k \in 1 .. Len(rs) : k \in 1 .. Len(rs) + 1
    BY <1>0
  <2>2. QED
    BY <2>1, Counts
<1>2. \A j, k \in 1 .. Len(rs) + 1 : j < k => CountBefore(rs, j + 1) <= CountBefore(rs, k)
  <2> SUFFICES ASSUME NEW j \in 1 .. Len(rs) + 1, NEW k \in 1 .. Len(rs) + 1, j < k
               PROVE  CountBefore(rs, j + 1) <= CountBefore(rs, k)
    OBVIOUS
  <2>1. j + 1 \in 1 .. Len(rs) + 1 /\ k \in j + 1 .. Len(rs) + 1
    BY <1>0
  <2>2. CountBefore(rs, k) - CountBefore(rs, j + 1) >= k - (j + 1)
    BY <2>1, Grows
  <2>3. CountBefore(rs, k) \in Nat /\ CountBefore(rs, j + 1) \in Nat
    BY <2>1, Counts
  <2>4. QED
    BY <1>0, <2>1, <2>2, <2>3
<1>3. ASSUME NEW c \in Cells(rs)
      PROVE  /\ c[1] \in 1 .. Len(rs) /\ c[2] \in Nat /\ c = <<c[1], c[2]>> /\ f[c] \in T
             /\ f[c] = CountBefore(rs, c[1]) + c[2] /\ c[2] < count(rs[c[1]])
  <2>1. c[1] \in 1 .. Len(rs) /\ c[2] \in Nat /\ c = <<c[1], c[2]>> /\ c[2] < count(rs[c[1]])
    BY DEF Cells
  <2>2. CountBefore(rs, c[1] + 1) <= N
    <3>1. CASE c[1] = Len(rs)
      <4>1. CountBefore(rs, c[1] + 1) = N
        BY <3>1 DEF Size
      <4>2. QED
        BY <1>0, <4>1
    <3>2. CASE c[1] < Len(rs)
      <4>1. CountBefore(rs, c[1] + 1) <= CountBefore(rs, Len(rs) + 1)
        BY <1>0, <1>2, <2>1, <3>2
      <4>2. QED
        BY <4>1 DEF Size
    <3>3. QED
      BY <1>0, <2>1, <3>1, <3>2
  <2>3. f[c] = CountBefore(rs, c[1]) + c[2]
    OBVIOUS
  <2> HIDE DEF f, N
  <2>4. QED
    BY <1>0, <1>1, <2>1, <2>2, <2>3
<1>4. \A c, d \in Cells(rs) : f[c] = f[d] => c = d
  <2> SUFFICES ASSUME NEW c \in Cells(rs), NEW d \in Cells(rs), f[c] = f[d]
               PROVE  c = d
    OBVIOUS
  <2> HIDE DEF f
  <2>1. /\ c[1] \in 1 .. Len(rs) /\ c[2] \in Nat /\ c = <<c[1], c[2]>>
        /\ f[c] = CountBefore(rs, c[1]) + c[2] /\ c[2] < count(rs[c[1]])
    BY <1>3
  <2>2. /\ d[1] \in 1 .. Len(rs) /\ d[2] \in Nat /\ d = <<d[1], d[2]>>
        /\ f[d] = CountBefore(rs, d[1]) + d[2] /\ d[2] < count(rs[d[1]])
    BY <1>3
  <2> DEFINE a == CountBefore(rs, c[1])
             b == CountBefore(rs, d[1])
             i == c[1]
             j == d[1]
             m == c[2]
             n == d[2]
  <2>3. /\ a \in Nat /\ b \in Nat /\ i \in Nat /\ j \in Nat /\ m \in Nat /\ n \in Nat
        /\ count(rs[i]) \in Nat /\ count(rs[j]) \in Nat
        /\ CountBefore(rs, i + 1) = a + count(rs[i]) /\ CountBefore(rs, j + 1) = b + count(rs[j])
        /\ m < count(rs[i]) /\ n < count(rs[j])
    <3>1. i \in 1 .. Len(rs) /\ j \in 1 .. Len(rs)
      BY <2>1, <2>2
    <3>2. /\ a \in Nat /\ count(rs[i]) \in Nat /\ CountBefore(rs, i + 1) = a + count(rs[i])
          /\ b \in Nat /\ count(rs[j]) \in Nat /\ CountBefore(rs, j + 1) = b + count(rs[j])
      BY <1>1, <3>1
    <3>3. i \in Nat /\ j \in Nat /\ m \in Nat /\ n \in Nat
      BY <1>0, <2>1, <2>2, <3>1
    <3>4. m < count(rs[i]) /\ n < count(rs[j])
      BY <2>1, <2>2
    <3>5. QED
      BY <3>2, <3>3, <3>4
  <2>4. a + m = b + n
    BY <2>1, <2>2
  <2>5. /\ i < j => CountBefore(rs, i + 1) <= b
        /\ j < i => CountBefore(rs, j + 1) <= a
    <3>1. i \in 1 .. Len(rs) + 1 /\ j \in 1 .. Len(rs) + 1
      BY <1>0, <2>1, <2>2
    <3>2. QED
      BY <1>2, <3>1
  <2>6. i = j => a = b
    OBVIOUS
  <2> HIDE DEF a, b, i, j, m, n
  <2>7. i = j /\ m = n
    BY <2>3, <2>4, <2>5, <2>6
  <2>8. QED
    BY <2>1, <2>2, <2>7 DEF i, j, m, n
<1>5. \A n \in T : \E c \in Cells(rs) : f[c] = n
  <2> SUFFICES ASSUME NEW n \in T PROVE \E c \in Cells(rs) : f[c] = n
    OBVIOUS
  <2> DEFINE k == RangeOf(rs, n)
             c == <<k, n - CountBefore(rs, k)>>
  <2>1. n \in Nat /\ n < Size(rs)
    BY <1>0
  <2>2. k \in 1 .. Len(rs) /\ n < CountBefore(rs, k + 1) /\ n >= CountBefore(rs, k)
    BY <2>1, RangeOfIs
  <2> HIDE DEF k
  <2>3. n - CountBefore(rs, k) \in Nat /\ n - CountBefore(rs, k) < count(rs[k])
    BY <1>1, <2>1, <2>2
  <2>4. c \in Cells(rs)
    BY <2>2, <2>3 DEF Cells
  <2>5. f[c] = n
    BY <1>1, <2>1, <2>2, <2>4
  <2>6. QED
    BY <2>4, <2>5
<1>6. f \in Bijection(Cells(rs), T)
  <2>1. f \in [Cells(rs) -> T]
    <3>1. \A c \in Cells(rs) : CountBefore(rs, c[1]) + c[2] \in T
      BY <1>3
    <3> HIDE DEF T
    <3>2. QED
      BY <3>1
  <2> HIDE DEF f, T
  <2>2. QED
    BY <1>4, <1>5, <2>1, Fun_IsBij
<1> HIDE DEF f
<1>7. ExistsBijection(T, Cells(rs))
  BY <1>6, Fun_ExistsBijSymmetric DEF ExistsBijection
<1>8. IsFiniteSet(T) /\ Cardinality(T) = N
  <2>1. 0 \in Int /\ N - 1 \in Int
    BY <1>0
  <2>2. IsFiniteSet(T) /\ Cardinality(T) = IF 0 > N - 1 THEN 0 ELSE (N - 1) - 0 + 1
    BY <2>1, FS_Interval
  <2>3. QED
    BY <1>0, <2>2
<1> HIDE DEF T
<1>9. QED
  BY <1>7, <1>8, FS_Bijection

(* A list that is put in order holds as many names.                        *)
LEMMA SortedIs ==
  ASSUME NEW rs \in Lists, NEW s \in Sorted(rs)
  PROVE  s \in Lists /\ Len(s) = Len(rs) /\ Size(s) = Size(rs)
<1> DEFINE N == Len(rs)
<1>0. N \in Nat /\ DOMAIN rs = 1 .. N
  BY ListIs
<1>1. PICK p \in Bijection(1 .. N, 1 .. N) : s = [k \in 1 .. N |-> rs[p[k]]]
  BY <1>0 DEF Sorted
<1>2. /\ p \in [1 .. N -> 1 .. N] /\ \A j, k \in 1 .. N : p[j] = p[k] => j = k
      /\ \A k \in 1 .. N : \E j \in 1 .. N : p[j] = k
  BY Fun_IsBij DEF Bijection, Injection, Surjection, IsInjective
<1>3. \A k \in 1 .. N : rs[p[k]] \in HostRange
  BY <1>0, <1>2, ListIs
<1>4. s \in Lists /\ Len(s) = N /\ \A k \in 1 .. N : s[k] = rs[p[k]]
  BY <1>0, <1>1, <1>3 DEF Lists
<1> DEFINE f == [c \in Cells(s) |-> <<p[c[1]], c[2]>>]
<1>5. \A c \in Cells(s) : /\ c[1] \in 1 .. N /\ c[2] \in Nat /\ c = <<c[1], c[2]>>
                          /\ f[c] = <<p[c[1]], c[2]>> /\ f[c] \in Cells(rs)
  BY <1>2, <1>4 DEF Cells
<1>6. f \in [Cells(s) -> Cells(rs)]
  BY <1>5
<1>7. \A c, d \in Cells(s) : f[c] = f[d] => c = d
  <2> HIDE DEF f
  <2>1. QED
    BY <1>2, <1>5
<1>8. \A d \in Cells(rs) : \E c \in Cells(s) : f[c] = d
  <2> SUFFICES ASSUME NEW d \in Cells(rs) PROVE \E c \in Cells(s) : f[c] = d
    OBVIOUS
  <2>1. d[1] \in 1 .. N /\ d[2] \in Nat /\ d = <<d[1], d[2]>> /\ d[2] < count(rs[d[1]])
    BY DEF Cells
  <2>2. PICK j \in 1 .. N : p[j] = d[1]
    BY <1>2, <2>1
  <2>3. <<j, d[2]>> \in Cells(s)
    BY <1>4, <2>1, <2>2 DEF Cells
  <2>4. QED
    BY <2>1, <2>2, <2>3
<1>9. f \in Bijection(Cells(s), Cells(rs))
  <2> HIDE DEF f
  <2>1. QED
    BY <1>6, <1>7, <1>8, Fun_IsBij
<1>10. ExistsBijection(Cells(s), Cells(rs))
  BY <1>9 DEF ExistsBijection
<1>11. QED
  BY <1>4, <1>10, CellsCount, FS_Bijection

(* A range before a list, which becomes part of its first one if that      *)
(* follows: a step of collapse.                                            *)
Prepended(h, acc) ==
    IF acc # <<>> /\ Follows(h, acc[1]) THEN <<[h EXCEPT !.hi = acc[1].hi]>> \o Tail(acc)
    ELSE <<h>> \o acc

(* A step of hostlist_collapse adds the names of the range to those after  *)
(* it.                                                                     *)
LEMMA Prepend ==
  ASSUME NEW h \in HostRange, NEW acc \in Lists
  PROVE  /\ Prepended(h, acc) \in Lists \ {<<>>}
         /\ Size(Prepended(h, acc)) = count(h) + Size(acc)
<1>1. CASE acc # <<>> /\ Follows(h, acc[1])
  <2> DEFINE g == acc[1]
             e == Bounded(h, h.lo, g.hi)
             tail == SubSeq(acc, 2, Len(acc))
  <2>1. Len(acc) \in Nat /\ Len(acc) # 0 /\ 1 \in 1 .. Len(acc) /\ g \in HostRange
    <3>1. Len(acc) \in Nat /\ Len(acc) # 0
      BY <1>1, NotEmpty
    <3>2. QED
      BY <3>1, ListIs
  <2>2. /\ h.lo \in Nat /\ h.hi \in Nat /\ h.lo <= h.hi /\ h.single \in BOOLEAN
        /\ (h.single => h.lo = 0 /\ h.hi = 0) /\ count(h) = h.hi - h.lo + 1
        /\ g.lo \in Nat /\ g.hi \in Nat /\ g.lo <= g.hi /\ count(g) = g.hi - g.lo + 1
        /\ (g.single => g.lo = 0)
        /\ h.single = g.single /\ h.hi = g.lo - 1
    BY <1>1, <2>1, RangeIs DEF Follows, prefix_eq
  <2>3. ~h.single /\ h.lo <= g.hi
    BY <2>2
  <2>4. e \in HostRange /\ count(e) = g.hi - h.lo + 1
    BY <2>2, <2>3, BoundedIs
  <2>5. Prepended(h, acc) = <<e>> \o tail
    <3>1. [h EXCEPT !.hi = acc[1].hi] = e
      BY OtherEnd
    <3>2. Tail(acc) = tail
      BY <1>1 DEF Lists
    <3>3. QED
      BY <1>1, <3>1, <3>2 DEF Prepended
  <2>6. tail \in Lists /\ Size(tail) = Size(acc) - count(g)
    <3>1. 2 \in 1 .. Len(acc) + 1 /\ Len(acc) \in 2 - 1 .. Len(acc)
      BY <2>1
    <3>2. tail \in Lists /\ Size(tail) = CountBefore(acc, Len(acc) + 1) - CountBefore(acc, 2)
      BY <3>1, PartSize
    <3>3. CountBefore(acc, 1) = 0 /\ CountBefore(acc, 1 + 1) = CountBefore(acc, 1) + count(g)
      BY <2>1, Counts
    <3>4. CountBefore(acc, 2) = count(g)
      BY <2>2, <3>3
    <3>5. QED
      BY <3>2, <3>4 DEF Size
  <2> HIDE DEF e, tail, g
  <2>7. <<e>> \in Lists /\ Len(<<e>>) = 1 /\ Size(<<e>>) = count(e)
    BY <2>4, OneSize
  <2>8. /\ <<e>> \o tail \in Lists /\ Len(<<e>> \o tail) = 1 + Len(tail)
        /\ Size(<<e>> \o tail) = count(e) + Size(tail)
    BY <2>6, <2>7, JoinedSize
  <2>9. Len(tail) \in Nat /\ Size(acc) \in Nat
    BY <2>6, NotEmpty, SizeIs
  <2>10. <<e>> \o tail # <<>>
    BY <2>8, <2>9, NotEmpty
  <2>11. count(e) + (Size(acc) - count(g)) = count(h) + Size(acc)
    BY <2>2, <2>4, <2>9
  <2>12. QED
    BY <2>5, <2>6, <2>8, <2>10, <2>11
<1>2. CASE ~(acc # <<>> /\ Follows(h, acc[1]))
  <2>1. Prepended(h, acc) = <<h>> \o acc
    BY <1>2 DEF Prepended
  <2>2. <<h>> \in Lists /\ Len(<<h>>) = 1 /\ Size(<<h>>) = count(h)
    BY OneSize
  <2>3. /\ <<h>> \o acc \in Lists /\ Len(<<h>> \o acc) = 1 + Len(acc)
        /\ Size(<<h>> \o acc) = count(h) + Size(acc)
    BY <2>2, JoinedSize
  <2>4. <<h>> \o acc # <<>>
    BY <2>3, NotEmpty
  <2>5. QED
    BY <2>1, <2>3, <2>4
<1>3. QED
  BY <1>1, <1>2

(* hostlist_collapse, range by range: h[n] is what it made of those from n. *)
CollapsesDown(h, rs) ==
    /\ h[Len(rs) + 1] = <<>> /\ h[1] = collapse(rs)
    /\ \A n \in 1 .. Len(rs) : h[n + 1] \in Lists /\ h[n] = Prepended(rs[n], h[n + 1])

(* It loses no name.                                                       *)
LEMMA CollapseIs ==
  ASSUME NEW rs \in Lists
  PROVE  /\ collapse(rs) \in Lists /\ Size(collapse(rs)) = Size(rs)
         /\ collapse(rs) = <<>> <=> rs = <<>>
         /\ \E h : CollapsesDown(h, rs)
<1> DEFINE N == Len(rs)
           step == [p \in (1 .. N) \X Lists |-> Prepended(rs[p[1]], p[2])]
           Is(f) == f = [s \in SUBSET (1 .. N) |-> IF s = {} THEN <<>>
                                                   ELSE Prepended(rs[Min(s)], f[s \ {Min(s)}])]
           iter == CHOOSE f : Is(f)
<1>1. N \in Nat /\ DOMAIN rs = 1 .. N /\ \A n \in 1 .. N : rs[n] \in HostRange
  BY ListIs
<1>2. step \in [(1 .. N) \X Lists -> Lists]
  BY <1>1, Prepend
<1>3. collapse(rs) = iter[1 .. N]
  BY <1>1 DEF collapse, FoldRight, MapThenFoldSet, Prepended
<1>4. \A s \in SUBSET (1 .. N) : s # {} => Min(s) \in 1 .. N
  BY <1>1, MinInside
<1>5. ASSUME NEW n \in 1 .. N, NEW v \in Lists PROVE step[<<n, v>>] = Prepended(rs[n], v)
  OBVIOUS
<1>6. <<>> \in Lists /\ Size(<<>>) = 0
  BY EmptySize
<1> HIDE DEF step, N
<1>7. PICK f \in [SUBSET (1 .. N) -> Lists] : FoldedRight(f, N, <<>>, step)
  BY <1>1, <1>2, <1>6, RightFold, Zenon
<1>8. Is(f)
  BY <1>4, <1>5, <1>7 DEF FoldedRight
<1>9. Is(iter)
  BY <1>8
<1> HIDE DEF iter
<1>10. DropsTo(N, Lists, <<>>, step, iter[1 .. N])
  <2>1. FoldsRight(iter, N, Lists, <<>>, step)
    <3>1. iter[{}] = <<>>
      BY <1>9
    <3>2. ASSUME NEW s \in SUBSET (1 .. N), s # {}, iter[s \ {Min(s)}] \in Lists
          PROVE  iter[s] = step[<<Min(s), iter[s \ {Min(s)}]>>]
      <4>1. Min(s) \in 1 .. N
        BY <1>4, <3>2
      <4>2. iter[s] = Prepended(rs[Min(s)], iter[s \ {Min(s)}])
        BY <1>9, <3>2
      <4>3. step[<<Min(s), iter[s \ {Min(s)}]>>] = Prepended(rs[Min(s)], iter[s \ {Min(s)}])
        BY <1>5, <3>2, <4>1
      <4>4. QED
        BY <4>2, <4>3
    <3>3. QED
      BY <3>1, <3>2 DEF FoldsRight
  <2>2. QED
    BY <1>1, <1>2, <1>6, <2>1, RightClimb, Zenon
<1>11. PICK h \in [1 .. N + 1 -> Lists] : ChainedDown(h, N, <<>>, step) /\ h[1] = iter[1 .. N]
  BY <1>10 DEF DropsTo
<1>12. ASSUME NEW n \in 1 .. N
       PROVE  /\ h[n] \in Lists \ {<<>>} /\ h[n + 1] \in Lists
              /\ Size(h[n]) = count(rs[n]) + Size(h[n + 1])
  <2>1. n + 1 \in 1 .. N + 1
    BY <1>1
  <2>2. h[n + 1] \in Lists /\ h[n] = Prepended(rs[n], h[n + 1])
    BY <1>5, <1>11, <2>1 DEF ChainedDown
  <2>3. QED
    BY <1>1, <2>2, Prepend
<1> DEFINE S == {m \in Nat : m <= N => Size(h[N + 1 - m]) = Size(rs) - CountBefore(rs, N + 1 - m)}
<1>13. \A m \in Nat : m \in S
  <2>1. 0 \in S
    <3>1. N + 1 - 0 = N + 1 /\ h[N + 1] = <<>>
      BY <1>1, <1>11 DEF ChainedDown
    <3>2. Size(rs) \in Nat /\ CountBefore(rs, N + 1) = Size(rs)
      BY SizeIs DEF Size, N
    <3>3. QED
      BY <1>6, <3>1, <3>2
  <2>2. ASSUME NEW m \in Nat, m \in S PROVE m + 1 \in S
    <3> DEFINE n == N - m
    <3>1. SUFFICES ASSUME m + 1 <= N
                   PROVE  Size(h[N + 1 - (m + 1)]) = Size(rs) - CountBefore(rs, N + 1 - (m + 1))
      OBVIOUS
    <3>2. n \in 1 .. N /\ N + 1 - m = n + 1 /\ N + 1 - (m + 1) = n
      BY <1>1, <3>1
    <3>3. Size(h[n + 1]) = Size(rs) - CountBefore(rs, n + 1)
      BY <1>1, <2>2, <3>1, <3>2
    <3>4. /\ CountBefore(rs, n + 1) = CountBefore(rs, n) + count(rs[n])
          /\ CountBefore(rs, n) \in Nat /\ count(rs[n]) \in Nat /\ Size(rs) \in Nat
      <4>1. n \in 1 .. Len(rs) /\ n \in 1 .. Len(rs) + 1
        BY <1>1, <3>2 DEF N
      <4>2. QED
        BY <4>1, Counts, SizeIs
    <3>5. Size(h[n]) = count(rs[n]) + Size(h[n + 1])
      BY <1>12, <3>2
    <3>6. Size(h[n]) = Size(rs) - CountBefore(rs, n)
      BY <3>3, <3>4, <3>5
    <3>7. QED
      BY <3>2, <3>6
  <2> HIDE DEF S
  <2>3. QED
    BY <2>1, <2>2, Induction
<1>14. h[1] \in Lists /\ Size(h[1]) = Size(rs)
  <2>1. 1 \in 1 .. N + 1 /\ N + 1 - N = 1 /\ N <= N
    BY <1>1
  <2>2. Size(h[1]) = Size(rs) - CountBefore(rs, 1)
    BY <1>1, <1>13, <2>1
  <2>3. CountBefore(rs, 1) = 0 /\ Size(rs) \in Nat
    BY Counts, SizeIs
  <2>4. QED
    BY <1>11, <2>1, <2>2, <2>3
<1>15. h[1] = <<>> <=> rs = <<>>
  BY <1>14, SizeIs
<1>16. CollapsesDown(h, rs)
  <2>1. ASSUME NEW n \in 1 .. N PROVE h[n + 1] \in Lists /\ h[n] = Prepended(rs[n], h[n + 1])
    <3>1. n + 1 \in 1 .. N + 1
      BY <1>1
    <3>2. QED
      BY <1>5, <1>11, <3>1 DEF ChainedDown
  <2>2. h[N + 1] = <<>>
    BY <1>11 DEF ChainedDown
  <2>3. QED
    BY <1>3, <1>11, <2>1, <2>2 DEF CollapsesDown, N
<1>17. QED
  BY <1>3, <1>11, <1>14, <1>15, <1>16

(* The greater and the lesser of two numbers.                              *)
LEMMA MaxOfTwo ==
  ASSUME NEW a \in Nat, NEW b \in Nat
  PROVE  Max({a, b}) \in Nat /\ Max({a, b}) = IF a >= b THEN a ELSE b
<1> DEFINE m == IF a >= b THEN a ELSE b
<1>1. {a, b} \in SUBSET (0 .. m) /\ {a, b} # {} /\ 0 \in Int /\ m \in Int
  OBVIOUS
<1>2. Max({a, b}) \in {a, b} /\ \A y \in {a, b} : Max({a, b}) >= y
  <2> HIDE DEF m
  <2>1. QED
    BY <1>1, MaxIs
<1>3. QED
  BY <1>2

(* The lesser of two numbers.                                              *)
LEMMA MinOfTwo ==
  ASSUME NEW a \in Nat, NEW b \in Nat
  PROVE  Min({a, b}) \in Nat /\ Min({a, b}) = IF a <= b THEN a ELSE b
<1> DEFINE m == IF a >= b THEN a ELSE b
<1>1. {a, b} \in SUBSET (0 .. m) /\ {a, b} # {} /\ 0 \in Int /\ m \in Int
  OBVIOUS
<1>2. Min({a, b}) \in {a, b} /\ \A y \in {a, b} : Min({a, b}) <= y
  <2> HIDE DEF m
  <2>1. QED
    BY <1>1, MinIs
<1>3. QED
  BY <1>2

(* What is left of a list without its last range.                          *)
LEMMA FrontIs ==
  ASSUME NEW rs \in Lists, rs # <<>>
  PROVE  /\ Front(rs) \in Lists /\ Last(rs) \in HostRange /\ Len(Front(rs)) = Len(rs) - 1
         /\ Size(Front(rs)) = Size(rs) - count(Last(rs))
         /\ \A k \in 1 .. Len(rs) - 1 : Front(rs)[k] = rs[k]
<1> DEFINE n == Len(rs)
<1>1. n \in Nat /\ n # 0 /\ n \in 1 .. n /\ Last(rs) = rs[n] /\ rs[n] \in HostRange
  <2>1. n \in Nat /\ n # 0
    BY NotEmpty
  <2>2. QED
    BY <2>1, ListIs DEF Last
<1>2. Front(rs) = SubSeq(rs, 1, n - 1)
  BY DEF Front
<1>3. 1 \in 1 .. Len(rs) + 1 /\ n - 1 \in 1 - 1 .. Len(rs) /\ (n - 1) + 1 = n
      /\ (n - 1) - 1 + 1 = n - 1
  BY <1>1
<1>4. /\ Front(rs) \in Lists /\ Len(Front(rs)) = n - 1
      /\ Size(Front(rs)) = CountBefore(rs, n) - CountBefore(rs, 1)
      /\ \A k \in 1 .. n - 1 : Front(rs)[k] = rs[1 + k - 1]
  <2>1. /\ SubSeq(rs, 1, n - 1) \in Lists
        /\ Len(SubSeq(rs, 1, n - 1)) = (n - 1) - 1 + 1
        /\ \A k \in 1 .. (n - 1) - 1 + 1 : SubSeq(rs, 1, n - 1)[k] = rs[1 + k - 1]
        /\ Size(SubSeq(rs, 1, n - 1)) = CountBefore(rs, (n - 1) + 1) - CountBefore(rs, 1)
    BY <1>3, PartSize
  <2>2. QED
    BY <1>2, <1>3, <2>1
<1>5. /\ CountBefore(rs, 1) = 0 /\ CountBefore(rs, n + 1) = CountBefore(rs, n) + count(rs[n])
      /\ CountBefore(rs, n) \in Nat /\ count(rs[n]) \in Nat
  <2>1. n \in 1 .. Len(rs) + 1
    BY <1>1
  <2>2. QED
    BY <1>1, <2>1, Counts
<1>6. Size(Front(rs)) = Size(rs) - count(rs[n])
  BY <1>4, <1>5 DEF Size
<1>7. QED
  BY <1>1, <1>4, <1>6

(* Ranges that are joined are a range.                                     *)
LEMMA JoinIs ==
  ASSUME NEW g \in HostRange, NEW h \in HostRange, Joins(g, h)
  PROVE  Join(g, h) \in HostRange
<1>1. /\ g.lo \in Nat /\ g.hi \in Nat /\ g.lo <= g.hi /\ g.pfx \in Seq(Int) /\ g.width \in Nat
      /\ g.single \in BOOLEAN /\ (g.single => g.hi = 0) /\ g.single = h.single
      /\ h.hi \in Nat /\ (h.single => h.hi = 0)
  BY RangeIs DEF Joins, prefix_eq
<1> DEFINE m == Max({g.hi, h.hi})
<1>2. m \in Nat /\ m >= g.hi /\ (g.single => m = 0)
  <2>1. m \in Nat /\ m = IF g.hi >= h.hi THEN g.hi ELSE h.hi
    BY <1>1, MaxOfTwo
  <2> HIDE DEF m
  <2>2. QED
    BY <1>1, <2>1
<1> HIDE DEF m
<1>3. Join(g, h) = Bounded(g, g.lo, m)
  BY OtherEnd DEF Join, m
<1>4. Bounded(g, g.lo, m) \in HostRange
  BY <1>1, <1>2 DEF Bounded, HostRange
<1>5. QED
  BY <1>3, <1>4

(* A step of hostlist_uniq.                                                *)
Joined(acc, h) ==
    IF acc = NULL \/ cmp_less(h, Last(acc)) THEN NULL
    ELSE IF Joins(Last(acc), h) THEN Append(Front(acc), Join(Last(acc), h)) ELSE Append(acc, h)

(* A step of the loop in hostlist_uniq gives a list that is not empty, or  *)
(* fails.                                                                  *)
LEMMA JoinOne ==
  ASSUME NEW acc \in (Lists \ {<<>>}) \cup {NULL}, NEW h \in HostRange
  PROVE  Joined(acc, h) \in (Lists \ {<<>>}) \cup {NULL}
<1>1. CASE acc = NULL \/ cmp_less(h, Last(acc))
  BY <1>1 DEF Joined
<1>2. CASE ~(acc = NULL \/ cmp_less(h, Last(acc)))
  <2>1. acc \in Lists /\ acc # <<>> /\ Last(acc) \in HostRange /\ Front(acc) \in Lists
    BY <1>2, FrontIs
  <2>2. CASE Joins(Last(acc), h)
    <3>1. Joined(acc, h) = Append(Front(acc), Join(Last(acc), h))
      BY <1>2, <2>2 DEF Joined
    <3>2. Join(Last(acc), h) \in HostRange
      BY <2>1, <2>2, JoinIs
    <3>3. QED
      BY <2>1, <3>1, <3>2, AppendSize
  <2>3. CASE ~Joins(Last(acc), h)
    <3>1. Joined(acc, h) = Append(acc, h)
      BY <1>2, <2>3 DEF Joined
    <3>2. QED
      BY <2>1, <3>1, AppendSize
  <2>4. QED
    BY <2>2, <2>3
<1>3. QED
  BY <1>1, <1>2

(* hostlist_uniq, range by range: f[n] is what it made of the first n + 1. *)
JoinsUp(f, rs) ==
    /\ f[0] = <<rs[1]>> /\ f[Len(rs) - 1] = join_all(rs)
    /\ \A n \in 1 .. Len(rs) - 1 : f[n] = Joined(f[n - 1], rs[n + 1])

(* It makes a list of ranges, or an assertion of it fails.                 *)
LEMMA JoinAllIs ==
  ASSUME NEW rs \in Lists, rs # <<>>
  PROVE  join_all(rs) \in (Lists \ {<<>>}) \cup {NULL} /\ \E f : JoinsUp(f, rs)
<1> DEFINE new == SubSeq(rs, 2, Len(rs))
           N == Len(new)
           V == (Lists \ {<<>>}) \cup {NULL}
           first == <<rs[1]>>
           step == [p \in (1 .. N) \X V |-> Joined(p[2], new[p[1]])]
           Is(f) == f = [s \in SUBSET (1 .. N) |-> IF s = {} THEN first
                                                   ELSE Joined(f[s \ {Max(s)}], new[Max(s)])]
           iter == CHOOSE f : Is(f)
<1>1. Len(rs) \in Nat /\ Len(rs) # 0
  BY NotEmpty
<1>2. new \in Lists /\ Tail(rs) = new
  <2>1. 2 \in 1 .. Len(rs) + 1 /\ Len(rs) \in 2 - 1 .. Len(rs)
    BY <1>1
  <2>2. new \in Lists
    BY <2>1, PartSize
  <2>3. Tail(rs) = new
    BY DEF Lists
  <2>4. QED
    BY <2>2, <2>3
<1> HIDE DEF new
<1>3. N \in Nat /\ DOMAIN new = 1 .. N /\ \A n \in 1 .. N : new[n] \in HostRange
  BY <1>2, ListIs
<1>4. first \in V
  <2>1. rs[1] \in HostRange
    BY <1>1, ListIs
  <2>2. first \in Lists /\ Len(first) = 1
    BY <2>1, OneSize
  <2> HIDE DEF first
  <2>3. first # <<>>
    BY <2>2, NotEmpty
  <2>4. QED
    BY <2>2, <2>3
<1>5. \A v \in V, n \in 1 .. N : Joined(v, new[n]) \in V
  BY <1>3, JoinOne
<1> HIDE DEF V
<1>6. step \in [(1 .. N) \X V -> V]
  BY <1>5
<1>7. join_all(rs) = iter[1 .. N]
  BY <1>2, <1>3, ZenonT(30) DEF join_all, FoldLeft, MapThenFoldSet, Joined
<1>8. \A s \in SUBSET (1 .. N) : s # {} => Max(s) \in 1 .. N
  BY <1>3, MaxInside
<1>9. ASSUME NEW n \in 1 .. N, NEW v \in V PROVE step[<<n, v>>] = Joined(v, new[n])
  OBVIOUS
<1> HIDE DEF step, N, first
<1>10. PICK f \in [SUBSET (1 .. N) -> V] : FoldedLeft(f, N, first, step)
  BY <1>3, <1>4, <1>6, LeftFold, Zenon
<1>11. Is(f)
  BY <1>8, <1>9, <1>10 DEF FoldedLeft
<1>12. Is(iter)
  BY <1>11
<1> HIDE DEF iter
<1>13. ClimbsTo(N, V, first, step, iter[1 .. N])
  <2>1. FoldsLeft(iter, N, V, first, step)
    BY <1>8, <1>9, <1>12 DEF FoldsLeft
  <2>2. QED
    BY <1>3, <1>4, <1>6, <2>1, LeftClimb, Zenon
<1>14. PICK h \in [0 .. N -> V] : Chained(h, N, first, step) /\ h[N] = iter[1 .. N]
  BY <1>13 DEF ClimbsTo
<1>15. h[0] = first /\ h[N] \in V
  <2>1. 0 \in 0 .. N /\ N \in 0 .. N
    BY <1>3
  <2>2. QED
    BY <1>14, <2>1 DEF Chained
<1>16. ASSUME NEW n \in 1 .. N PROVE h[n] = Joined(h[n - 1], rs[n + 1])
  <2>1. n \in 0 .. N /\ n # 0 /\ n - 1 \in 0 .. N
    BY <1>3
  <2>2. h[n - 1] \in V /\ h[n] = step[<<n, h[n - 1]>>]
    BY <1>14, <2>1 DEF Chained
  <2>3. new[n] = rs[n + 1]
    <3>1. 2 \in 1 .. Len(rs) + 1 /\ Len(rs) \in 2 - 1 .. Len(rs)
      BY <1>1
    <3>2. Len(new) = Len(rs) - 2 + 1 /\ \A k \in 1 .. Len(rs) - 2 + 1 : new[k] = rs[2 + k - 1]
      BY <3>1, PartSize DEF new
    <3>3. n \in 1 .. Len(rs) - 2 + 1 /\ 2 + n - 1 = n + 1
      BY <3>2 DEF N
    <3>4. QED
      BY <3>2, <3>3
  <2>4. QED
    BY <1>9, <2>2, <2>3
<1>17. N = Len(rs) - 1
  <2>1. 2 \in 1 .. Len(rs) + 1 /\ Len(rs) \in 2 - 1 .. Len(rs)
    BY <1>1
  <2>2. Len(new) = Len(rs) - 2 + 1
    BY <2>1, PartSize DEF new
  <2>3. QED
    BY <1>1, <2>2 DEF N
<1>18. JoinsUp(h, rs)
  BY <1>7, <1>14, <1>15, <1>16, <1>17 DEF JoinsUp, first
<1>19. QED
  BY <1>7, <1>14, <1>15, <1>18 DEF V

(* Neither of two ranges comes before the other by hostrange_cmp.          *)
LEMMA LowerFirst ==
  ASSUME NEW g \in HostRange, NEW h \in HostRange, Intersects(g, h), ~cmp_less(h, g)
  PROVE  /\ g.lo <= h.lo /\ h.lo < g.hi /\ ~g.single /\ ~h.single
<1>1. g.lo \in Nat /\ h.lo \in Nat /\ g.hi \in Nat
  BY RangeIs
<1>2. /\ g.pfx = h.pfx /\ g.single = h.single /\ ~g.single /\ g.hi > h.lo
      /\ width_equiv(g.lo, g.width, h.lo, h.width)
  BY DEF Intersects, within_range, prefix_eq, width_combine
<1>3. width_combine(h, g)
  BY <1>2 DEF width_combine, width_equiv
<1>4. ~(h.lo < g.lo)
  BY <1>2, <1>3 DEF cmp_less
<1>5. QED
  BY <1>1, <1>2, <1>4

(* What the names between the two are written as, one by one.              *)
Twice(g, lo, hi, n) ==
    (IF n > lo THEN <<hostrange_create(g.pfx, n, n, g.width)>> ELSE <<>>) \o
    (IF n < hi THEN <<hostrange_create(g.pfx, n, n, g.width)>> ELSE <<>>)

(* What is made of a number in the intersection has it as often as the two *)
(* ranges did.                                                             *)
LEMMA TwiceIs ==
  ASSUME NEW g \in HostRange, NEW lo \in Nat, NEW hi \in Nat, NEW n \in Nat
  PROVE  /\ Twice(g, lo, hi, n) \in Lists
         /\ Size(Twice(g, lo, hi, n)) = (IF n > lo THEN 1 ELSE 0) + (IF n < hi THEN 1 ELSE 0)
<1> DEFINE e == hostrange_create(g.pfx, n, n, g.width)
           a == IF n > lo THEN <<e>> ELSE <<>>
           b == IF n < hi THEN <<e>> ELSE <<>>
<1>1. e \in HostRange /\ count(e) = 1
  <2>1. g.pfx \in Seq(Int) /\ g.width \in Nat
    BY RangeIs
  <2>2. e \in HostRange
    BY <2>1 DEF hostrange_create, HostRange
  <2>3. count(e) = n - n + 1
    BY DEF hostrange_create, count
  <2>4. QED
    BY <2>2, <2>3
<1>2. Twice(g, lo, hi, n) = a \o b
  BY DEF Twice
<1> HIDE DEF e
<1>3. <<e>> \in Lists /\ Size(<<e>>) = 1 /\ <<>> \in Lists /\ Size(<<>>) = 0
  BY <1>1, OneSize, EmptySize
<1>4. a \in Lists /\ b \in Lists /\ Size(a) = (IF n > lo THEN 1 ELSE 0)
      /\ Size(b) = (IF n < hi THEN 1 ELSE 0)
  BY <1>3
<1> HIDE DEF a, b
<1>5. QED
  BY <1>2, <1>4, JoinedSize

(* What is made of an intersection.                                        *)
Middle(g, lo, hi) == FlattenSeq([k \in 1 .. hi - lo + 1 |-> Twice(g, lo, hi, lo + k - 1)])

(* It has every number but the two ends twice, and those once.             *)
LEMMA MiddleIs ==
  ASSUME NEW g \in HostRange, NEW lo \in Nat, NEW hi \in Nat, lo <= hi
  PROVE  Middle(g, lo, hi) \in Lists /\ Size(Middle(g, lo, hi)) = 2 * (hi - lo)
<1> DEFINE m == hi - lo + 1
           seqs == [k \in 1 .. m |-> Twice(g, lo, hi, lo + k - 1)]
<1>1. m \in Nat /\ m >= 1 /\ \A k \in 1 .. m : lo + k - 1 \in Nat
  OBVIOUS
<1>2. \A k \in 1 .. m : Twice(g, lo, hi, lo + k - 1) \in Seq(HostRange)
  BY <1>1, TwiceIs DEF Lists
<1>3. seqs \in Seq(Seq(HostRange)) /\ Len(seqs) = m
      /\ \A k \in 1 .. m : seqs[k] = Twice(g, lo, hi, lo + k - 1)
  BY <1>1, <1>2
<1>4. Middle(g, lo, hi) = FlattenSeq(seqs)
  BY DEF Middle
<1> HIDE DEF seqs
<1>5. PICK f \in [1 .. m -> Seq(HostRange)] : Flattens(f, seqs)
  <2>1. seqs # <<>>
    BY <1>1, <1>3
  <2>2. QED
    BY <1>3, <2>1, Flatten
<1>6. /\ f[1] = Twice(g, lo, hi, lo) /\ FlattenSeq(seqs) = f[m]
      /\ \A i \in 2 .. m : f[i] = f[i - 1] \o Twice(g, lo, hi, lo + i - 1)
  <2>1. seqs[1] = Twice(g, lo, hi, lo)
    <3>1. lo + 1 - 1 = lo /\ 1 \in 1 .. m
      BY <1>1
    <3>2. QED
      BY <1>3, <3>1
  <2>2. \A i \in 2 .. m : seqs[i] = Twice(g, lo, hi, lo + i - 1)
    BY <1>3
  <2>3. QED
    BY <1>3, <1>5, <2>1, <2>2 DEF Flattens
<1> DEFINE S == {j \in Nat : j + 1 <= m =>
                   Size(f[j + 1]) = 2 * j + (IF lo + j < hi THEN 1 ELSE 0)}
<1>7. \A j \in Nat : j \in S
  <2>1. 0 \in S
    <3>1. Size(Twice(g, lo, hi, lo)) = (IF lo > lo THEN 1 ELSE 0) + (IF lo < hi THEN 1 ELSE 0)
      BY TwiceIs
    <3>2. Size(f[0 + 1]) = 2 * 0 + (IF lo + 0 < hi THEN 1 ELSE 0)
      BY <1>6, <3>1
    <3>3. QED
      BY <3>2
  <2>2. ASSUME NEW j \in Nat, j \in S PROVE j + 1 \in S
    <3> DEFINE n == lo + (j + 1)
               t == Twice(g, lo, hi, n)
    <3>1. SUFFICES ASSUME (j + 1) + 1 <= m
                   PROVE  Size(f[(j + 1) + 1]) = 2 * (j + 1) + (IF lo + (j + 1) < hi THEN 1 ELSE 0)
      OBVIOUS
    <3>2. /\ (j + 1) + 1 \in 2 .. m /\ ((j + 1) + 1) - 1 = j + 1 /\ lo + ((j + 1) + 1) - 1 = n
          /\ j + 1 \in 1 .. m /\ n \in Nat /\ n > lo /\ lo + j < hi
      BY <1>1, <3>1
    <3>3. Size(f[j + 1]) = 2 * j + 1
      BY <2>2, <3>1, <3>2
    <3>4. t \in Lists /\ Size(t) = 1 + (IF n < hi THEN 1 ELSE 0)
      BY <3>2, TwiceIs
    <3>5. f[(j + 1) + 1] = f[j + 1] \o t
      BY <1>6, <3>2
    <3>6. f[j + 1] \in Lists
      BY <1>5, <3>2 DEF Lists
    <3> HIDE DEF t
    <3>7. Size(f[(j + 1) + 1]) = Size(f[j + 1]) + Size(t)
      BY <3>4, <3>5, <3>6, JoinedSize
    <3>8. QED
      BY <3>3, <3>4, <3>7
  <2> HIDE DEF S
  <2>3. QED
    BY <2>1, <2>2, Induction
<1>8. f[m] \in Lists /\ Size(f[m]) = 2 * (hi - lo)
  <2>1. hi - lo \in Nat /\ (hi - lo) + 1 = m /\ ~(lo + (hi - lo) < hi) /\ m \in 1 .. m
    BY <1>1
  <2>2. Size(f[(hi - lo) + 1]) = 2 * (hi - lo) + 0
    BY <1>7, <2>1
  <2>3. QED
    BY <1>5, <2>1, <2>2 DEF Lists
<1>9. QED
  BY <1>4, <1>6, <1>8

(* What hostrange_intersect makes, by parts.                               *)
LEMMA SplitParts ==
  ASSUME NEW g \in HostRange, NEW h \in HostRange
  PROVE  LET hi == Min({g.hi, h.hi}) IN
         Split(g, h) = <<Bounded(g, g.lo, h.lo)>> \o Middle(g, h.lo, hi)
                       \o <<Bounded(h, hi, Max({g.hi, h.hi}))>>
<1> DEFINE lo == h.lo
           hi == Min({g.hi, h.hi})
           up == Max({g.hi, h.hi})
           a == Bounded(g, g.lo, lo)
           b == Bounded(h, hi, up)
<1>1. /\ [g EXCEPT !.hi = lo] = a
      /\ [h EXCEPT !.lo = hi, !.hi = up] = b
  <2>1. [g EXCEPT !.hi = lo] = a
    BY OtherEnd
  <2>2. \A x, y : [h EXCEPT !.lo = x, !.hi = y] = Bounded(h, x, y)
    <3>1. ASSUME NEW x, NEW y PROVE [h EXCEPT !.lo = x, !.hi = y] = Bounded(h, x, y)
      <4>1. [h EXCEPT !.lo = x] = Bounded(h, x, h.hi)
        BY OtherEnd
      <4>2. [Bounded(h, x, h.hi) EXCEPT !.hi = y] = Bounded(h, x, y)
        BY DEF Bounded
      <4>3. [h EXCEPT !.lo = x, !.hi = y] = [[h EXCEPT !.lo = x] EXCEPT !.hi = y]
        OBVIOUS
      <4>4. QED
        BY <4>1, <4>2, <4>3
    <3>2. QED
      BY <3>1
  <2>3. QED
    BY <2>1, <2>2
<1> HIDE DEF a, b
<1>2. Split(g, h) = <<a>> \o Middle(g, lo, hi) \o <<b>>
  BY <1>1 DEF Split, Middle, Twice
<1>3. QED
  BY <1>2 DEF a, b

(* hostrange_intersect: the ranges the two are made into have their names. *)
LEMMA SplitIs ==
  ASSUME NEW g \in HostRange, NEW h \in HostRange, Intersects(g, h), ~cmp_less(h, g)
  PROVE  /\ Split(g, h) \in Lists /\ Len(Split(g, h)) >= 2
            /\ Size(Split(g, h)) = count(g) + count(h)
         /\ Split(g, h)[1] \in HostRange /\ count(Split(g, h)[1]) < count(g)
<1> DEFINE lo == h.lo
           hi == Min({g.hi, h.hi})
           up == Max({g.hi, h.hi})
           a == Bounded(g, g.lo, lo)
           b == Bounded(h, hi, up)
           mid == Middle(g, lo, hi)
<1>1. /\ g.lo \in Nat /\ g.hi \in Nat /\ h.lo \in Nat /\ h.hi \in Nat /\ g.lo <= g.hi
         /\ h.lo <= h.hi
      /\ count(g) = g.hi - g.lo + 1 /\ count(h) = h.hi - h.lo + 1
      /\ g.lo <= h.lo /\ h.lo < g.hi /\ ~g.single /\ ~h.single
  BY RangeIs, LowerFirst
<1>2. /\ hi \in Nat /\ hi = (IF g.hi <= h.hi THEN g.hi ELSE h.hi)
      /\ up \in Nat /\ up = (IF g.hi >= h.hi THEN g.hi ELSE h.hi)
  BY <1>1, MaxOfTwo, MinOfTwo
<1>3. Split(g, h) = <<a>> \o mid \o <<b>>
  BY SplitParts
<1> HIDE DEF hi, up
<1>4. lo <= hi /\ hi <= up /\ hi + up = g.hi + h.hi /\ lo \in Nat
  BY <1>1, <1>2
<1>5. a \in HostRange /\ count(a) = lo - g.lo + 1
  BY <1>1, <1>4, BoundedIs
<1>6. b \in HostRange /\ count(b) = up - hi + 1
  BY <1>1, <1>2, <1>4, BoundedIs, ZenonT(30)
<1>7. mid \in Lists /\ Size(mid) = 2 * (hi - lo)
  BY <1>2, <1>4, MiddleIs
<1> HIDE DEF a, b, mid
<1>8. /\ <<a>> \in Lists /\ Len(<<a>>) = 1 /\ <<a>>[1] = a /\ Size(<<a>>) = count(a)
      /\ <<b>> \in Lists /\ Len(<<b>>) = 1 /\ Size(<<b>>) = count(b)
  BY <1>5, <1>6, OneSize
<1>9. /\ <<a>> \o mid \in Lists /\ Len(<<a>> \o mid) = 1 + Len(mid)
      /\ Size(<<a>> \o mid) = count(a) + Size(mid)
  BY <1>7, <1>8, JoinedSize
<1>10. /\ <<a>> \o mid \o <<b>> \in Lists /\ Len(<<a>> \o mid \o <<b>>) = (1 + Len(mid)) + 1
       /\ Size(<<a>> \o mid \o <<b>>) = (count(a) + Size(mid)) + count(b)
  BY <1>8, <1>9, JoinedSize
<1>11. Len(mid) \in Nat
  BY <1>7, NotEmpty
<1>12. (<<a>> \o mid \o <<b>>)[1] = a
  <2>1. (<<a>> \o mid)[1] = a /\ 1 \in 1 .. Len(<<a>> \o mid)
    BY <1>7, <1>8, <1>9, <1>11 DEF Lists
  <2>2. QED
    BY <1>8, <1>9, <2>1 DEF Lists
<1>13. (count(a) + Size(mid)) + count(b) = count(g) + count(h)
  <2> DEFINE ghi == g.hi
             hhi == h.hi
             glo == g.lo
  <2>1. /\ count(a) = lo - glo + 1 /\ Size(mid) = 2 * (hi - lo) /\ count(b) = up - hi + 1
        /\ count(g) = ghi - glo + 1 /\ count(h) = hhi - lo + 1 /\ hi + up = ghi + hhi
        /\ lo \in Int /\ hi \in Int /\ up \in Int /\ ghi \in Int /\ hhi \in Int /\ glo \in Int
    BY <1>1, <1>2, <1>4, <1>5, <1>6, <1>7
  <2> HIDE DEF lo, ghi, hhi, glo
  <2>2. QED
    BY <2>1
<1>14. count(a) < count(g)
  BY <1>1, <1>4, <1>5
<1> DEFINE s == <<a>> \o mid \o <<b>>
<1>15. s \in Lists /\ Len(s) >= 2 /\ Size(s) = count(g) + count(h) /\ s[1] = a
  BY <1>10, <1>11, <1>12, <1>13
<1> HIDE DEF s
<1>16. QED
  BY <1>3, <1>5, <1>14, <1>15 DEF s

(* Before a place that is behind the list is the whole list.               *)
LEMMA CountInside ==
  ASSUME NEW rs \in Lists, NEW k \in Nat \ {0}
  PROVE  /\ CountBefore(rs, k) \in 0 .. Size(rs)
         /\ k > Len(rs) => CountBefore(rs, k) = Size(rs)
<1>1. Len(rs) \in Nat /\ Size(rs) \in Nat
  BY ListIs, SizeIs
<1>2. CASE k > Len(rs)
  <2>1. Len(rs) + 1 > Len(rs)
    BY <1>1
  <2> DEFINE Sum[j \in 0 .. Len(rs)] == IF j = 0 THEN 0 ELSE Sum[j - 1] + count(rs[j])
  <2>2. CountBefore(rs, k) = Sum[Len(rs)] /\ Size(rs) = Sum[Len(rs)]
    BY <1>2, <2>1 DEF CountBefore, Size
  <2> HIDE DEF Sum
  <2>3. QED
    BY <1>1, <2>2
<1>3. CASE ~(k > Len(rs))
  <2>1. k \in 1 .. Len(rs) + 1 /\ Len(rs) + 1 \in k .. Len(rs) + 1
    BY <1>1, <1>3
  <2>2. CountBefore(rs, Len(rs) + 1) - CountBefore(rs, k) >= (Len(rs) + 1) - k
    BY <2>1, Grows
  <2>3. CountBefore(rs, k) \in Nat
    BY <2>1, Counts
  <2>4. QED
    BY <1>1, <1>3, <2>1, <2>2, <2>3 DEF Size
<1>4. QED
  BY <1>2, <1>3

(* The list with the ranges at k - 1 and k made into others.  What is      *)
(* before any place of it has not grown, and before k it has shrunk.       *)
Pulled(rs, k) == SubSeq(rs, 1, k - 2) \o Split(rs[k - 1], rs[k]) \o SubSeq(rs, k + 1, Len(rs))

(* Two ranges pulled apart: the names are as many, and they move to later  *)
(* ranges.                                                                 *)
LEMMA PulledIs ==
  ASSUME NEW rs \in Lists, NEW k \in 2 .. Len(rs),
         Intersects(rs[k - 1], rs[k]), ~cmp_less(rs[k], rs[k - 1])
  PROVE  /\ Pulled(rs, k) \in Lists /\ Size(Pulled(rs, k)) = Size(rs)
         /\ k \in 1 .. Size(rs) /\ CountBefore(Pulled(rs, k), k) < CountBefore(rs, k)
         /\ \A j \in 1 .. Size(rs) : CountBefore(Pulled(rs, k), j) <= CountBefore(rs, j)
<1> DEFINE g == rs[k - 1]
           h == rs[k]
           a == SubSeq(rs, 1, k - 2)
           s == Split(g, h)
           b == SubSeq(rs, k + 1, Len(rs))
           new == Pulled(rs, k)
           N == Size(rs)
<1>1. /\ Len(rs) \in Nat /\ N \in Nat /\ N >= Len(rs) /\ k - 1 \in 1 .. Len(rs)
         /\ k \in 1 .. Len(rs)
      /\ g \in HostRange /\ h \in HostRange /\ k \in Nat
  BY ListIs, SizeIs
<1>2. /\ s \in Lists /\ Len(s) >= 2 /\ Size(s) = count(g) + count(h)
      /\ s[1] \in HostRange /\ count(s[1]) < count(g)
  BY <1>1, SplitIs
<1>3. /\ CountBefore(rs, k) = CountBefore(rs, k - 1) + count(g)
      /\ CountBefore(rs, k + 1) = CountBefore(rs, k) + count(h)
      /\ CountBefore(rs, k - 1) \in Nat /\ CountBefore(rs, k) \in Nat
         /\ CountBefore(rs, k + 1) \in Nat
      /\ count(g) \in Nat \ {0} /\ count(h) \in Nat \ {0}
  <2>1. /\ k - 1 \in 1 .. Len(rs) + 1 /\ k \in 1 .. Len(rs) + 1 /\ k + 1 \in 1 .. Len(rs) + 1
        /\ (k - 1) + 1 = k
    BY <1>1
  <2>2. CountBefore(rs, (k - 1) + 1) = CountBefore(rs, k - 1) + count(g)
    BY <1>1, Counts
  <2>3. QED
    BY <1>1, <2>1, <2>2, Counts
<1>4. /\ a \in Lists /\ Len(a) = k - 2 /\ Size(a) = CountBefore(rs, k - 1)
      /\ \A j \in 1 .. k - 1 : CountBefore(a, j) = CountBefore(rs, j)
  <2>1. /\ 1 \in 1 .. Len(rs) + 1 /\ k - 2 \in 1 - 1 .. Len(rs)
        /\ (k - 2) - 1 + 1 = k - 2 /\ (k - 2) + 1 = k - 1 /\ (k - 2) - 1 + 2 = k - 1
    BY <1>1
  <2>2. /\ a \in Lists /\ Len(a) = (k - 2) - 1 + 1
        /\ Size(a) = CountBefore(rs, (k - 2) + 1) - CountBefore(rs, 1)
        /\ \A j \in 1 .. (k - 2) - 1 + 2 :
                 CountBefore(a, j) = CountBefore(rs, 1 + j - 1) - CountBefore(rs, 1)
    BY <2>1, PartSize
  <2>3. CountBefore(rs, 1) = 0 /\ \A j \in 1 .. k - 1 : CountBefore(rs, j) \in Nat /\ 1 + j - 1 = j
    <3>1. \A j \in 1 .. k - 1 : j \in 1 .. Len(rs) + 1
      BY <1>1
    <3>2. QED
      BY <3>1, Counts
  <2> HIDE DEF a
  <2>4. Size(a) = CountBefore(rs, k - 1)
    BY <1>3, <2>1, <2>2, <2>3
  <2>5. \A j \in 1 .. k - 1 : CountBefore(a, j) = CountBefore(rs, j)
    BY <2>1, <2>2, <2>3
  <2>6. QED
    BY <2>1, <2>2, <2>4, <2>5
<1>5. /\ b \in Lists /\ Len(b) = Len(rs) - k /\ Size(b) = N - CountBefore(rs, k + 1)
      /\ \A j \in 1 .. Len(rs) - k + 1 :
               CountBefore(b, j) = CountBefore(rs, k + j) - CountBefore(rs, k + 1)
  <2>1. /\ k + 1 \in 1 .. Len(rs) + 1 /\ Len(rs) \in (k + 1) - 1 .. Len(rs)
        /\ Len(rs) - (k + 1) + 1 = Len(rs) - k /\ Len(rs) - (k + 1) + 2 = Len(rs) - k + 1
        /\ \A j \in 1 .. Len(rs) - k + 1 : (k + 1) + j - 1 = k + j
    BY <1>1
  <2>2. /\ b \in Lists /\ Len(b) = Len(rs) - (k + 1) + 1
        /\ Size(b) = CountBefore(rs, Len(rs) + 1) - CountBefore(rs, k + 1)
        /\ \A j \in 1 .. Len(rs) - (k + 1) + 2 :
              CountBefore(b, j) = CountBefore(rs, (k + 1) + j - 1) - CountBefore(rs, k + 1)
    BY <2>1, PartSize
  <2> HIDE DEF b
  <2>3. QED
    BY <2>1, <2>2 DEF Size
<1>6. new = a \o s \o b
  BY DEF Pulled
<1> HIDE DEF a, s, b, new, g, h
<1>7. /\ a \o s \in Lists /\ Len(a \o s) = Len(a) + Len(s) /\ Size(a \o s) = Size(a) + Size(s)
      /\ \A j \in 1 .. Len(a) + 1 : CountBefore(a \o s, j) = CountBefore(a, j)
      /\ \A j \in 1 .. Len(s) + 1 : CountBefore(a \o s, Len(a) + j) = Size(a) + CountBefore(s, j)
  BY <1>2, <1>4, JoinedSize
<1>8. /\ new \in Lists /\ Len(new) = Len(a \o s) + Len(b) /\ Size(new) = Size(a \o s) + Size(b)
      /\ \A j \in 1 .. Len(a \o s) + 1 : CountBefore(new, j) = CountBefore(a \o s, j)
      /\ \A j \in 1 .. Len(b) + 1 :
               CountBefore(new, Len(a \o s) + j) = Size(a \o s) + CountBefore(b, j)
  BY <1>5, <1>6, <1>7, JoinedSize, ZenonT(30)
<1>9. Len(s) \in Nat /\ Len(b) \in Nat /\ Len(a) \in Nat /\ Len(new) \in Nat
  BY <1>2, <1>4, <1>5, <1>8, NotEmpty
<1>10. Size(a \o s) = CountBefore(rs, k + 1)
  BY <1>2, <1>3, <1>4, <1>7
<1>11. Size(new) = N
  BY <1>1, <1>3, <1>5, <1>8, <1>10
<1>12. CountBefore(new, k) < CountBefore(rs, k)
  <2>1. CountBefore(new, k) = CountBefore(a \o s, k)
    <3>1. k \in 1 .. Len(a \o s) + 1
      BY <1>1, <1>2, <1>4, <1>7, <1>9
    <3>2. QED
      BY <1>8, <3>1
  <2>2. CountBefore(a \o s, k) = Size(a) + CountBefore(s, 2)
    <3>1. 2 \in 1 .. Len(s) + 1 /\ Len(a) + 2 = k
      BY <1>1, <1>2, <1>4, <1>9
    <3>2. QED
      BY <1>7, <3>1
  <2>3. CountBefore(s, 2) = count(s[1]) /\ count(s[1]) \in Nat
    <3>1. 1 \in 1 .. Len(s)
      BY <1>2, <1>9
    <3>2. CountBefore(s, 1 + 1) = CountBefore(s, 1) + count(s[1]) /\ CountBefore(s, 1) = 0
          /\ count(s[1]) \in Nat
      BY <1>2, <3>1, Counts
    <3>3. QED
      BY <3>2
  <2>4. QED
    BY <1>2, <1>3, <1>4, <2>1, <2>2, <2>3, SMTT(30)
<1>13. ASSUME NEW j \in 1 .. N PROVE CountBefore(new, j) <= CountBefore(rs, j)
  <2>1. CASE j <= k - 1
    <3>1. j \in 1 .. Len(a) + 1 /\ j \in 1 .. Len(a \o s) + 1 /\ j \in 1 .. k - 1
      BY <1>1, <1>4, <1>7, <1>9, <2>1
    <3>2. CountBefore(new, j) = CountBefore(rs, j)
      BY <1>4, <1>7, <1>8, <3>1
    <3>3. CountBefore(rs, j) \in Nat
      <4>1. j \in 1 .. Len(rs) + 1
        BY <1>1, <2>1
      <4>2. QED
        BY <4>1, Counts
    <3>4. QED
      BY <3>2, <3>3
  <2>2. CASE j = k
    BY <1>12, <1>3, <2>2, <1>8, CountInside, SMTT(30)
  <2>3. CASE j > k /\ j <= Len(rs)
    <3> DEFINE m == j + Len(s) - 2
    <3>1. /\ j - k \in 1 .. Len(b) + 1 /\ j - k \in 1 .. Len(rs) - k + 1
             /\ Len(a \o s) + (j - k) = m
          /\ k + (j - k) = j /\ m \in j .. Len(new) + 1 /\ j \in 1 .. Len(new) + 1
      BY <1>1, <1>2, <1>4, <1>5, <1>7, <1>8, <1>9, <2>3, SMTT(30)
    <3>2. CountBefore(new, m)
             = CountBefore(rs, k + 1) + (CountBefore(rs, j) - CountBefore(rs, k + 1))
      <4>1. CountBefore(b, j - k) = CountBefore(rs, j) - CountBefore(rs, k + 1)
        BY <1>5, <3>1
      <4>2. CountBefore(new, Len(a \o s) + (j - k)) = Size(a \o s) + CountBefore(b, j - k)
        BY <1>8, <3>1
      <4>3. QED
        BY <1>10, <3>1, <4>1, <4>2
    <3>3. CountBefore(new, m) - CountBefore(new, j) >= m - j
      BY <1>8, <3>1, Grows
    <3>4. CountBefore(rs, j) \in Nat /\ CountBefore(new, j) \in Nat /\ CountBefore(new, m) \in Nat
      <4>1. j \in 1 .. Len(rs) + 1 /\ m \in 1 .. Len(new) + 1
        BY <1>1, <2>3, <3>1
      <4>2. QED
        BY <1>8, <3>1, <4>1, Counts
    <3>5. m - j \in Nat
      BY <1>2, <1>9, <3>1
    <3> HIDE DEF m
    <3>6. QED
      BY <1>3, <3>2, <3>3, <3>4, <3>5, SMTT(30)
  <2>4. CASE j > Len(rs)
    <3>1. CountBefore(rs, j) = N /\ CountBefore(new, j) \in 0 .. N
      BY <1>1, <1>8, <1>11, <2>4, CountInside
    <3>2. QED
      BY <1>1, <3>1
  <2>5. QED
    BY <1>1, <2>1, <2>2, <2>3, <2>4
<1>14. k \in 1 .. N
  BY <1>1
<1>15. QED
  BY <1>8, <1>11, <1>12, <1>13, <1>14 DEF new

(* hostlist_coalesce, by parts: the pairs it looks at, by their second     *)
(* range; those in the wrong order; those that intersect; the last one.    *)
Pairs(rs) == {k \in 2 .. Len(rs) : ~rs[k].single /\ ~rs[k - 1].single}

(* The pairs that are out of order.                                        *)
Wrong(rs) == {k \in Pairs(rs) : cmp_less(rs[k], rs[k - 1])}

(* The pairs that intersect.                                               *)
Hits(rs) == {k \in Pairs(rs) : Intersects(rs[k - 1], rs[k])}

(* The last pair that intersects, which hostlist_coalesce comes to first.  *)
Near(rs) == Max(Hits(rs) \cup {0})

(* An assertion fails before the loop gets to that pair, or at it.         *)
Fails(rs) == \E j \in Wrong(rs) : j >= Near(rs)

(* Lists hostlist_coalesce is done with.                                   *)
Settled == {rs \in Lists : Fails(rs) \/ Hits(rs) = {}}

(* The places before which a list has how many names, as pairs of numbers: *)
(* a step of coalesce leaves fewer of them.                                *)
Slots(rs) == {c \in (1 .. Size(rs)) \X (0 .. Size(rs) - 1) : c[2] < CountBefore(rs, c[1])}

(* Before it is done there is such a pair, in order.                       *)
LEMMA NearIs ==
  ASSUME NEW rs \in Lists, rs \notin Settled
  PROVE  /\ Near(rs) \in 2 .. Len(rs) /\ Near(rs) \in Hits(rs)
         /\ Intersects(rs[Near(rs) - 1], rs[Near(rs)])
         /\ ~cmp_less(rs[Near(rs)], rs[Near(rs) - 1])
<1> DEFINE S == Hits(rs) \cup {0}
           k == Near(rs)
<1>1. Len(rs) \in Nat /\ Hits(rs) # {} /\ ~Fails(rs) /\ Hits(rs) \subseteq 2 .. Len(rs)
  BY ListIs DEF Settled, Hits, Pairs
<1>2. S \in SUBSET (0 .. Len(rs)) /\ S # {} /\ 0 \in Int /\ Len(rs) \in Int
  BY <1>1
<1>3. k \in S /\ \A y \in S : k >= y
  <2>1. k = Max(S)
    BY DEF Near
  <2> HIDE DEF S, k
  <2>2. QED
    BY <1>2, <2>1, MaxIs
<1> HIDE DEF k
<1>4. k \in Hits(rs) /\ k \in 2 .. Len(rs)
  <2>1. PICK y \in Hits(rs) : y >= 2
    BY <1>1
  <2>2. k >= y /\ y \in Int /\ k \in Int
    BY <1>1, <1>3
  <2>3. k # 0
    BY <2>1, <2>2
  <2>4. QED
    BY <1>1, <1>3, <2>3
<1>5. k \in Pairs(rs) /\ Intersects(rs[k - 1], rs[k])
  BY <1>4 DEF Hits
<1>6. ~cmp_less(rs[k], rs[k - 1])
  <2>1. k \notin Wrong(rs)
    BY <1>1, <1>4 DEF Fails, k
  <2>2. QED
    BY <1>5, <2>1 DEF Wrong
<1>7. QED
  BY <1>4, <1>5, <1>6 DEF k

(* To pull a pair apart leaves fewer places for its names to move to.      *)
LEMMA FewerSlots ==
  ASSUME NEW rs \in Lists
  PROVE  /\ Cardinality(Slots(rs)) \in Nat
         /\ rs \notin Settled => Cardinality(Slots(Pulled(rs, Near(rs)))) < Cardinality(Slots(rs))
<1> DEFINE N == Size(rs)
           All == (1 .. N) \X (0 .. N - 1)
           k == Near(rs)
           new == Pulled(rs, k)
<1>1. N \in Nat
  BY SizeIs
<1>2. IsFiniteSet(All)
  <2>1. 1 \in Int /\ N \in Int /\ 0 \in Int /\ N - 1 \in Int
    BY <1>1
  <2>2. IsFiniteSet(1 .. N) /\ IsFiniteSet(0 .. N - 1)
    BY <2>1, FS_Interval
  <2>3. QED
    BY <2>2, FS_Product
<1>3. Slots(rs) \subseteq All
  BY DEF Slots
<1> HIDE DEF All
<1>4. IsFiniteSet(Slots(rs))
  BY <1>2, <1>3, FS_Subset
<1>5. ASSUME rs \notin Settled
      PROVE  Cardinality(Slots(new)) < Cardinality(Slots(rs))
  <2>1. k \in 2 .. Len(rs) /\ Intersects(rs[k - 1], rs[k]) /\ ~cmp_less(rs[k], rs[k - 1])
    BY <1>5, NearIs
  <2> HIDE DEF k
  <2>2. /\ new \in Lists /\ Size(new) = N /\ k \in 1 .. N
           /\ CountBefore(new, k) < CountBefore(rs, k)
        /\ \A j \in 1 .. N : CountBefore(new, j) <= CountBefore(rs, j)
    BY <2>1, PulledIs
  <2> HIDE DEF new
  <2>3. \A j \in 1 .. N : CountBefore(new, j) \in 0 .. N /\ CountBefore(rs, j) \in 0 .. N
    BY <1>1, <2>2, CountInside
  <2>4. Slots(new) \subseteq Slots(rs)
    <3> SUFFICES ASSUME NEW c \in Slots(new) PROVE c \in Slots(rs)
      OBVIOUS
    <3>1. c \in (1 .. N) \X (0 .. N - 1) /\ c[2] < CountBefore(new, c[1])
      BY <2>2 DEF Slots
    <3>2. c[1] \in 1 .. N /\ c[2] \in 0 .. N - 1
      BY <3>1
    <3>3. c[2] < CountBefore(rs, c[1])
      <4>1. CountBefore(new, c[1]) <= CountBefore(rs, c[1])
        BY <2>2, <3>2
      <4>2. CountBefore(new, c[1]) \in Nat /\ CountBefore(rs, c[1]) \in Nat /\ c[2] \in Nat
        BY <1>1, <2>3, <3>2
      <4>3. QED
        BY <3>1, <4>1, <4>2
    <3>4. QED
      BY <3>1, <3>3 DEF Slots
  <2> DEFINE c == <<k, CountBefore(new, k)>>
  <2>5. CountBefore(new, k) \in 0 .. N - 1
    BY <1>1, <2>2, <2>3
  <2>6. c \in Slots(rs) /\ c \notin Slots(new)
    <3>1. c \in (1 .. N) \X (0 .. N - 1) /\ c[1] = k /\ c[2] = CountBefore(new, k)
      BY <2>2, <2>5
    <3>2. c[2] < CountBefore(rs, c[1]) /\ ~(c[2] < CountBefore(new, c[1]))
      BY <2>2, <2>5, <3>1
    <3> HIDE DEF c
    <3>3. QED
      BY <3>1, <3>2 DEF Slots
  <2>7. Slots(new) # Slots(rs)
    BY <2>6
  <2>8. QED
    <3>1. /\ IsFiniteSet(Slots(new)) /\ Cardinality(Slots(new)) <= Cardinality(Slots(rs))
          /\ Cardinality(Slots(new)) # Cardinality(Slots(rs))
      BY <1>4, <2>4, <2>7, FS_Subset
    <3>2. Cardinality(Slots(new)) \in Nat /\ Cardinality(Slots(rs)) \in Nat
      BY <1>4, <3>1, FS_CardinalityType
    <3>3. QED
      BY <3>1, <3>2
<1>6. QED
  BY <1>4, <1>5, FS_CardinalityType

(* Every step of hostlist_coalesce leads to a list with fewer such pairs.   *)
Measure == [s \in Lists |-> Cardinality(Slots(s))]

(* One round of hostlist_coalesce.                                         *)
Pull == [s \in Lists |-> IF s \in Settled THEN s ELSE Pulled(s, Near(s))]

(* A list has only finitely many rounds before it.                         *)
LEMMA PullDescends ==
  /\ Descends(Lists, Settled, Measure, Pull)
  /\ \A s \in Lists \ Settled :
        /\ Pull[s] = Pulled(s, Near(s))
        /\ Pulled(s, Near(s)) \in Lists /\ Size(Pulled(s, Near(s))) = Size(s)
<1>1. \A s \in Lists : s \notin Settled =>
           Pulled(s, Near(s)) \in Lists /\ Size(Pulled(s, Near(s))) = Size(s)
  BY NearIs, PulledIs
<1>2. Measure \in [Lists -> Nat]
  BY FewerSlots DEF Measure
<1>3. Pull \in [Lists -> Lists]
  BY <1>1 DEF Pull
<1>4. ASSUME NEW s \in Lists \ Settled
      PROVE Pull[s] = Pulled(s, Near(s)) /\ Measure[Pull[s]] < Measure[s]
  <2>1. Pull[s] = Pulled(s, Near(s)) /\ Pull[s] \in Lists
    BY <1>1 DEF Pull
  <2>2. Measure[Pull[s]] = Cardinality(Slots(Pulled(s, Near(s))))
        /\ Measure[s] = Cardinality(Slots(s))
    BY <2>1 DEF Measure
  <2>3. QED
    BY <2>1, <2>2, FewerSlots
<1>5. QED
  BY <1>1, <1>2, <1>3, <1>4 DEF Descends

(* The recursion of coalesce is sound: it has a value for every list.      *)
THEOREM CoalesceEnds ==
  ASSUME NEW rs \in Lists
  PROVE  /\ coalesce[rs] \in Lists \cup {NULL}
         /\ coalesce[rs] = IF Fails(rs) THEN NULL
                           ELSE IF Hits(rs) = {} THEN rs ELSE coalesce[Pulled(rs, Near(rs))]
<1> DEFINE V == Lists \cup {NULL}
           base == [s \in Lists |-> IF Fails(s) THEN NULL ELSE s]
           step == [p \in Lists \X V |-> p[2]]
           Is(f) == f = [s \in Seq(HostRange) |-> IF Fails(s) THEN NULL
                                ELSE IF Hits(s) = {} THEN s ELSE f[Pulled(s, Near(s))]]
<1>1. \A s \in Lists : s \notin Settled => Pulled(s, Near(s)) \in Lists
  BY PullDescends
<1>2. Descends(Lists, Settled, Measure, Pull)
  BY PullDescends
<1>3. base \in [Lists -> V] /\ step \in [Lists \X V -> V]
  OBVIOUS
<1>4. /\ \A s \in Lists \ Settled : Pull[s] = Pulled(s, Near(s))
      /\ \A s \in Lists : base[s] = IF Fails(s) THEN NULL ELSE s
      /\ \A s \in Lists, v \in V : step[<<s, v>>] = v
  BY PullDescends
<1> HIDE DEF base, step, V
<1>5. PICK f \in [Lists -> V] : Solves(f, Lists, Settled, Pull, base, step)
  BY <1>2, <1>3, Descent, Zenon
<1>6. Is(f)
  <2>1. ASSUME NEW s \in Lists
        PROVE  f[s] = IF Fails(s) THEN NULL ELSE IF Hits(s) = {} THEN s ELSE f[Pulled(s, Near(s))]
    <3>1. CASE s \in Settled
      <4>1. f[s] = base[s] /\ (Fails(s) \/ Hits(s) = {})
        BY <1>5, <3>1 DEF Solves, Settled
      <4>2. QED
        BY <1>4, <4>1
    <3>2. CASE s \notin Settled
      <4>1. f[s] = step[<<s, f[Pull[s]]>>] /\ ~Fails(s) /\ Hits(s) # {}
        BY <1>5, <3>2 DEF Solves, Settled
      <4>2. Pull[s] = Pulled(s, Near(s)) /\ Pull[s] \in Lists
        BY <1>1, <1>4, <3>2
      <4>3. f[Pull[s]] \in V
        BY <1>5, <4>2
      <4>4. QED
        BY <1>4, <4>1, <4>2, <4>3
    <3>3. QED
      BY <3>1, <3>2
  <2>2. QED
    BY <1>5, <2>1 DEF Lists
<1>7. coalesce = CHOOSE c : Is(c)
  BY DEF coalesce, Fails, Near, Hits, Wrong, Pairs, Pulled
<1>8. Is(coalesce)
  BY <1>6, <1>7
<1>9. \A s \in Lists : coalesce[s] = IF Fails(s) THEN NULL
                            ELSE IF Hits(s) = {} THEN s ELSE coalesce[Pulled(s, Near(s))]
  BY <1>8 DEF Lists
<1> HIDE DEF Is
<1> DEFINE S == {s \in Lists : coalesce[s] \in V}
<1>10. \A s \in Lists : s \in S
  <2>1. ASSUME NEW s \in Lists, s \in Settled \/ Pull[s] \in S PROVE s \in S
    <3>1. CASE s \in Settled
      BY <1>9, <3>1 DEF Settled, V
    <3>2. CASE s \notin Settled
      <4>1. coalesce[s] = coalesce[Pull[s]]
        BY <1>4, <1>9, <3>2 DEF Settled
      <4>2. QED
        BY <2>1, <3>2, <4>1
    <3>3. QED
      BY <3>1, <3>2
  <2> HIDE DEF S
  <2>2. QED
    BY <1>2, <2>1, DescentInduction
<1>11. QED
  BY <1>9, <1>10 DEF V

(* What hostlist_coalesce leaves has as many names as there were, and no   *)
(* two neighbours of it intersect or are in the wrong order, unless an     *)
(* assertion fails.                                                        *)
THEOREM CoalesceIs ==
  ASSUME NEW rs \in Lists
  PROVE  \/ coalesce[rs] = NULL
         \/ /\ coalesce[rs] \in Lists /\ Size(coalesce[rs]) = Size(rs)
            /\ Hits(coalesce[rs]) = {} /\ Wrong(coalesce[rs]) = {}
<1> DEFINE Right(s) == \/ coalesce[s] = NULL
                       \/ /\ coalesce[s] \in Lists /\ Size(coalesce[s]) = Size(s)
                          /\ Hits(coalesce[s]) = {} /\ Wrong(coalesce[s]) = {}
           S == {s \in Lists : Right(s)}
<1>1. \A s \in Lists : s \notin Settled =>
           Pulled(s, Near(s)) \in Lists /\ Size(Pulled(s, Near(s))) = Size(s)
  BY PullDescends
<1>2. Descends(Lists, Settled, Measure, Pull)
  BY PullDescends
<1>3. ASSUME NEW s \in Lists, s \in Settled \/ Pull[s] \in S PROVE s \in S
  <2>1. coalesce[s] = IF Fails(s) THEN NULL
                      ELSE IF Hits(s) = {} THEN s ELSE coalesce[Pulled(s, Near(s))]
    BY CoalesceEnds
  <2>2. CASE Fails(s)
    BY <2>1, <2>2
  <2>3. CASE ~Fails(s) /\ Hits(s) = {}
    <3>1. coalesce[s] = s
      BY <2>1, <2>3
    <3>2. Near(s) = 0
      <4>1. Near(s) = Max({0})
        BY <2>3 DEF Near
      <4>2. {0} \in SUBSET (0 .. 0) /\ {0} # {} /\ 0 \in Int
        OBVIOUS
      <4>3. Max({0}) \in {0}
        BY <4>2, MaxIs
      <4>4. QED
        BY <4>1, <4>3
    <3>3. Wrong(s) = {}
      <4>1. \A j \in Wrong(s) : j >= 0
        BY ListIs DEF Wrong, Pairs
      <4>2. QED
        BY <2>3, <3>2, <4>1 DEF Fails
    <3>4. QED
      BY <2>3, <3>1, <3>3
  <2>4. CASE ~Fails(s) /\ Hits(s) # {}
    <3>1. s \notin Settled /\ coalesce[s] = coalesce[Pulled(s, Near(s))]
      BY <2>1, <2>4 DEF Settled
    <3>2. Pull[s] = Pulled(s, Near(s)) /\ Size(Pulled(s, Near(s))) = Size(s)
      BY <3>1, PullDescends
    <3>3. Right(Pulled(s, Near(s)))
      BY <1>3, <3>1, <3>2
    <3>4. QED
      BY <3>1, <3>2, <3>3
  <2>5. QED
    BY <2>2, <2>3, <2>4
<1> HIDE DEF S
<1>4. \A s \in Lists : s \in S
  BY <1>2, <1>3, DescentInduction
<1>5. QED
  BY <1>4 DEF S

(* hostlist_sort leaves as many names as there were.                       *)
LEMMA CoalescedIs ==
  ASSUME NEW rs \in Lists
  PROVE  \/ coalesced(rs) = NULL
         \/ coalesced(rs) \in Lists /\ Size(coalesced(rs)) = Size(rs)
<1>1. CASE coalesce[rs] = NULL
  BY <1>1 DEF coalesced
<1>2. CASE coalesce[rs] # NULL
  BY <1>2, CoalesceIs, CollapseIs DEF coalesced
<1>3. QED
  BY <1>1, <1>2

(* The inductive invariant: the count of names is right, and an iterator   *)
(* that keeps its place points at a range of the list or behind it, is     *)
(* behind it only after it returned a name, and knows which.               *)
Tracks == {"none", "name", "range", "lost"}

(* An iterator that is in use stands somewhere.                            *)
Placed == \A i \in Iter : track[i] \in {"name", "range"} => InPlace(hl.ilist[i], hl.hr)

(* The inductive invariant: the count is right or known to be one too low, *)
(* and iterators in use are in place.                                      *)
HlInv == hl \in Counted(short) /\ short \in {0, 1} /\ track \in [Iter -> Tracks] /\ Placed

(* Those a call does not lose have their place in the list l it leaves.    *)
Keeps(l, lost) ==
    \A i \in Iter : track[i] \in {"name", "range"} /\ i \notin lost /\ l.hr # <<>>
                    => InPlace(l.ilist[i], l.hr)

(* The end of an action that leaves some iterators behind.                 *)
LEMMA ThenIs ==
  ASSUME HlInv, NEW l \in Counted(short), NEW lost, Keeps(l, lost),
         Then(l, lost), UNCHANGED short
  PROVE  HlInv'
<1> DEFINE gone == {i \in Iter : track[i] # "none" /\ (i \in lost \/ l.hr = <<>>)}
           its == [i \in Iter |-> IF i \in gone THEN NoIter ELSE l.ilist[i]]
<1>1. l \in [hr : Lists, nhosts : Int, ilist : [Iter -> Iterator]] 
      /\ l.nhosts = Size(l.hr) - short
  BY DEF Counted, HostLists
<1>2. hl' = [l EXCEPT !.ilist = its]
      /\ track' = [i \in Iter |-> IF i \in gone THEN "lost" ELSE track[i]]
  BY DEF Then
<1>3. its \in [Iter -> Iterator]
  <2>1. NoIter \in Iterator
    BY DEF NoIter, Iterator
  <2>2. l.ilist \in [Iter -> Iterator]
    BY <1>1
  <2> HIDE DEF gone
  <2>3. QED
    BY <2>1, <2>2
<1>4. \A i \in Iter : its[i] = IF i \in gone THEN NoIter ELSE l.ilist[i]
  OBVIOUS
<1> HIDE DEF its
<1>5. [l EXCEPT !.ilist = its] = [hr |-> l.hr, nhosts |-> l.nhosts, ilist |-> its]
  BY <1>1
<1>6. hl'.hr = l.hr /\ hl'.nhosts = l.nhosts /\ hl'.ilist = its /\ hl' \in HostLists
  BY <1>1, <1>2, <1>3, <1>5 DEF HostLists
<1>7. hl' \in Counted(short)
  BY <1>1, <1>6 DEF Counted
<1>8. track' \in [Iter -> Tracks]
  BY <1>2 DEF HlInv, Tracks
<1>9. Placed'
  <2>1. ASSUME NEW i \in Iter, track'[i] \in {"name", "range"} PROVE InPlace(hl'.ilist[i], hl'.hr)
    <3>1. i \notin gone /\ track'[i] = track[i]
      BY <1>2, <2>1
    <3>2. i \notin lost /\ l.hr # <<>> /\ hl'.ilist[i] = l.ilist[i]
      BY <1>4, <1>6, <2>1, <3>1
    <3>3. QED
      BY <1>6, <2>1, <3>1, <3>2 DEF Keeps
  <2>2. QED
    BY <2>1 DEF Placed
<1>10. QED
  BY <1>7, <1>8, <1>9 DEF HlInv, Counted

(* What the invariant says of the list.                                    *)
LEMMA ListHas ==
  ASSUME HlInv
  PROVE  /\ hl \in HostLists /\ hl.hr \in Lists /\ hl.nhosts = Size(hl.hr) - short
            /\ hl.ilist \in [Iter -> Iterator]
         /\ short \in {0, 1} /\ Size(hl.hr) \in Nat /\ Len(hl.hr) \in Nat /\ hl.nhosts \in Int
         /\ \A i \in Iter : hl.ilist[i].idx \in Nat /\ hl.ilist[i].depth \in Int
         /\ \A i \in Iter : track[i] \in {"name", "range"} => InPlace(hl.ilist[i], hl.hr)
<1>1. hl \in HostLists /\ hl.hr \in Lists /\ hl.nhosts = Size(hl.hr) - short
      /\ hl.ilist \in [Iter -> Iterator] /\ short \in {0, 1}
  BY DEF HlInv, Counted, HostLists
<1>2. \A i \in Iter : hl.ilist[i].idx \in Nat /\ hl.ilist[i].depth \in Int
  BY <1>1 DEF Iterator
<1>3. QED
  BY <1>1, <1>2, SizeIs, ListIs DEF HlInv, Placed

(* A list with other ranges and another count.                             *)
Refilled(l, rs, n) == [l EXCEPT !.hr = rs, !.nhosts = n]

LEMMA WithList ==
  ASSUME NEW l \in HostLists, NEW rs \in Lists, NEW n \in Int
  PROVE  /\ Refilled(l, rs, n) \in HostLists /\ Refilled(l, rs, n).hr = rs
         /\ Refilled(l, rs, n).nhosts = n /\ Refilled(l, rs, n).ilist = l.ilist
<1>1. l \in [hr : Lists, nhosts : Int, ilist : [Iter -> Iterator]]
  BY DEF HostLists
<1>2. [l EXCEPT !.hr = rs, !.nhosts = n] = [hr |-> rs, nhosts |-> n, ilist |-> l.ilist]
  <2>1. [l EXCEPT !.hr = rs] = [hr |-> rs, nhosts |-> l.nhosts, ilist |-> l.ilist]
    BY <1>1
  <2>2. [[hr |-> rs, nhosts |-> l.nhosts, ilist |-> l.ilist] EXCEPT !.nhosts = n]
          = [hr |-> rs, nhosts |-> n, ilist |-> l.ilist]
    OBVIOUS
  <2>3. [l EXCEPT !.hr = rs, !.nhosts = n] = [[l EXCEPT !.hr = rs] EXCEPT !.nhosts = n]
    OBVIOUS
  <2>4. QED
    BY <2>1, <2>2, <2>3
<1>3. [hr |-> rs, nhosts |-> n, ilist |-> l.ilist] \in HostLists
  BY <1>1 DEF HostLists
<1>4. QED
  BY <1>2, <1>3 DEF Refilled

(* hostlist_push keeps it.                                                 *)
LEMMA PushKeeps ==
  ASSUME HlInv, NEW rs \in Lists, hostlist_push(rs)
  PROVE  HlInv'
<1> DEFINE new == push_ranges(hl.hr, rs)
           m == [hl EXCEPT !.hr = new, !.nhosts = Size(new) - short]
           l == [hl EXCEPT !.hr = push_ranges(@, rs), !.nhosts = @ + Size(rs)]
           lost == {i \in Iter : place(i) > Size(hl.hr)} \cup Ranged
<1>1. /\ hl \in HostLists /\ hl.hr \in Lists /\ hl.nhosts = Size(hl.hr) - short
      /\ short \in {0, 1} /\ Size(hl.hr) \in Nat /\ Len(hl.hr) \in Nat
      /\ \A i \in Iter : hl.ilist[i].idx \in Nat /\ hl.ilist[i].depth \in Int
      /\ \A i \in Iter : track[i] \in {"name", "range"} => InPlace(hl.ilist[i], hl.hr)
  BY ListHas
<1>2. new \in Lists /\ Size(new) = Size(hl.hr) + Size(rs) /\ Len(new) >= Len(hl.hr)
      /\ Len(new) \in Nat
  BY <1>1, PushRanges, NotEmpty
<1>3. l = m /\ Then(l, lost) /\ UNCHANGED short
  <2>1. hl.nhosts + Size(rs) = Size(new) - short
    <3> DEFINE a == Size(hl.hr)
               b == Size(rs)
    <3>1. a \in Int /\ b \in Int /\ short \in Int
      BY <1>1, SizeIs
    <3>2. hl.nhosts = a - short /\ Size(new) = a + b
      BY <1>1, <1>2
    <3> HIDE DEF a, b, new
    <3>3. hl.nhosts + b = Size(new) - short
      BY <3>1, <3>2
    <3>4. QED
      BY <3>3 DEF b
  <2>2. l = m
    BY <2>1
  <2>3. Then(l, lost) /\ UNCHANGED short
    BY DEF hostlist_push, Sound
  <2>4. QED
    BY <2>2, <2>3
<1>4. m \in Counted(short) /\ m.hr = new /\ m.ilist = hl.ilist
  <2>1. short \in Int
    BY <1>1
  <2> DEFINE n == Size(new) - short
             f == Refilled(hl, new, n)
  <2>2. n \in Int
    BY <1>2, <2>1, SizeIs
  <2>3. m = f
    BY DEF Refilled
  <2> HIDE DEF new, l, n, m
  <2>4. f \in HostLists /\ f.hr = new /\ f.nhosts = n /\ f.ilist = hl.ilist
    <3>1. hl \in HostLists
      BY <1>1
    <3>2. new \in Lists
      BY <1>2
    <3>3. QED
      BY <2>2, <3>1, <3>2, WithList
  <2> HIDE DEF f
  <2>5. QED
    BY <2>3, <2>4 DEF n, Counted
<1> HIDE DEF m, l, new
<1>5. Keeps(m, lost)
  <2>1. ASSUME NEW i \in Iter, track[i] \in {"name", "range"}, i \notin lost, m.hr # <<>>
        PROVE  InPlace(m.ilist[i], m.hr)
    <3> DEFINE it == hl.ilist[i]
    <3>1. InPlace(it, hl.hr) /\ it.idx \in Nat /\ it.depth \in Int
      BY <1>1, <2>1
    <3>2. place(i) = CountBefore(hl.hr, it.idx) + it.depth + 1 /\ ~(place(i) > Size(hl.hr))
      BY <2>1 DEF place
    <3>3. it.idx <= Len(hl.hr)
      <4> SUFFICES ASSUME it.idx > Len(hl.hr) PROVE FALSE
        BY <1>1, <3>1
      <4>1. it.depth >= 0 /\ it.idx \in Nat \ {0}
        BY <1>1, <3>1 DEF InPlace
      <4>2. CountBefore(hl.hr, it.idx) = Size(hl.hr)
        BY <1>1, <4>1, CountInside
      <4>3. QED
        BY <1>1, <3>1, <3>2, <4>1, <4>2
    <3> HIDE DEF it
    <3>4. InPlace(it, new)
      <4>1. it.idx <= Len(new) /\ ~(it.idx > Len(new))
        BY <1>1, <1>2, <3>1, <3>3
      <4>2. QED
        BY <1>4, <2>1, <3>1, <3>3, <4>1 DEF InPlace
    <3>5. QED
      BY <1>4, <3>4 DEF it
  <2> HIDE DEF lost
  <2>2. QED
    BY <2>1 DEF Keeps
<1> HIDE DEF lost
<1>6. QED
  BY <1>3, <1>4, <1>5, ThenIs

(* A list with another count.                                              *)
LEMMA WithCount ==
  ASSUME NEW l \in HostLists, NEW n \in Int
  PROVE  LET m == [l EXCEPT !.nhosts = n] IN
         m \in HostLists /\ m.hr = l.hr /\ m.nhosts = n /\ m.ilist = l.ilist
<1>1. l \in [hr : Lists, nhosts : Int, ilist : [Iter -> Iterator]]
  BY DEF HostLists
<1>2. [l EXCEPT !.nhosts = n] = [hr |-> l.hr, nhosts |-> n, ilist |-> l.ilist]
  BY <1>1
<1>3. [hr |-> l.hr, nhosts |-> n, ilist |-> l.ilist] \in HostLists
  BY <1>1 DEF HostLists
<1>4. QED
  BY <1>2, <1>3

(* A list without its ranges after the first n.                            *)
LEMMA CutIs ==
  ASSUME NEW l \in HostLists, NEW n \in 0 .. Len(l.hr)
  PROVE  /\ cut(l, n) \in HostLists /\ cut(l, n).hr = SubSeq(l.hr, 1, n)
            /\ cut(l, n).nhosts = l.nhosts
         /\ \A i \in Iter : InPlace(l.ilist[i], l.hr) /\ l.ilist[i].idx <= n
                            => InPlace(cut(l, n).ilist[i], cut(l, n).hr)
<1> DEFINE rs == SubSeq(l.hr, 1, n)
           new(it) == [it EXCEPT !.fresh = it.fresh /\ it.idx <= n]
           its == [i \in Iter |-> new(l.ilist[i])]
           d == cut(l, n)
<1>1. l.hr \in Lists /\ l.nhosts \in Int /\ l.ilist \in [Iter -> Iterator] /\ Len(l.hr) \in Nat
  BY ListIs DEF HostLists
<1>2. rs \in Lists /\ Len(rs) = n /\ n \in Nat
  <2>1. 1 \in 1 .. Len(l.hr) + 1 /\ n \in 1 - 1 .. Len(l.hr) /\ n - 1 + 1 = n
    BY <1>1
  <2>2. rs \in Lists /\ Len(rs) = n - 1 + 1
    BY <1>1, <2>1, PartSize
  <2>3. QED
    BY <1>1, <2>1, <2>2
<1>3. ASSUME NEW it \in Iterator
      PROVE  /\ new(it) \in Iterator /\ new(it).idx = it.idx /\ new(it).depth = it.depth
             /\ new(it).fresh <=> it.fresh /\ it.idx <= n
  <2> DEFINE p == it.fresh /\ it.idx <= n
  <2>1. p \in BOOLEAN
    OBVIOUS
  <2>2. new(it) = [it EXCEPT !.fresh = p]
    OBVIOUS
  <2>3. it \in [idx : Nat, depth : Int, fresh : BOOLEAN]
    BY DEF Iterator
  <2> DEFINE q == it.idx
             r == it.depth
  <2>4. q \in Nat /\ r \in Int
    BY <2>3
  <2> DEFINE x == new(it)
  <2>5. x = [idx |-> q, depth |-> r, fresh |-> p]
    <3> HIDE DEF p, new
    <3>1. QED
      BY <2>2, <2>3, Zenon DEF q, r
  <2> HIDE DEF p, q, r, x, new
  <2>6. x \in Iterator /\ x.idx = q /\ x.depth = r /\ x.fresh = p
    BY <2>1, <2>4, <2>5 DEF Iterator
  <2>7. QED
    BY <2>6 DEF x, p, q, r
<1>4. d = [l EXCEPT !.hr = rs, !.ilist = its]
  BY DEF cut
<1>5. its \in [Iter -> Iterator] /\ \A i \in Iter : its[i] = new(l.ilist[i])
  <2> HIDE DEF new
  <2>1. QED
    BY <1>1, <1>3
<1> HIDE DEF its, new, rs, d
<1>6. d = [hr |-> rs, nhosts |-> l.nhosts, ilist |-> its]
  <2>1. l \in [hr : Lists, nhosts : Int, ilist : [Iter -> Iterator]]
    BY DEF HostLists
  <2>2. [l EXCEPT !.hr = rs] = [hr |-> rs, nhosts |-> l.nhosts, ilist |-> l.ilist]
    BY <2>1
  <2>3. [l EXCEPT !.hr = rs, !.ilist = its] = [[l EXCEPT !.hr = rs] EXCEPT !.ilist = its]
    OBVIOUS
  <2>4. [[hr |-> rs, nhosts |-> l.nhosts, ilist |-> l.ilist] EXCEPT !.ilist = its]
          = [hr |-> rs, nhosts |-> l.nhosts, ilist |-> its]
    OBVIOUS
  <2>5. QED
    BY <1>4, <2>2, <2>3, <2>4
<1>7. d \in HostLists /\ d.hr = rs /\ d.nhosts = l.nhosts /\ d.ilist = its
  BY <1>1, <1>2, <1>5, <1>6 DEF HostLists
<1>8. ASSUME NEW i \in Iter, InPlace(l.ilist[i], l.hr), l.ilist[i].idx <= n
      PROVE  InPlace(d.ilist[i], d.hr)
  <2> DEFINE it == l.ilist[i]
             x == its[i]
  <2>1. it \in Iterator /\ it.idx \in Nat /\ it.idx >= 1 /\ it.depth >= -1 /\ it.fresh
    <3>1. it \in Iterator /\ it.idx \in Nat
      BY <1>1 DEF Iterator
    <3>2. it.idx <= Len(l.hr)
      BY <1>1, <1>8, <3>1
    <3>3. QED
      BY <1>8, <3>1, <3>2 DEF InPlace
  <2>2. x.idx = it.idx /\ x.depth = it.depth /\ (x.fresh <=> it.fresh /\ it.idx <= n)
    BY <1>3, <1>5, <2>1
  <2>3. rs # <<>> /\ it.idx <= n
    <3>1. n # 0
      BY <1>2, <1>8, <2>1
    <3>2. QED
      BY <1>2, <1>8, <3>1, NotEmpty
  <2> HIDE DEF it, x
  <2>4. InPlace(x, rs)
    BY <1>2, <2>1, <2>2, <2>3 DEF InPlace
  <2>5. QED
    BY <1>7, <2>4 DEF x
<1>9. QED
  BY <1>7, <1>8 DEF d, rs

(* hostlist_pop keeps it.                                                  *)
LEMMA PopKeeps ==
  ASSUME HlInv, hostlist_pop
  PROVE  HlInv'
<1> DEFINE n == Len(hl.hr)
           h == hl.hr[n]
           rest == [Last(hl.hr) EXCEPT !.hi = @ - 1]
           l == [hl EXCEPT !.nhosts = @ - 1]
           m == IF rest.single \/ empty(rest) THEN cut(l, n - 1) ELSE [l EXCEPT !.hr[n] = rest]
           lost == {i \in Iter : place(i) >= Size(hl.hr) - 1} \cup Ranged
<1>1. /\ hl \in HostLists /\ hl.hr \in Lists 
      /\ hl.nhosts = Size(hl.hr) - short /\ hl.nhosts \in Int /\ short \in {0, 1}
      /\ Size(hl.hr) \in Nat /\ n \in Nat
      /\ \A i \in Iter : hl.ilist[i].idx \in Nat /\ hl.ilist[i].depth \in Int
      /\ \A i \in Iter : track[i] \in {"name", "range"} => InPlace(hl.ilist[i], hl.hr)
  BY ListHas
<1>2. hl.nhosts > 0 /\ Then(m, lost) /\ UNCHANGED short
  BY DEF hostlist_pop, Sound
<1>3. n # 0 /\ n \in 1 .. n /\ h \in HostRange
  <2>1. n # 0
    BY <1>1, <1>2, SizeIs, NotEmpty
  <2>2. QED
    BY <1>1, <2>1, ListIs
<1>4. l \in HostLists /\ l.hr = hl.hr /\ l.nhosts = hl.nhosts - 1 /\ l.ilist = hl.ilist
  <2>1. hl.nhosts - 1 \in Int
    BY <1>1
  <2>2. QED
    BY <1>1, <2>1, WithCount
<1>5. /\ h.lo \in Nat /\ h.hi \in Nat /\ h.lo <= h.hi /\ h.single \in BOOLEAN
      /\ (h.single => h.lo = 0 /\ h.hi = 0) /\ count(h) = h.hi - h.lo + 1
  BY <1>3, RangeIs
<1>6. rest = Bounded(h, h.lo, h.hi - 1)
  BY <1>3, OtherEnd DEF Last
<1>7. rest.single = h.single /\ rest.lo = h.lo /\ rest.hi = h.hi - 1
  <2> HIDE DEF rest, h
  <2>1. QED
    BY <1>6 DEF Bounded
<1>8. CountBefore(hl.hr, n) = Size(hl.hr) - count(h) /\ CountBefore(hl.hr, n) \in Nat
  <2>1. n \in 1 .. Len(hl.hr) + 1
    BY <1>1, <1>3
  <2>2. CountBefore(hl.hr, n + 1) = CountBefore(hl.hr, n) + count(h)
        /\ CountBefore(hl.hr, n) \in Nat
    BY <1>1, <1>3, <2>1, Counts
  <2>3. QED
    BY <1>5, <2>2 DEF Size
<1> HIDE DEF l, rest, h
<1>9. CASE rest.single \/ empty(rest)
  <2>1. count(h) = 1
    BY <1>5, <1>7, <1>9 DEF empty
  <2>2. m = cut(l, n - 1) /\ n - 1 \in 0 .. Len(l.hr)
    BY <1>1, <1>3, <1>4, <1>9
  <2>3. /\ m \in HostLists /\ m.hr = SubSeq(hl.hr, 1, n - 1) /\ m.nhosts = hl.nhosts - 1
        /\ \A i \in Iter : InPlace(hl.ilist[i], hl.hr) /\ hl.ilist[i].idx <= n - 1
                 => InPlace(m.ilist[i], m.hr)
    <3> HIDE DEF m, n
    <3>1. QED
      BY <1>4, <2>2, CutIs
  <2> HIDE DEF m
  <2>4. m \in Counted(short)
    <3>1. 1 \in 1 .. Len(hl.hr) + 1 /\ n - 1 \in 1 - 1 .. Len(hl.hr) /\ (n - 1) + 1 = n
      BY <1>1, <1>3
    <3>2. Size(SubSeq(hl.hr, 1, n - 1)) = CountBefore(hl.hr, (n - 1) + 1) - CountBefore(hl.hr, 1)
      BY <1>1, <3>1, PartSize
    <3>3. CountBefore(hl.hr, 1) = 0
      BY <1>1, Counts
    <3>4. Size(m.hr) = Size(hl.hr) - 1
      BY <1>1, <1>8, <2>1, <2>3, <3>1, <3>2, <3>3
    <3>5. m.nhosts = Size(m.hr) - short
      BY <1>1, <2>3, <3>4
    <3>6. QED
      BY <2>3, <3>5 DEF Counted
  <2>5. Keeps(m, lost)
    <3>1. ASSUME NEW i \in Iter, track[i] \in {"name", "range"}, i \notin lost
          PROVE  hl.ilist[i].idx <= n - 1
      <4> DEFINE it == hl.ilist[i]
      <4>1. InPlace(it, hl.hr) /\ it.idx \in Nat \ {0} /\ it.depth \in Int /\ it.depth >= -1
        BY <1>1, <3>1 DEF InPlace
      <4>2. ~(CountBefore(hl.hr, it.idx) + it.depth + 1 >= Size(hl.hr) - 1)
        BY <3>1 DEF place
      <4> HIDE DEF it
      <4>3. CountBefore(hl.hr, it.idx) \in 0 .. Size(hl.hr)
            /\ (it.idx > n => CountBefore(hl.hr, it.idx) = Size(hl.hr))
        BY <1>1, <4>1, CountInside
      <4>4. it.idx # n
        BY <1>1, <1>8, <2>1, <4>1, <4>2
      <4>5. ~(it.idx > n)
        BY <1>1, <4>1, <4>2, <4>3
      <4>6. it.idx <= n - 1
        BY <1>1, <4>1, <4>4, <4>5
      <4>7. QED
        BY <4>6 DEF it
    <3> HIDE DEF lost
    <3>2. QED
      BY <1>1, <2>3, <3>1 DEF Keeps
  <2>6. QED
    BY <1>2, <2>4, <2>5, ThenIs
<1>10. CASE ~(rest.single \/ empty(rest))
  <2>1. rest \in HostRange /\ count(rest) = count(h) - 1
    <3>1. ~h.single /\ h.hi - 1 \in Nat /\ h.lo <= h.hi - 1
      BY <1>5, <1>7, <1>10 DEF empty
    <3>2. rest \in HostRange /\ count(rest) = (h.hi - 1) - h.lo + 1
      BY <1>3, <1>5, <1>6, <3>1, BoundedIs
    <3>3. QED
      BY <1>5, <3>2
  <2>2. /\ m \in HostLists /\ m.nhosts = hl.nhosts - 1 /\ m.ilist = hl.ilist /\ m.hr # <<>>
        /\ Len(m.hr) = n /\ Size(m.hr) = Size(hl.hr) + count(rest) - count(h)
    <3>1. n \in 1 .. Len(l.hr) /\ l.hr[n] = h /\ m = [l EXCEPT !.hr[n] = rest]
      BY <1>3, <1>4, <1>10 DEF h
    <3> HIDE DEF m, n
    <3>2. /\ m \in HostLists /\ m.nhosts = l.nhosts /\ m.ilist = l.ilist /\ m.hr # <<>>
          /\ Len(m.hr) = Len(l.hr) /\ Size(m.hr) = Size(l.hr) + count(rest) - count(l.hr[n])
      BY <1>4, <2>1, <3>1, WithRange
    <3>3. QED
      BY <1>4, <3>1, <3>2 DEF n
  <2> HIDE DEF m
  <2>3. m \in Counted(short)
    BY <1>1, <1>5, <2>1, <2>2 DEF Counted
  <2>4. Keeps(m, lost)
    BY <1>1, <2>2 DEF Keeps, InPlace
  <2>5. QED
    BY <1>2, <2>3, <2>4, ThenIs
<1>11. QED
  BY <1>9, <1>10

(* hostlist_shift keeps it.                                                *)
LEMMA ShiftKeeps ==
  ASSUME HlInv, hostlist_shift
  PROVE  HlInv'
<1> DEFINE n == Len(hl.hr)
           h == hl.hr[1]
           rest == [hl.hr[1] EXCEPT !.lo = @ + 1]
           l == [hl EXCEPT !.nhosts = @ - 1]
           back(it) == IF it.idx = 1 /\ it.depth >= 0 THEN [it EXCEPT !.depth = @ - 1] ELSE it
           m == IF rest.single \/ empty(rest) THEN delete_range(l, 1)
                ELSE [l EXCEPT !.hr[1] = rest, !.ilist = [i \in Iter |-> back(@[i])]]
<1>1. /\ hl \in HostLists /\ hl.hr \in Lists 
      /\ hl.nhosts = Size(hl.hr) - short /\ hl.nhosts \in Int /\ short \in {0, 1}
      /\ Size(hl.hr) \in Nat /\ n \in Nat
      /\ \A i \in Iter : hl.ilist[i].idx \in Nat /\ hl.ilist[i].depth \in Int
      /\ \A i \in Iter : track[i] \in {"name", "range"} => InPlace(hl.ilist[i], hl.hr)
      /\ hl.ilist \in [Iter -> Iterator]
  BY ListHas
<1>2. hl.nhosts > 0 /\ Then(m, Ranged) /\ UNCHANGED short
  BY DEF hostlist_shift, Sound
<1>3. n # 0 /\ 1 \in 1 .. n /\ h \in HostRange
  <2>1. n # 0
    BY <1>1, <1>2, SizeIs, NotEmpty
  <2>2. QED
    BY <1>1, <2>1, ListIs
<1>4. l \in HostLists /\ l.hr = hl.hr /\ l.nhosts = hl.nhosts - 1 /\ l.ilist = hl.ilist
  <2>1. hl.nhosts - 1 \in Int
    BY <1>1
  <2>2. QED
    BY <1>1, <2>1, WithCount
<1>5. /\ h.lo \in Nat /\ h.hi \in Nat /\ h.lo <= h.hi /\ h.single \in BOOLEAN
      /\ (h.single => h.lo = 0 /\ h.hi = 0) /\ count(h) = h.hi - h.lo + 1
  BY <1>3, RangeIs
<1>6. rest = Bounded(h, h.lo + 1, h.hi)
  BY <1>3, OtherEnd
<1>7. rest.single = h.single /\ rest.lo = h.lo + 1 /\ rest.hi = h.hi
  <2> HIDE DEF rest, h
  <2>1. QED
    BY <1>6 DEF Bounded
<1> HIDE DEF l, rest, h
<1>8. CASE rest.single \/ empty(rest)
  <2>1. count(h) = 1
    BY <1>5, <1>7, <1>8 DEF empty
  <2>2. m = delete_range(l, 1) /\ 1 \in 1 .. Len(l.hr)
    BY <1>3, <1>4, <1>8
  <2> HIDE DEF m
  <2>3. /\ m \in HostLists /\ m.nhosts = hl.nhosts - 1 /\ Size(m.hr) = Size(hl.hr) - count(h)
        /\ \A i \in Iter : InPlace(hl.ilist[i], hl.hr) /\ hl.ilist[i].idx >= 1 /\ m.hr # <<>>
                           => InPlace(m.ilist[i], m.hr)
    BY <1>4, <2>2, DeleteRange DEF h
  <2>4. m \in Counted(short)
    BY <1>1, <2>1, <2>3 DEF Counted
  <2>5. Keeps(m, Ranged)
    BY <1>1, <2>3 DEF Keeps, InPlace
  <2>6. QED
    BY <1>2, <2>4, <2>5, ThenIs
<1>9. CASE ~(rest.single \/ empty(rest))
  <2>1. rest \in HostRange /\ count(rest) = count(h) - 1
    <3>1. ~h.single /\ h.lo + 1 \in Nat /\ h.lo + 1 <= h.hi
      BY <1>5, <1>7, <1>9 DEF empty
    <3>2. rest \in HostRange /\ count(rest) = h.hi - (h.lo + 1) + 1
      BY <1>3, <1>5, <1>6, <3>1, BoundedIs
    <3>3. QED
      BY <1>5, <3>2
  <2> DEFINE k == [l EXCEPT !.hr[1] = rest]
             its == [i \in Iter |-> back(hl.ilist[i])]
  <2>2. /\ k \in HostLists /\ k.nhosts = hl.nhosts - 1 /\ k.ilist = hl.ilist /\ k.hr # <<>>
        /\ Len(k.hr) = n /\ Size(k.hr) = Size(hl.hr) + count(rest) - count(h)
    <3>1. 1 \in 1 .. Len(l.hr) /\ l.hr[1] = h
      BY <1>3, <1>4 DEF h
    <3> HIDE DEF k
    <3>2. /\ k \in HostLists /\ k.nhosts = l.nhosts /\ k.ilist = l.ilist /\ k.hr # <<>>
          /\ Len(k.hr) = Len(l.hr) /\ Size(k.hr) = Size(l.hr) + count(rest) - count(l.hr[1])
      BY <1>4, <2>1, <3>1, WithRange DEF k
    <3>3. QED
      BY <1>4, <3>1, <3>2
  <2>3. m = [k EXCEPT !.ilist = its]
    BY <1>4, <1>9
  <2>4. ASSUME NEW it \in Iterator
        PROVE  /\ back(it) \in Iterator
               /\ InPlace(it, hl.hr) => InPlace(back(it), k.hr)
    <3>1. it.idx \in Nat /\ it.depth \in Int /\ it \in [idx : Nat, depth : Int, fresh : BOOLEAN]
      <4>1. it \in [idx : Nat, depth : Int, fresh : BOOLEAN]
        BY DEF Iterator
      <4>2. QED
        BY <4>1
    <3>2. CASE it.idx = 1 /\ it.depth >= 0
      <4> DEFINE p == it.fresh
                 d == it.depth - 1
                 x == back(it)
      <4>1. p \in BOOLEAN /\ d \in Int /\ d >= -1
        BY <3>1, <3>2
      <4>2. x = [idx |-> it.idx, depth |-> d, fresh |-> p]
        BY <3>1, <3>2
      <4> HIDE DEF p, d, x, back
      <4>3. x \in Iterator /\ x.idx = it.idx /\ x.depth = d /\ x.fresh = p
        BY <3>1, <4>1, <4>2 DEF Iterator
      <4>4. InPlace(it, hl.hr) => InPlace(x, k.hr)
        BY <1>1, <1>3, <2>2, <3>2, <4>1, <4>3 DEF InPlace, p
      <4>5. QED
        BY <4>3, <4>4 DEF x
    <3>3. CASE ~(it.idx = 1 /\ it.depth >= 0)
      <4>1. back(it) = it
        BY <3>3
      <4>2. InPlace(it, hl.hr) => InPlace(it, k.hr)
        BY <2>2 DEF InPlace
      <4>3. QED
        BY <4>1, <4>2
    <3>4. QED
      BY <3>2, <3>3
  <2>5. its \in [Iter -> Iterator] /\ \A i \in Iter : its[i] = back(hl.ilist[i])
    <3> HIDE DEF back
    <3>1. QED
      BY <1>1, <2>4
  <2> HIDE DEF back, its, k, m
  <2>6. m = [hr |-> k.hr, nhosts |-> k.nhosts, ilist |-> its]
    BY <2>2, <2>3 DEF HostLists
  <2>7. m \in HostLists /\ m.hr = k.hr /\ m.nhosts = k.nhosts /\ m.ilist = its
    <3>1. k.hr \in Lists /\ k.nhosts \in Int
      BY <2>2 DEF HostLists
    <3>2. QED
      BY <2>5, <2>6, <3>1 DEF HostLists
  <2>8. m \in Counted(short)
    BY <1>1, <1>5, <2>1, <2>2, <2>7 DEF Counted
  <2>9. Keeps(m, Ranged)
    <3>1. ASSUME NEW i \in Iter, track[i] \in {"name", "range"} PROVE InPlace(m.ilist[i], m.hr)
      <4>1. hl.ilist[i] \in Iterator /\ InPlace(hl.ilist[i], hl.hr)
        BY <1>1, <3>1
      <4>2. QED
        BY <2>4, <2>5, <2>7, <4>1
    <3>2. QED
      BY <3>1 DEF Keeps
  <2>10. QED
    BY <1>2, <2>8, <2>9, ThenIs
<1>10. QED
  BY <1>8, <1>9

(* A step that changes neither list nor iterators keeps it.                *)
LEMMA StaysPut ==
  ASSUME HlInv, UNCHANGED <<hl, track, short>>
  PROVE  HlInv'
  BY DEF HlInv, Placed, Counted

(* A group of ranges ends in the list.                                     *)
LEMMA GroupEndIs ==
  ASSUME NEW rs \in Lists, NEW k \in 1 .. Len(rs)
  PROVE  GroupEnd(rs, k) \in k .. Len(rs)
<1> DEFINE S == {j \in k .. Len(rs) : \A m \in k + 1 .. j : within_range(rs[m], rs[m - 1])}
<1>1. Len(rs) \in Nat /\ Len(rs) \in Int /\ k \in Int
  BY ListIs
<1>2. k \in S /\ S \in SUBSET (k .. Len(rs))
  <2>1. k \in k .. Len(rs) /\ k + 1 .. k = {}
    BY <1>1
  <2>2. QED
    BY <2>1
<1>3. GroupEnd(rs, k) = Max(S)
  BY DEF GroupEnd
<1> HIDE DEF S
<1>4. Max(S) \in S
  BY <1>1, <1>2, MaxIs
<1>5. QED
  BY <1>2, <1>3, <1>4

(* Ranges taken from either end, with their names, keep it, if no place is *)
(* left of them.                                                           *)
LEMMA TakenKeeps ==
  ASSUME HlInv, NEW rs \in Lists, NEW ranges \in Lists,
         Size(rs) = Size(hl.hr) - Size(ranges), Taken(rs, ranges)
  PROVE  HlInv'
<1> DEFINE l == [hl EXCEPT !.hr = rs, !.nhosts = @ - Size(ranges)]
           m == [hl EXCEPT !.hr = rs, !.nhosts = Size(rs) - short]
<1>1. hl \in HostLists /\ hl.nhosts = Size(hl.hr) - short /\ short \in Int
      /\ Size(hl.hr) \in Int /\ Size(ranges) \in Int
  BY ListHas, SizeIs
<1>2. l = m
  <2>1. hl.nhosts - Size(ranges) = Size(rs) - short
    BY <1>1
  <2>2. QED
    BY <2>1
<1>3. m \in Counted(short)
  <2> DEFINE n == Size(rs) - short
             f == Refilled(hl, rs, n)
  <2>1. n \in Int
    BY <1>1, SizeIs
  <2>2. m = f
    BY DEF Refilled
  <2> HIDE DEF n, m
  <2>3. f \in HostLists /\ f.hr = rs /\ f.nhosts = n
    <3>1. hl \in HostLists
      BY <1>1
    <3>2. QED
      BY <2>1, <3>1, WithList
  <2> HIDE DEF f
  <2>4. QED
    BY <2>2, <2>3 DEF n, Counted
<1> HIDE DEF m
<1>4. Then(m, Iter) /\ UNCHANGED short
  BY <1>2 DEF Taken
<1>5. Keeps(m, Iter)
  BY DEF Keeps
<1>6. QED
  BY <1>3, <1>4, <1>5, ThenIs

(* None is left where no two of the ranges become one.                     *)
LEMMA LeftIs ==
  ASSUME NEW a, NEW rs, NEW ranges, Taken(a, ranges), ~broken', NEW b \in Seq(HostRange)
  PROVE  Left(ranges) \o b = b /\ b \o Left(ranges) = b
<1>1. Left(ranges) = <<>>
  BY DEF Taken
<1>2. QED
  BY <1>1

(* What is cut off a list and what is left have the names of the list.     *)
LEMMA HalvesSize ==
  ASSUME NEW rs \in Lists, NEW k \in 0 .. Len(rs)
  PROVE  /\ SubSeq(rs, 1, k) \in Lists /\ SubSeq(rs, k + 1, Len(rs)) \in Lists
         /\ Size(rs) = Size(SubSeq(rs, 1, k)) + Size(SubSeq(rs, k + 1, Len(rs)))
         /\ Size(SubSeq(rs, 1, k)) \in Nat /\ Size(SubSeq(rs, k + 1, Len(rs))) \in Nat
<1>1. Len(rs) \in Nat
  BY ListIs
<1>2. /\ 1 \in 1 .. Len(rs) + 1 /\ k \in 1 - 1 .. Len(rs)
      /\ k + 1 \in 1 .. Len(rs) + 1 /\ Len(rs) \in (k + 1) - 1 .. Len(rs)
  BY <1>1
<1>3. SubSeq(rs, 1, k) \in Lists
      /\ Size(SubSeq(rs, 1, k)) = CountBefore(rs, k + 1) - CountBefore(rs, 1)
  BY <1>2, PartSize
<1>4. /\ SubSeq(rs, k + 1, Len(rs)) \in Lists
      /\ Size(SubSeq(rs, k + 1, Len(rs))) = CountBefore(rs, Len(rs) + 1) - CountBefore(rs, k + 1)
  BY <1>2, PartSize
<1>5. CountBefore(rs, 1) = 0 /\ CountBefore(rs, k + 1) \in Nat /\ Size(rs) \in Nat
  BY <1>2, Counts, SizeIs
<1>6. Size(SubSeq(rs, k + 1, Len(rs))) = Size(rs) - CountBefore(rs, k + 1)
  BY <1>4 DEF Size
<1> DEFINE a == Size(SubSeq(rs, 1, k))
           b == Size(SubSeq(rs, k + 1, Len(rs)))
<1>7. a \in Nat /\ b \in Nat
  BY <1>3, <1>4, SizeIs
<1>8. a = CountBefore(rs, k + 1) - 0 /\ b = Size(rs) - CountBefore(rs, k + 1)
  BY <1>3, <1>5, <1>6
<1> HIDE DEF a, b
<1>9. Size(rs) = a + b
  BY <1>5, <1>8
<1>10. QED
  BY <1>3, <1>4, <1>7, <1>9 DEF a, b

(* hostlist_pop_range keeps it.                                            *)
LEMMA PopRangeKeeps ==
  ASSUME HlInv, hostlist_pop_range, ~broken'
  PROVE  HlInv'
<1> DEFINE n == Len(hl.hr)
           S == {j \in 1 .. n : \A m \in j .. n - 1 : within_range(hl.hr[n], hl.hr[m])}
           k == Min(S)
<1>1. hl.hr \in Lists /\ n \in Nat /\ hl.hr # <<>>
      /\ Taken(SubSeq(hl.hr, 1, k - 1) \o Left(SubSeq(hl.hr, k, n)), SubSeq(hl.hr, k, n))
  BY ListHas DEF hostlist_pop_range
<1>2. n # 0 /\ n \in S /\ S \in SUBSET (1 .. n) /\ 1 \in Int /\ n \in Int
  <2>1. n # 0
    BY <1>1, NotEmpty
  <2>2. n \in 1 .. n /\ n .. n - 1 = {}
    BY <1>1, <2>1
  <2>3. QED
    BY <1>1, <2>1, <2>2
<1>3. k \in S
  <2> HIDE DEF S
  <2>1. QED
    BY <1>2, MinIs
<1>4. k \in 1 .. n
  BY <1>2, <1>3
<1> HIDE DEF S, k
<1>5. k - 1 \in 0 .. Len(hl.hr) /\ (k - 1) + 1 = k
  BY <1>1, <1>4
<1> DEFINE a == SubSeq(hl.hr, 1, k - 1)
           b == SubSeq(hl.hr, k, n)
<1>6. a \in Lists /\ b \in Lists /\ Size(hl.hr) = Size(a) + Size(b) /\ Size(a) \in Nat
      /\ Size(b) \in Nat
  BY <1>1, <1>5, HalvesSize
<1>7. Taken(a, b)
  <2>1. Taken(a \o Left(b), b)
    BY <1>1
  <2>2. a \o Left(b) = a
    BY <1>6, <2>1, LeftIs DEF Lists
  <2>3. QED
    BY <2>1, <2>2
<1> HIDE DEF a, b, n
<1>8. Size(a) = Size(hl.hr) - Size(b)
  BY <1>6
<1>9. QED
  BY <1>6, <1>7, <1>8, TakenKeeps

(* hostlist_shift_range keeps it.                                          *)
LEMMA ShiftRangeKeeps ==
  ASSUME HlInv, hostlist_shift_range, ~broken'
  PROVE  HlInv'
<1> DEFINE n == Len(hl.hr)
           k == GroupEnd(hl.hr, 1)
           a == SubSeq(hl.hr, 1, k)
           b == SubSeq(hl.hr, k + 1, n)
<1>1. hl.hr \in Lists /\ n \in Nat /\ hl.hr # <<>> /\ Taken(Left(a) \o b, a)
  BY ListHas DEF hostlist_shift_range
<1>2. k \in 0 .. Len(hl.hr)
  <2>1. n # 0
    BY <1>1, NotEmpty
  <2>2. 1 \in 1 .. Len(hl.hr)
    BY <1>1, <2>1
  <2>3. k \in 1 .. Len(hl.hr)
    BY <1>1, <2>2, GroupEndIs
  <2>4. QED
    BY <1>1, <2>3
<1> HIDE DEF k
<1>3. a \in Lists /\ b \in Lists /\ Size(hl.hr) = Size(a) + Size(b) /\ Size(a) \in Nat
      /\ Size(b) \in Nat
  BY <1>1, <1>2, HalvesSize
<1> HIDE DEF a, b, n
<1>4. Size(b) = Size(hl.hr) - Size(a)
  BY <1>3
<1>5. Taken(b, a)
  <2>1. Left(a) \o b = b
    BY <1>1, <1>3, LeftIs DEF Lists
  <2>2. QED
    BY <1>1, <2>1
<1>6. QED
  BY <1>3, <1>4, <1>5, TakenKeeps

(* hostlist_delete keeps it.                                               *)
LEMMA DeleteKeeps ==
  ASSUME HlInv, NEW rs \in Lists, hostlist_delete(rs)
  PROVE  HlInv'
<1> DEFINE l == Deleted(hl, NamesOf(rs))
           lost == IF l.nhosts < hl.nhosts THEN Iter ELSE {}
<1>1. Then(l, lost) /\ UNCHANGED short
  BY DEF hostlist_delete, Deleted, Sound
<1>2. l \in Counted(short) /\ (l = hl \/ l.nhosts < hl.nhosts)
  <2>1. short \in Int
    BY DEF HlInv
  <2>2. QED
    BY <2>1, NamesAre, DeleteAll DEF HlInv
<1> HIDE DEF l
<1>3. Keeps(l, lost)
  BY <1>2 DEF HlInv, Placed, Keeps
<1> HIDE DEF lost
<1>4. QED
  BY <1>1, <1>2, <1>3, ThenIs

(* hostlist_delete_nth keeps it.                                           *)
LEMMA DeleteNthKeeps ==
  ASSUME HlInv, NEW n \in Nat, hostlist_delete_nth(n)
  PROVE  HlInv'
<1>1. /\ hl \in HostLists /\ hl.nhosts = Size(hl.hr) - short /\ short \in {0, 1}
      /\ Size(hl.hr) \in Nat /\ hl.hr \in Lists
  BY ListHas
<1>2. CASE n < Size(hl.hr)
  <2> DEFINE l == delete_nth(hl, n)
  <2>1. Then(l, Iter) /\ UNCHANGED short
    BY <1>2 DEF hostlist_delete_nth
  <2>2. l \in HostLists /\ Size(l.hr) = Size(hl.hr) - 1 /\ l.nhosts = hl.nhosts - 1
    BY <1>1, <1>2, DeleteNth
  <2> HIDE DEF l
  <2>3. l \in Counted(short)
    BY <1>1, <2>2 DEF Counted
  <2>4. Keeps(l, Iter)
    BY DEF Keeps
  <2>5. QED
    BY <2>1, <2>3, <2>4, ThenIs
<1>3. CASE ~(n < Size(hl.hr))
  <2> DEFINE c == hl.nhosts - 1
             m == [hl EXCEPT !.nhosts = c]
  <2>1. hl' = m /\ short' = 1 /\ UNCHANGED track /\ n <= hl.nhosts
    BY <1>3 DEF hostlist_delete_nth
  <2>2. short = 0 /\ c = Size(hl.hr) - 1 /\ c \in Int
    BY <1>1, <1>3, <2>1
  <2> HIDE DEF c
  <2>3. m \in HostLists /\ m.hr = hl.hr /\ m.nhosts = c /\ m.ilist = hl.ilist
    BY <1>1, <2>2, WithCount
  <2> HIDE DEF m
  <2>4. hl' \in Counted(short)'
    BY <2>1, <2>2, <2>3 DEF Counted
  <2>5. Placed'
    BY <2>1, <2>3 DEF HlInv, Placed
  <2>6. QED
    BY <2>1, <2>4, <2>5 DEF HlInv
<1>4. QED
  BY <1>2, <1>3

(* A list put in another order, without the names it had twice, keeps it.  *)
LEMMA ReorderedKeeps ==
  ASSUME HlInv, NEW rs, NEW twice \in Int, Reordered(rs, twice),
         rs = NULL \/ (rs \in Lists /\ rs # <<>> /\ Size(rs) = Size(hl.hr) - twice)
  PROVE  HlInv'
<1>1. CASE broken'
  BY <1>1, StaysPut DEF Reordered
<1>2. CASE ~broken'
  <2> DEFINE its == [i \in Iter |-> IF track[i] = "none" THEN NoIter ELSE Begin(rs)]
             n == hl.nhosts - twice
  <2>1. rs # NULL
    BY <1>2 DEF Reordered
  <2>2. /\ hl' = [hr |-> rs, nhosts |-> n, ilist |-> its]
        /\ track' = [i \in Iter |-> IF track[i] = "none" THEN "none" ELSE "name"]
    BY <1>2 DEF Reordered
  <2>3. rs \in Lists /\ rs # <<>> /\ n = Size(rs) - short /\ n \in Int
    <3>1. hl.nhosts = Size(hl.hr) - short /\ short \in Int /\ Size(hl.hr) \in Int
      BY ListHas
    <3>2. rs \in Lists /\ rs # <<>> /\ Size(rs) = Size(hl.hr) - twice
      BY <2>1
    <3>3. Size(rs) \in Int
      BY <3>2, SizeIs
    <3>4. QED
      BY <3>1, <3>2, <3>3
  <2>4. its \in [Iter -> Iterator] /\ \A i \in Iter : track[i] # "none" => its[i] = Begin(rs)
    <3>1. NoIter \in Iterator
      BY DEF NoIter, Iterator
    <3>2. QED
      BY <3>1, Begun
  <2> HIDE DEF its, n
  <2>5. hl' \in Counted(short) /\ UNCHANGED short /\ hl'.hr = rs /\ hl'.ilist = its
    BY <2>2, <2>3, <2>4 DEF Counted, HostLists, Reordered
  <2>6. track' \in [Iter -> Tracks]
    BY <2>2 DEF Tracks
  <2>7. Placed'
    <3>1. ASSUME NEW i \in Iter, track'[i] \in {"name", "range"} PROVE InPlace(hl'.ilist[i], hl'.hr)
      <4>1. hl'.ilist[i] = Begin(rs)
        BY <2>2, <2>4, <2>5, <3>1
      <4>2. Len(rs) \in Nat /\ Len(rs) # 0
        BY <2>3, NotEmpty
      <4> DEFINE x == Begin(rs)
      <4>3. x.idx = 1 /\ x.depth = -1 /\ (x.fresh <=> rs # <<>>)
        BY Begun
      <4> HIDE DEF x
      <4>4. InPlace(x, rs)
        BY <2>3, <4>2, <4>3 DEF InPlace
      <4>5. QED
        BY <2>5, <4>1, <4>4 DEF x
    <3>2. QED
      BY <3>1 DEF Placed
  <2>8. QED
    BY <2>5, <2>6, <2>7 DEF HlInv, Counted
<1>3. QED
  BY <1>1, <1>2

(* hostlist_sort keeps it.                                                 *)
LEMMA SortKeeps ==
  ASSUME HlInv, hostlist_sort
  PROVE  HlInv'
<1>1. CASE Len(hl.hr) <= 1
  BY <1>1, StaysPut DEF hostlist_sort, Sound
<1>2. CASE ~(Len(hl.hr) <= 1)
  <2>1. PICK s \in Sorted(hl.hr) : Reordered(coalesced(s), 0)
    BY <1>2 DEF hostlist_sort
  <2>2. hl.hr \in Lists /\ Len(hl.hr) \in Nat /\ Size(hl.hr) \in Nat
    BY ListHas
  <2>3. s \in Lists /\ Len(s) = Len(hl.hr) /\ Size(s) = Size(hl.hr)
    BY <2>2, SortedIs
  <2> DEFINE rs == coalesced(s)
  <2>4. rs = NULL \/ (rs \in Lists /\ Size(rs) = Size(s))
    BY <2>3, CoalescedIs
  <2> HIDE DEF rs
  <2>5. ASSUME rs # NULL PROVE rs \in Lists /\ rs # <<>> /\ Size(rs) = Size(hl.hr) - 0
    <3>1. Size(s) >= Len(s) /\ Size(s) # 0
      BY <1>2, <2>2, <2>3, SizeIs
    <3>2. rs # <<>>
      BY <2>4, <2>5, <3>1, EmptySize
    <3>3. QED
      BY <2>2, <2>3, <2>4, <2>5, <3>2
  <2>6. Reordered(rs, 0) /\ 0 \in Int
    BY <2>1 DEF rs
  <2>7. QED
    BY <2>5, <2>6, ReorderedKeeps
<1>3. QED
  BY <1>1, <1>2

(* hostlist_uniq keeps it.                                                 *)
LEMMA UniqKeeps ==
  ASSUME HlInv, hostlist_uniq
  PROVE  HlInv'
<1>1. CASE Len(hl.hr) <= 1
  BY <1>1, StaysPut DEF hostlist_uniq, Sound
<1>2. CASE ~(Len(hl.hr) <= 1)
  <2>1. PICK s \in Sorted(hl.hr) : Reordered(join_all(s), Size(s) - Size(join_all(s)))
    BY <1>2 DEF hostlist_uniq
  <2>2. hl.hr \in Lists /\ Len(hl.hr) \in Nat /\ Size(hl.hr) \in Nat
    BY ListHas
  <2>3. s \in Lists /\ Len(s) = Len(hl.hr) /\ Size(s) = Size(hl.hr)
    BY <2>2, SortedIs
  <2> DEFINE rs == join_all(s)
             twice == Size(s) - Size(rs)
  <2>4. rs = NULL \/ (rs \in Lists /\ rs # <<>>)
    <3>1. s # <<>>
      BY <1>2, <2>2, <2>3, NotEmpty
    <3>2. QED
      BY <2>3, <3>1, JoinAllIs
  <2>5. Reordered(rs, twice)
    BY <2>1
  <2> HIDE DEF rs
  <2>6. CASE rs = NULL
    <3>1. broken'
      BY <2>5, <2>6 DEF Reordered
    <3>2. QED
      BY <2>5, <3>1, StaysPut DEF Reordered
  <2>7. CASE rs # NULL
    <3>1. rs \in Lists /\ rs # <<>> /\ Size(rs) \in Nat
      BY <2>4, <2>7, SizeIs
    <3>2. twice \in Int /\ Size(rs) = Size(hl.hr) - twice
      BY <2>2, <2>3, <3>1
    <3> HIDE DEF twice
    <3>3. QED
      BY <2>5, <3>1, <3>2, ReorderedKeeps
  <2>8. QED
    BY <2>6, <2>7
<1>3. QED
  BY <1>1, <1>2

(* One iterator is moved.                                                  *)
LEMMA SetIterator ==
  ASSUME HlInv, NEW i \in Iter, NEW it \in Iterator, NEW t \in Tracks,
         t \in {"name", "range"} => InPlace(it, hl.hr),
         hl' = [hl EXCEPT !.ilist[i] = it], track' = [track EXCEPT ![i] = t],
         UNCHANGED short
  PROVE  HlInv'
<1> DEFINE its == [hl.ilist EXCEPT ![i] = it]
<1>1. hl \in [hr : Lists, nhosts : Int, ilist : [Iter -> Iterator]] 
      /\ hl.nhosts = Size(hl.hr) - short
  BY DEF HlInv, Counted, HostLists
<1>2. its \in [Iter -> Iterator] /\ \A j \in Iter : its[j] = IF j = i THEN it ELSE hl.ilist[j]
  BY <1>1
<1>3. hl' = [hr |-> hl.hr, nhosts |-> hl.nhosts, ilist |-> its]
  BY <1>1
<1> HIDE DEF its
<1>4. hl' \in Counted(short) /\ hl'.hr = hl.hr /\ hl'.ilist = its
  BY <1>1, <1>2, <1>3 DEF Counted, HostLists
<1>5. track' \in [Iter -> Tracks] /\ \A j \in Iter : track'[j] = IF j = i THEN t ELSE track[j]
  BY DEF HlInv
<1>6. Placed'
  <2>1. ASSUME NEW j \in Iter, track'[j] \in {"name", "range"} PROVE InPlace(hl'.ilist[j], hl'.hr)
    <3>1. CASE j = i
      BY <1>2, <1>4, <1>5, <2>1, <3>1
    <3>2. CASE j # i
      BY <1>2, <1>4, <1>5, <2>1, <3>2 DEF HlInv, Placed
    <3>3. QED
      BY <3>1, <3>2
  <2>2. QED
    BY <2>1 DEF Placed
<1>7. QED
  BY <1>4, <1>5, <1>6 DEF HlInv, Counted

(* An iterator that is made or reset keeps it.                             *)
LEMMA StartsKeeps ==
  ASSUME HlInv, NEW i \in Iter, Starts(i)
  PROVE  HlInv'
<1>1. hl.hr \in Lists
  BY ListHas
<1>2. CASE hl.hr = <<>>
  <2>1. hl' = [hl EXCEPT !.ilist[i] = NoIter] /\ track' = [track EXCEPT ![i] = "lost"]
        /\ UNCHANGED short
    BY <1>2 DEF Starts, Sound
  <2>2. NoIter \in Iterator /\ "lost" \in Tracks
    BY DEF NoIter, Iterator, Tracks
  <2>3. QED
    BY <2>1, <2>2, SetIterator
<1>3. CASE hl.hr # <<>>
  <2> DEFINE x == Begin(hl.hr)
  <2>1. hl' = [hl EXCEPT !.ilist[i] = x] /\ track' = [track EXCEPT ![i] = "name"]
        /\ UNCHANGED short
    BY <1>3 DEF Starts, Sound
  <2>2. x \in Iterator /\ x.idx = 1 /\ x.depth = -1 /\ (x.fresh <=> hl.hr # <<>>)
        /\ "name" \in Tracks
    BY Begun DEF Tracks
  <2> HIDE DEF x
  <2>3. Len(hl.hr) \in Nat /\ Len(hl.hr) # 0
    BY <1>1, <1>3, NotEmpty
  <2>4. InPlace(x, hl.hr)
    BY <1>3, <2>2, <2>3 DEF InPlace
  <2>5. QED
    BY <2>1, <2>2, <2>4, SetIterator
<1>4. QED
  BY <1>2, <1>3

(* hostlist_iterator_destroy keeps it.                                     *)
LEMMA DestroyKeeps ==
  ASSUME HlInv, NEW i \in Iter, hostlist_iterator_destroy(i)
  PROVE  HlInv'
<1>1. hl' = [hl EXCEPT !.ilist[i] = NoIter] /\ track' = [track EXCEPT ![i] = "none"]
      /\ UNCHANGED short
  BY DEF hostlist_iterator_destroy, Sound
<1>2. NoIter \in Iterator /\ "none" \in Tracks
  BY DEF NoIter, Iterator, Tracks
<1>3. QED
  BY <1>1, <1>2, SetIterator

(* An iterator at another depth.                                           *)
LEMMA AtDepth ==
  ASSUME NEW it \in Iterator, NEW d \in Int
  PROVE  /\ [it EXCEPT !.depth = d] \in Iterator /\ [it EXCEPT !.depth = d].idx = it.idx
         /\ [it EXCEPT !.depth = d].depth = d
         /\ [it EXCEPT !.depth = d].fresh <=> it.fresh
<1> DEFINE p == it.fresh
           q == it.idx
           x == [it EXCEPT !.depth = d]
<1>1. it \in [idx : Nat, depth : Int, fresh : BOOLEAN]
  BY DEF Iterator
<1>2. p \in BOOLEAN /\ q \in Nat
  BY <1>1
<1>3. x = [idx |-> q, depth |-> d, fresh |-> p]
  BY <1>1
<1> HIDE DEF p, q, x
<1>4. x \in Iterator /\ x.idx = q /\ x.depth = d /\ x.fresh = p
  BY <1>2, <1>3 DEF Iterator
<1>5. QED
  BY <1>4 DEF x, p, q

(* What an iterator that keeps its place is, in numbers.                   *)
LEMMA InPlaceIs ==
  ASSUME HlInv, NEW i \in Iter, track[i] \in {"name", "range"}
  PROVE  LET it == hl.ilist[i] IN
         /\ it \in Iterator /\ it.idx \in Nat \ {0} /\ it.depth \in Int /\ it.depth >= -1
         /\ InPlace(it, hl.hr) /\ hl.hr # <<>> /\ Len(hl.hr) \in Nat \ {0}
<1>1. /\ hl.hr \in Lists /\ Len(hl.hr) \in Nat /\ hl.ilist[i] \in Iterator
         /\ InPlace(hl.ilist[i], hl.hr)
      /\ hl.ilist[i].idx \in Nat /\ hl.ilist[i].depth \in Int
  BY ListHas
<1>2. hl.hr # <<>> /\ hl.ilist[i].idx >= 1 /\ hl.ilist[i].depth >= -1
  BY <1>1 DEF InPlace
<1>3. QED
  BY <1>1, <1>2, NotEmpty

(* An iterator that goes to another range, at its first name.              *)
LEMMA GoesTo ==
  ASSUME NEW it \in Iterator, NEW rs \in Lists, rs # <<>>, NEW n \in Nat \ {0}
  PROVE  LET x == [At(rs, it, n) EXCEPT !.depth = 0] IN x \in Iterator /\ InPlace(x, rs)
<1> DEFINE a == At(rs, it, n)
           x == [a EXCEPT !.depth = 0]
<1>1. a \in Iterator /\ a.idx = n /\ (a.fresh <=> n <= Len(rs))
  BY Moved
<1> HIDE DEF a
<1>2. x \in Iterator /\ x.idx = a.idx /\ x.depth = 0 /\ (x.fresh <=> a.fresh)
  <2>1. 0 \in Int
    OBVIOUS
  <2>2. QED
    BY <1>1, <2>1, AtDepth
<1> HIDE DEF x
<1>3. InPlace(x, rs)
  BY <1>1, <1>2 DEF InPlace
<1>4. QED
  BY <1>2, <1>3 DEF x, a

(* An iterator that stays at its range.                                    *)
LEMMA GoesOn ==
  ASSUME NEW it \in Iterator, NEW rs, InPlace(it, rs), NEW d \in Nat
  PROVE  [it EXCEPT !.depth = d] \in Iterator /\ InPlace([it EXCEPT !.depth = d], rs)
<1> DEFINE x == [it EXCEPT !.depth = d]
<1>1. d \in Int /\ d >= -1 /\ d >= 0
  OBVIOUS
<1>2. x \in Iterator /\ x.idx = it.idx /\ x.depth = d /\ (x.fresh <=> it.fresh)
  BY <1>1, AtDepth
<1> HIDE DEF x
<1>3. InPlace(x, rs)
  BY <1>1, <1>2 DEF InPlace
<1>4. QED
  BY <1>2, <1>3 DEF x

(* hostlist_next keeps it.                                                 *)
LEMMA NextKeeps ==
  ASSUME HlInv, NEW i \in Iter, hostlist_next(i)
  PROVE  HlInv'
<1> DEFINE it == hl.ilist[i]
           new == iterator_advance(it)
<1>1. hl' = [hl EXCEPT !.ilist[i] = new] /\ track' = track /\ track[i] = "name"
      /\ UNCHANGED short
  BY DEF hostlist_next
<1>2. /\ it \in Iterator /\ it.idx \in Nat \ {0} /\ it.depth \in Int /\ it.depth >= -1
      /\ InPlace(it, hl.hr) /\ hl.hr # <<>> /\ hl.hr \in Lists
  BY <1>1, InPlaceIs, ListHas
<1> HIDE DEF it
<1>3. new \in Iterator /\ InPlace(new, hl.hr)
  <2>1. CASE AtEnd(it)
    <3>1. new = it
      BY <2>1 DEF iterator_advance
    <3>2. QED
      BY <1>2, <3>1
  <2>2. CASE ~AtEnd(it) /\ it.depth + 1 >= count(hl.hr[it.idx])
    <3>1. new = [At(hl.hr, it, it.idx + 1) EXCEPT !.depth = 0]
      BY <2>2 DEF iterator_advance
    <3>2. it.idx + 1 \in Nat \ {0}
      BY <1>2
    <3> HIDE DEF new
    <3>3. QED
      BY <1>2, <3>1, <3>2, GoesTo
  <2>3. CASE ~AtEnd(it) /\ ~(it.depth + 1 >= count(hl.hr[it.idx]))
    <3>1. new = [it EXCEPT !.depth = it.depth + 1]
      BY <2>3 DEF iterator_advance
    <3>2. it.depth + 1 \in Nat
      BY <1>2
    <3> HIDE DEF new
    <3>3. QED
      BY <1>2, <3>1, <3>2, GoesOn
  <2>4. QED
    BY <2>1, <2>2, <2>3
<1> HIDE DEF new
<1>4. track' = [track EXCEPT ![i] = "name"] /\ "name" \in Tracks
  BY <1>1 DEF HlInv, Tracks
<1>5. QED
  BY <1>1, <1>3, <1>4, SetIterator

(* hostlist_next_range keeps it.                                           *)
LEMMA NextRangeKeeps ==
  ASSUME HlInv, NEW i \in Iter, hostlist_next_range(i)
  PROVE  HlInv'
<1> DEFINE it == hl.ilist[i]
           new == iterator_advance_range(it)
           nr == Len(hl.hr)
           S == {k \in it.idx + 1 .. nr + 1 : k > nr \/ ~within_range(hl.hr[it.idx], hl.hr[k])}
           j == IF AtEnd(it) THEN it.idx + 1 ELSE Min(S)
<1>1. hl' = [hl EXCEPT !.ilist[i] = new] /\ track' = [track EXCEPT ![i] = "range"]
      /\ track[i] \in {"name", "range"} /\ UNCHANGED short
  BY DEF hostlist_next_range
<1>2. /\ it \in Iterator /\ it.idx \in Nat \ {0} /\ it.depth \in Int /\ it.depth >= -1
      /\ InPlace(it, hl.hr) /\ hl.hr # <<>> /\ hl.hr \in Lists /\ nr \in Nat \ {0}
  BY <1>1, InPlaceIs, ListHas
<1>3. new = IF it.depth < 0 THEN [it EXCEPT !.depth = 0] ELSE [At(hl.hr, it, j) EXCEPT !.depth = 0]
  BY DEF iterator_advance_range
<1> HIDE DEF it, nr
<1>4. j \in Nat \ {0}
  <2>1. CASE AtEnd(it)
    BY <1>2, <2>1
  <2>2. CASE ~AtEnd(it)
    <3>1. it.idx <= nr
      BY <1>2, <2>2 DEF AtEnd, nr
    <3>2. nr + 1 \in S /\ S \in SUBSET (it.idx + 1 .. nr + 1) /\ it.idx + 1 \in Int
          /\ nr + 1 \in Int
      BY <1>2, <3>1
    <3>3. Min(S) \in S
      <4> HIDE DEF S
      <4>1. QED
        BY <3>2, MinIs
    <3>4. Min(S) \in it.idx + 1 .. nr + 1
      BY <3>2, <3>3
    <3> HIDE DEF S
    <3>5. QED
      BY <1>2, <2>2, <3>4
  <2>3. QED
    BY <2>1, <2>2
<1> HIDE DEF j, new
<1>5. new \in Iterator /\ InPlace(new, hl.hr)
  <2>1. CASE it.depth < 0
    <3>1. 0 \in Nat
      OBVIOUS
    <3>2. QED
      BY <1>2, <1>3, <2>1, <3>1, GoesOn
  <2>2. CASE ~(it.depth < 0)
    BY <1>2, <1>3, <1>4, <2>2, GoesTo
  <2>3. QED
    BY <2>1, <2>2
<1>6. "range" \in Tracks
  BY DEF Tracks
<1>7. QED
  BY <1>1, <1>5, <1>6, SetIterator

(* hostlist_remove keeps it.                                               *)
LEMMA RemoveKeeps ==
  ASSUME HlInv, NEW i \in Iter, hostlist_remove(i)
  PROVE  HlInv'
<1> DEFINE it == hl.ilist[i]
           k == it.idx
           h == hl.hr[k]
           d == delete_host(hl, k, h.lo + it.depth)
           l == [d EXCEPT !.nhosts = @ - 1]
           split == Len(l.hr) > Len(hl.hr)
           gone == Len(l.hr) < Len(hl.hr)
           new == IF split THEN [At(l.hr, it, k + 1) EXCEPT !.depth = -1]
                  ELSE IF gone THEN l.ilist[i] ELSE [it EXCEPT !.depth = @ - 1]
           again == gone /\ k > 1 /\ count(hl.hr[k - 1]) > 1
           m == [l EXCEPT !.ilist[i] = new]
           lost == IF again THEN Iter ELSE Iter \ {i}
<1>1. track[i] = "name" /\ ~AtEnd(it) /\ it.depth \in 0 .. count(h) - 1 /\ Then(m, lost)
      /\ UNCHANGED short
  BY DEF hostlist_remove, Sound
<1>1a. track[i] = "name" /\ ~(k > Len(hl.hr)) /\ it.depth \in 0 .. count(h) - 1
  <2>1. track[i] = "name" /\ ~AtEnd(it) /\ it.depth \in 0 .. count(h) - 1
    <3> HIDE DEF m, lost
    <3>1. QED
      BY <1>1
  <2>2. QED
    BY <2>1 DEF AtEnd
<1>2. /\ it \in Iterator /\ k \in Nat \ {0} /\ it.depth \in Int
      /\ InPlace(it, hl.hr) /\ hl.hr # <<>> /\ hl.hr \in Lists /\ Len(hl.hr) \in Nat \ {0}
      /\ hl \in HostLists /\ hl.nhosts = Size(hl.hr) - short /\ Size(hl.hr) \in Nat
      /\ short \in Int
  BY <1>1a, InPlaceIs, ListHas
<1>3. k \in 1 .. Len(hl.hr) /\ h \in HostRange
  <2> DEFINE n == Len(hl.hr)
  <2>1. ~(k > n)
    BY <1>1a
  <2>2. k \in Nat \ {0} /\ n \in Nat
    BY <1>2
  <2>3. k \in 1 .. n
    <3> HIDE DEF k, n
    <3>1. QED
      BY <2>1, <2>2
  <2>4. QED
    BY <1>2, <2>3, ListIs
<1>4. h.lo + it.depth \in hl.hr[k].lo .. hl.hr[k].hi
  <2> DEFINE c == it.depth
  <2>1. h.lo \in Nat /\ h.hi \in Nat /\ count(h) = h.hi - h.lo + 1
    BY <1>3, RangeIs
  <2>2. c \in Int /\ c \in 0 .. count(h) - 1
    BY <1>1a, <1>2
  <2>3. h.lo + c \in h.lo .. h.hi
    <3> HIDE DEF c, h
    <3>1. QED
      BY <2>1, <2>2
  <2>4. QED
    BY <2>3
<1>5. /\ d \in HostLists /\ d.nhosts = hl.nhosts /\ Size(d.hr) = Size(hl.hr) - 1
      /\ Len(d.hr) \in Len(hl.hr) - 1 .. Len(hl.hr) + 1
      /\ Len(d.hr) < Len(hl.hr) => d = delete_range(hl, k)
      /\ Len(d.hr) = Len(hl.hr) => d.ilist = hl.ilist
  <2> HIDE DEF k
  <2>1. QED
    BY <1>2, <1>3, <1>4, DeleteHost
<1> HIDE DEF d
<1>6. l \in HostLists /\ l.hr = d.hr /\ l.nhosts = Size(l.hr) - short /\ l.ilist = d.ilist
  <2>1. d.nhosts - 1 \in Int /\ d.nhosts - 1 = Size(d.hr) - short
    BY <1>2, <1>5
  <2>2. QED
    BY <1>5, <2>1, WithCount
<1> HIDE DEF l
<1>7. l.hr \in Lists /\ l.ilist \in [Iter -> Iterator] /\ Len(l.hr) \in Nat
  BY <1>6, ListIs DEF HostLists
<1>8. new \in Iterator /\ (l.hr # <<>> => InPlace(new, l.hr))
  <2>1. CASE split
    <3> DEFINE a == At(l.hr, it, k + 1)
               x == [a EXCEPT !.depth = -1]
    <3>1. k + 1 \in Nat /\ k + 1 <= Len(l.hr) /\ k + 1 >= 1
      BY <1>2, <1>3, <1>7, <2>1
    <3>2. a \in Iterator /\ a.idx = k + 1 /\ (a.fresh <=> k + 1 <= Len(l.hr))
      BY <1>2, <3>1, Moved, ZenonT(30)
    <3>3. -1 \in Int
      OBVIOUS
    <3> HIDE DEF a
    <3>4. x \in Iterator /\ x.idx = a.idx /\ x.depth = -1 /\ (x.fresh <=> a.fresh)
      BY <3>2, <3>3, AtDepth
    <3>5. new = x
      BY <2>1 DEF a
    <3> HIDE DEF x, new, k
    <3>6. l.hr # <<>> => InPlace(x, l.hr)
      BY <1>7, <3>1, <3>2, <3>4 DEF InPlace
    <3>7. QED
      BY <3>4, <3>5, <3>6
  <2>2. CASE ~split /\ gone
    <3>1. new = l.ilist[i] /\ d = delete_range(hl, k)
      BY <1>5, <1>6, <2>2
    <3>2. new \in Iterator
      BY <1>7, <3>1
    <3>3. InPlace(hl.ilist[i], hl.hr) /\ hl.ilist[i].idx >= k
      BY <1>2
    <3> HIDE DEF new, k
    <3>4. d.hr # <<>> => InPlace(d.ilist[i], d.hr)
      BY <1>2, <1>3, <3>1, <3>3, DeleteRange
    <3>5. QED
      BY <1>6, <3>1, <3>2, <3>4
  <2>3. CASE ~split /\ ~gone
    <3> DEFINE e == it.depth - 1
               x == [it EXCEPT !.depth = e]
    <3>1. Len(l.hr) = Len(hl.hr) /\ e \in Int /\ e >= -1 /\ k <= Len(l.hr) /\ k >= 1
      BY <1>1a, <1>2, <1>3, <1>7, <2>3
    <3>2. new = x
      BY <2>3
    <3>3. x \in Iterator /\ x.idx = k /\ x.depth = e /\ (x.fresh <=> it.fresh)
      BY <1>2, <3>1, AtDepth
    <3>4. it.fresh <=> k <= Len(hl.hr)
      BY <1>2 DEF InPlace
    <3> HIDE DEF e, x, new, it, k
    <3>5. l.hr # <<>> => InPlace(x, l.hr)
      BY <1>2, <1>3, <3>1, <3>3, <3>4 DEF InPlace
    <3>6. QED
      BY <3>2, <3>3, <3>5
  <2>4. QED
    BY <2>1, <2>2, <2>3
<1> HIDE DEF new, it, k, split, gone
<1>9. m \in Counted(short) /\ m.hr = l.hr /\ m.ilist[i] = new
  <2> DEFINE its == [l.ilist EXCEPT ![i] = new]
  <2>1. its \in [Iter -> Iterator] /\ its[i] = new
    BY <1>7, <1>8
  <2>2. l \in [hr : Lists, nhosts : Int, ilist : [Iter -> Iterator]]
    BY <1>6 DEF HostLists
  <2>3. m = [hr |-> l.hr, nhosts |-> l.nhosts, ilist |-> its]
    BY <2>2
  <2> HIDE DEF its, m
  <2>4. m \in HostLists /\ m.hr = l.hr /\ m.nhosts = l.nhosts /\ m.ilist = its
    BY <2>1, <2>2, <2>3 DEF HostLists
  <2>5. QED
    BY <1>6, <2>1, <2>4 DEF Counted
<1>10. Keeps(m, lost)
  <2>1. ASSUME NEW j \in Iter, j \notin lost, m.hr # <<>> PROVE InPlace(m.ilist[j], m.hr)
    <3>1. j = i
      BY <2>1
    <3> HIDE DEF m
    <3>2. QED
      BY <1>8, <1>9, <2>1, <3>1
  <2> HIDE DEF lost, m
  <2>2. QED
    BY <2>1 DEF Keeps
<1> HIDE DEF m, lost
<1>11. QED
  BY <1>1, <1>9, <1>10, ThenIs

(* The new list holds what the string was read as, and no iterator.        *)
LEMMA InitKeeps == Init => HlInv
<1>1. SUFFICES ASSUME Init PROVE HlInv
  OBVIOUS
<1>2. PICK rs \in Made \cup {<<>>} :
          hl = [hr |-> rs, nhosts |-> Size(rs), ilist |-> [i \in Iter |-> NoIter]]
  BY <1>1 DEF Init
<1>3. rs \in Lists /\ Size(rs) \in Int
  BY MadeAre, EmptySize, SizeIs
<1>4. NoIter \in Iterator
  BY DEF NoIter, Iterator
<1>5. hl \in Counted(short) /\ short = 0
  <2> DEFINE its == [i \in Iter |-> NoIter]
  <2>1. its \in [Iter -> Iterator]
    BY <1>4
  <2> HIDE DEF its
  <2>2. QED
    BY <1>1, <1>2, <1>3, <2>1 DEF its, Counted, HostLists, Init
<1>6. track = [i \in Iter |-> "none"]
  BY <1>1 DEF Init
<1>7. QED
  BY <1>5, <1>6 DEF HlInv, Placed, Tracks

(* Every call keeps it.                                                    *)
LEMMA NextStep == HlInv /\ [Next]_vars /\ ~broken' => HlInv'
<1>1. SUFFICES ASSUME HlInv, [Next]_vars, ~broken' PROVE HlInv'
  OBVIOUS
<1>2. ASSUME NEW rs \in Made, hostlist_push(rs) \/ hostlist_delete(rs) PROVE HlInv'
  <2>1. rs \in Lists
    BY MadeAre
  <2>2. QED
    BY <1>1, <1>2, <2>1, PushKeeps, DeleteKeeps
<1>3. CASE hostlist_pop \/ hostlist_shift \/ hostlist_pop_range \/ hostlist_shift_range
  BY <1>1, <1>3, PopKeeps, ShiftKeeps, PopRangeKeeps, ShiftRangeKeeps
<1>4. ASSUME NEW n \in 0 .. MaxHosts, hostlist_delete_nth(n) PROVE HlInv'
  <2>1. n \in Nat
    BY HostlistAssumption
  <2>2. QED
    BY <1>1, <1>4, <2>1, DeleteNthKeeps
<1>5. CASE hostlist_sort \/ hostlist_uniq
  BY <1>1, <1>5, SortKeeps, UniqKeeps
<1>6. ASSUME NEW i \in Iter,
             \/ hostlist_iterator_create(i) \/ hostlist_iterator_reset(i)
             \/ hostlist_iterator_destroy(i)
             \/ hostlist_next(i) \/ hostlist_next_range(i) \/ hostlist_remove(i)
      PROVE  HlInv'
  <2>1. CASE hostlist_iterator_create(i) \/ hostlist_iterator_reset(i)
    <3>1. Starts(i)
      BY <2>1 DEF hostlist_iterator_create, hostlist_iterator_reset
    <3>2. QED
      BY <1>1, <3>1, StartsKeeps
  <2>2. CASE hostlist_iterator_destroy(i)
    BY <1>1, <2>2, DestroyKeeps
  <2>3. CASE hostlist_next(i) \/ hostlist_next_range(i)
    BY <1>1, <2>3, NextKeeps, NextRangeKeeps
  <2>4. CASE hostlist_remove(i)
    BY <1>1, <2>4, RemoveKeeps
  <2>5. QED
    BY <1>6, <2>1, <2>2, <2>3, <2>4
<1>7. CASE UNCHANGED vars
  BY <1>1, <1>7, StaysPut DEF vars
<1>8. QED
  BY <1>1, <1>2, <1>3, <1>4, <1>5, <1>6, <1>7 DEF Next

(* What it says of the runs' property.                                     *)
LEMMA InvConsistent == HlInv => Consistent
<1>1. SUFFICES ASSUME HlInv PROVE Consistent
  OBVIOUS
<1>2. hl.hr \in Lists /\ hl.nhosts = Size(hl.hr) - short /\ hl.ilist \in [Iter -> Iterator]
      /\ \A i \in Iter : track[i] \in {"name", "range"} => InPlace(hl.ilist[i], hl.hr)
  BY <1>1, ListHas
<1>3. \A k \in DOMAIN hl.hr : count(hl.hr[k]) > 0
  <2>1. SUFFICES ASSUME NEW k \in DOMAIN hl.hr PROVE count(hl.hr[k]) > 0
    OBVIOUS
  <2>2. hl.hr[k] \in HostRange
    BY <1>2, ListIs
  <2> DEFINE h == hl.hr[k]
  <2>3. count(h) = h.hi - h.lo + 1 /\ h.lo <= h.hi /\ h.lo \in Nat /\ h.hi \in Nat
    BY <2>2, RangeIs
  <2> HIDE DEF h
  <2>4. count(h) > 0
    BY <2>3
  <2>5. QED
    BY <2>4 DEF h
<1>4. ASSUME NEW i \in Iter, track[i] \in {"name", "range"}
      PROVE  hl.ilist[i].fresh # (hl.ilist[i].idx > Len(hl.hr))
  <2> DEFINE it == hl.ilist[i]
             n == Len(hl.hr)
             behind == it.idx > n
             there == it.fresh
  <2>1. it \in Iterator /\ InPlace(it, hl.hr) /\ n \in Nat
    BY <1>2, <1>4, ListIs
  <2>2. it.idx \in Nat /\ there \in BOOLEAN
    BY <2>1 DEF Iterator
  <2>3. there <=> it.idx <= n
    BY <2>1 DEF InPlace
  <2>4. behind <=> ~(it.idx <= n)
    <3> HIDE DEF it, n
    <3>1. QED
      BY <2>1, <2>2
  <2>5. behind \in BOOLEAN
    BY DEF behind
  <2> HIDE DEF behind, there
  <2>6. there # behind
    BY <2>2, <2>3, <2>4, <2>5
  <2>7. QED
    BY <2>6 DEF there, behind
<1>5. QED
  BY <1>2, <1>3, <1>4 DEF Consistent

(* The inductive invariant: whatever calls are made in whatever order, as  *)
(* long as no range that was freed is left in the list and no assertion    *)
(* failed, nhosts is the number of names in the ranges, or one less from   *)
(* when delete_nth was asked for the place behind the last, and an         *)
(* iterator that was not left behind is at a range of the list or just     *)
(* after the last, as hostlist_next wants it.                              *)
THEOREM HostlistInductive == Spec => [](broken \/ HlInv)
<1>1. (broken \/ HlInv) /\ [Next]_vars => (broken \/ HlInv)'
  BY NextStep DEF Next, vars
<1>2. Init => broken \/ HlInv
  BY InitKeeps
<1>3. QED
  BY <1>1, <1>2, PTL DEF Spec

(* Consistent for all strings: the callers of hostlist_delete_range,       *)
(* hostlist_push_range, hostlist_sort and the others, which each change    *)
(* nhosts for themselves, miscount in no other way.                        *)
THEOREM HostlistConsistent == Spec => []Consistent
<1>1. broken \/ HlInv => Consistent
  BY InvConsistent DEF Consistent
<1>2. QED
  BY <1>1, HostlistInductive, PTL

(* Before a range are fewer names than before or in a later one.           *)
LEMMA OneRange ==
  ASSUME NEW rs \in Lists, NEW j \in 1 .. Len(rs), NEW k \in 1 .. Len(rs), NEW n \in Int,
         n < CountBefore(rs, j + 1), n >= CountBefore(rs, j),
         n < CountBefore(rs, k + 1), n >= CountBefore(rs, k)
  PROVE  j = k
<1>1. Len(rs) \in Nat
  BY ListIs
<1>2. ASSUME NEW a \in 1 .. Len(rs), NEW b \in 1 .. Len(rs), a < b
      PROVE  CountBefore(rs, a + 1) <= CountBefore(rs, b)
  <2>1. a + 1 \in 1 .. Len(rs) + 1 /\ b \in a + 1 .. Len(rs) + 1 /\ b \in 1 .. Len(rs) + 1
        /\ b - (a + 1) >= 0
    BY <1>1, <1>2
  <2>2. CountBefore(rs, b) - CountBefore(rs, a + 1) >= b - (a + 1)
    BY <2>1, Grows
  <2>3. CountBefore(rs, b) \in Nat /\ CountBefore(rs, a + 1) \in Nat
    BY <2>1, Counts
  <2>4. b - (a + 1) \in Int
    BY <2>1
  <2>5. QED
    BY <2>1, <2>2, <2>3, <2>4
<1>3. \A a \in 1 .. Len(rs) + 1 : CountBefore(rs, a) \in Nat
  BY Counts
<1>4. ~(j < k)
  <2>1. CountBefore(rs, j + 1) \in Nat /\ CountBefore(rs, k) \in Nat
    BY <1>1, <1>3
  <2>2. QED
    BY <1>2, <2>1
<1>5. ~(k < j)
  <2>1. CountBefore(rs, k + 1) \in Nat /\ CountBefore(rs, j) \in Nat
    BY <1>1, <1>3
  <2>2. QED
    BY <1>2, <2>1
<1>6. QED
  BY <1>4, <1>5

(* What hostlist_find finds is there.                                      *)
LEMMA FoundIs ==
  ASSUME NEW rs \in Lists, NEW s \in Seq(Int),
         hostlist_find(rs, hostname_create(s)) >= 0
  PROVE  LET n == hostlist_find(rs, hostname_create(s)) IN
         hostlist_nth(rs, n) = s \/ rs[RangeOf(rs, n)].single
<1> DEFINE hn == hostname_create(s)
           n == hostlist_find(rs, hn)
<1>1. n \in Nat /\ n < Size(rs)
  BY FindIs, SizeIs
<1>2. PICK k \in 1 .. Len(rs) : FoundAt(rs, hn, n, k)
  <2>1. n # -1
    BY <1>1
  <2>2. QED
    BY <2>1, FindIs
<1> HIDE DEF n
<1>3. RangeOf(rs, n) = k
  <2>1. /\ RangeOf(rs, n) \in 1 .. Len(rs)
        /\ n < CountBefore(rs, RangeOf(rs, n) + 1) /\ n >= CountBefore(rs, RangeOf(rs, n))
    BY <1>1, RangeOfIs
  <2>2. k \in 1 .. Len(rs) + 1 /\ k + 1 \in 1 .. Len(rs) + 1
    BY ListIs
  <2>3. CountBefore(rs, k) \in Nat /\ CountBefore(rs, k + 1) \in Nat
    BY <2>2, Counts
  <2>4. n < CountBefore(rs, k + 1) /\ n >= CountBefore(rs, k)
    BY <1>1, <1>2, <2>3 DEF FoundAt
  <2>5. n \in Int
    BY <1>1
  <2>6. QED
    BY <2>1, <2>4, <2>5, OneRange
<1>4. SUFFICES ASSUME ~rs[k].single PROVE hostlist_nth(rs, n) = s
  BY <1>3 DEF n
<1> DEFINE h == rs[k]
<1>5. h \in HostRange
  BY ListIs
<1>6. h.lo \in Nat /\ h.hi \in Nat /\ h.width \in Nat
  BY <1>5, RangeIs
<1>7. hn.hostname = s /\ hn.num \in Nat /\ hn.width \in Nat /\ hn.valid \in BOOLEAN
      /\ (hn.valid => s = hn.pfx \o Printed(hn.num, hn.width))
  BY NumberIs
<1> HIDE DEF hn
<1>8. /\ hn.valid /\ h.pfx = hn.pfx /\ hn.num \in h.lo .. h.hi
      /\ width_equiv(h.lo, h.width, hn.num, hn.width)
  BY <1>2, <1>4 DEF FoundAt, hn_within
<1>9. zero_padded(hn.num, hn.width) = zero_padded(hn.num, h.width)
  <2>1. h.lo <= hn.num
    BY <1>6, <1>8
  <2>2. Fits(hn.num, h.width, hn.width)
    BY <1>6, <1>7, <1>8, <2>1, EquivIs
  <2>3. QED
    BY <1>6, <1>7, <2>2, PadIs
<1>10. n - CountBefore(rs, k) = hn.num - h.lo
  BY <1>2, <1>4, <1>8 DEF FoundAt
<1>11. hostlist_nth(rs, n) = h.pfx \o Printed(h.lo + (hn.num - h.lo), h.width)
  BY <1>3, <1>4, <1>10 DEF hostlist_nth, Host
<1>12. h.lo + (hn.num - h.lo) = hn.num
  BY <1>6, <1>7
<1>13. Printed(hn.num, h.width) = Printed(hn.num, hn.width)
  BY <1>9 DEF Printed
<1>14. QED
  BY <1>7, <1>8, <1>11, <1>12, <1>13

(* FoundIsThere for all names: hostlist_nth of what hostlist_find returns  *)
(* is the name that was looked for, unless it is a host without a number,  *)
(* which is also found with a 0 behind it.                                 *)
THEOREM HostlistFound == Spec => []FoundIsThere
<1>1. broken \/ HlInv => FoundIsThere
  <2>1. SUFFICES ASSUME HlInv, NEW s \in Asked, hostlist_find(hl.hr, hostname_create(s)) >= 0
                 PROVE  LET hn == hostname_create(s)
                            n == hostlist_find(hl.hr, hn)
                        IN  hostlist_nth(hl.hr, n) = hn.hostname \/ hl.hr[RangeOf(hl.hr, n)].single
    BY DEF FoundIsThere, Looked
  <2>2. s \in Seq(Int)
    BY HostlistAssumption
  <2>3. hl.hr \in Lists
    BY <2>1, ListHas
  <2>4. hostname_create(s).hostname = s
    BY <2>2, NumberIs
  <2>5. QED
    BY <2>1, <2>2, <2>3, <2>4, FoundIs
<1>2. QED
  BY HostlistInductive, <1>1, PTL

(* strcmp: the first place where two names differ, or where one ends.      *)
LessAt(s, t, k) ==
    /\ k <= Len(t) /\ \A i \in 1 .. k - 1 : s[i] = t[i]
    /\ k <= Len(s) => s[k] < t[k]

(* The beginnings of two sequences are equal exactly if their elements     *)
(* are.                                                                    *)
LEMMA FrontsAlike ==
  ASSUME NEW s \in Seq(Int), NEW t \in Seq(Int), NEW n \in Nat, n <= Len(s), n <= Len(t)
  PROVE  SubSeq(s, 1, n) = SubSeq(t, 1, n) <=> \A i \in 1 .. n : s[i] = t[i]
<1> DEFINE a == SubSeq(s, 1, n)
           b == SubSeq(t, 1, n)
<1>1. a \in Seq(Int) /\ Len(a) = n /\ \A i \in 1 .. n : a[i] = s[i]
  OBVIOUS
<1>2. b \in Seq(Int) /\ Len(b) = n /\ \A i \in 1 .. n : b[i] = t[i]
  OBVIOUS
<1> HIDE DEF a, b
<1>3. (\A i \in 1 .. n : a[i] = b[i]) => a = b
  BY <1>1, <1>2, SeqEqual
<1>4. a = b <=> \A i \in 1 .. n : s[i] = t[i]
  BY <1>1, <1>2, <1>3
<1>5. QED
  BY <1>4 DEF a, b

(* strcmp finds less exactly at the first difference.                      *)
LEMMA LessIs ==
  ASSUME NEW s \in Seq(Int), NEW t \in Seq(Int)
  PROVE  strless(s, t) <=> \E k \in 1 .. Len(s) + 1 : LessAt(s, t, k)
<1> DEFINE m == Min({Len(s), Len(t)})
<1>1. Len(s) \in Nat /\ Len(t) \in Nat
  OBVIOUS
<1>2. m = IF Len(s) <= Len(t) THEN Len(s) ELSE Len(t)
  BY <1>1, MinOfTwo
<1> HIDE DEF m
<1>3. ASSUME NEW k \in 1 .. m
      PROVE  /\ k \in 1 .. Len(s) + 1 /\ k <= Len(s) /\ k <= Len(t)
             /\ SubSeq(s, 1, k - 1) = SubSeq(t, 1, k - 1) <=> \A i \in 1 .. k - 1 : s[i] = t[i]
  <2>1. k - 1 \in Nat /\ k <= Len(s) /\ k <= Len(t) /\ k \in 1 .. Len(s) + 1
    BY <1>1, <1>2
  <2>2. k - 1 <= Len(s) /\ k - 1 <= Len(t)
    BY <1>1, <2>1
  <2>3. QED
    BY <2>1, <2>2, FrontsAlike
<1>4. IsStrictPrefix(s, t) <=> Len(s) < Len(t) /\ \A i \in 1 .. Len(s) : s[i] = t[i]
  <2>1. IsStrictPrefix(s, t) <=> Len(s) <= Len(t) /\ SubSeq(s, 1, Len(s)) = SubSeq(t, 1, Len(s))
        /\ s # t
    BY DEF IsStrictPrefix, IsPrefix
  <2>2. Len(s) <= Len(t)
           => (SubSeq(s, 1, Len(s)) = SubSeq(t, 1, Len(s)) <=> \A i \in 1 .. Len(s) : s[i] = t[i])
    BY <1>1, FrontsAlike
  <2>3. Len(s) = Len(t) /\ (\A i \in 1 .. Len(s) : s[i] = t[i]) => s = t
    BY SeqEqual
  <2>4. s = t => Len(s) = Len(t)
    OBVIOUS
  <2>5. Len(s) <= Len(t) <=> Len(s) < Len(t) \/ Len(s) = Len(t)
    BY <1>1
  <2>6. Len(s) < Len(t) => Len(s) # Len(t)
    BY <1>1
  <2>7. QED
    BY <2>1, <2>2, <2>3, <2>4, <2>5, <2>6, Zenon
<1>5. ASSUME strless(s, t) PROVE \E k \in 1 .. Len(s) + 1 : LessAt(s, t, k)
  <2>1. CASE IsStrictPrefix(s, t)
    <3>1. Len(s) + 1 \in 1 .. Len(s) + 1 /\ LessAt(s, t, Len(s) + 1)
      BY <1>1, <1>4, <2>1 DEF LessAt
    <3>2. QED
      BY <3>1
  <2>2. CASE ~IsStrictPrefix(s, t)
    <3>1. PICK k \in 1 .. m : SubSeq(s, 1, k - 1) = SubSeq(t, 1, k - 1) /\ s[k] < t[k]
      BY <1>5, <2>2 DEF strless, m
    <3>2. LessAt(s, t, k) /\ k \in 1 .. Len(s) + 1
      BY <1>3, <3>1 DEF LessAt
    <3>3. QED
      BY <3>2
  <2>3. QED
    BY <2>1, <2>2
<1>6. ASSUME NEW k \in 1 .. Len(s) + 1, LessAt(s, t, k) PROVE strless(s, t)
  <2>1. CASE k <= Len(s)
    <3>1. k \in 1 .. m
      BY <1>1, <1>2, <1>6, <2>1 DEF LessAt
    <3>2. SubSeq(s, 1, k - 1) = SubSeq(t, 1, k - 1) /\ s[k] < t[k]
      BY <1>3, <1>6, <2>1, <3>1 DEF LessAt
    <3>3. QED
      BY <3>1, <3>2 DEF strless, m
  <2>2. CASE ~(k <= Len(s))
    <3>1. k = Len(s) + 1 /\ k - 1 = Len(s)
      BY <1>1, <2>2
    <3>2. IsStrictPrefix(s, t)
      BY <1>1, <1>4, <1>6, <3>1 DEF LessAt
    <3>3. QED
      BY <3>2 DEF strless
  <2>3. QED
    BY <2>1, <2>2
<1>7. QED
  BY <1>5, <1>6

(* It orders names: of two, one is less.                                   *)
LEMMA LessTotal ==
  ASSUME NEW s \in Seq(Int), NEW t \in Seq(Int), s # t
  PROVE  strless(s, t) \/ strless(t, s)
<1>1. Len(s) \in Nat /\ Len(t) \in Nat
  OBVIOUS
<1> DEFINE T == {k \in Nat : k >= 1 /\ (k <= Len(s) \/ k <= Len(t))
                             /\ ~(k <= Len(s) /\ k <= Len(t) /\ s[k] = t[k])}
<1>2. T # {}
  <2>1. SUFFICES ASSUME T = {} PROVE FALSE
    OBVIOUS
  <2>2. \A k \in Nat : k >= 1 /\ (k <= Len(s) \/ k <= Len(t))
              => k <= Len(s) /\ k <= Len(t) /\ s[k] = t[k]
    BY <2>1
  <2>3. Len(s) = Len(t)
    <3>1. Len(s) <= Len(t)
      BY <1>1, <2>2
    <3>2. Len(t) <= Len(s)
      BY <1>1, <2>2
    <3>3. QED
      BY <1>1, <3>1, <3>2
  <2>4. \A i \in 1 .. Len(s) : s[i] = t[i]
    BY <1>1, <2>2
  <2>5. QED
    BY <2>3, <2>4, SeqEqual
<1>3. PICK k \in T : \A y \in T : ~(y < k)
  <2>1. T \in SUBSET Nat
    OBVIOUS
  <2>2. QED
    BY <1>2, <2>1, NatMin
<1>4. \A i \in 1 .. k - 1 : i <= Len(s) /\ i <= Len(t) /\ s[i] = t[i]
  <2>1. ASSUME NEW i \in 1 .. k - 1 PROVE i <= Len(s) /\ i <= Len(t) /\ s[i] = t[i]
    <3>1. i \in Nat /\ i >= 1 /\ i < k /\ (i <= Len(s) \/ i <= Len(t))
      BY <1>1
    <3>2. i \notin T
      BY <1>3, <3>1
    <3>3. QED
      BY <3>1, <3>2
  <2>2. QED
    BY <2>1
<1>5. k \in 1 .. Len(s) + 1 /\ k \in 1 .. Len(t) + 1
  <2>1. CASE k = 1
    BY <1>1, <2>1
  <2>2. CASE k # 1
    <3>1. k - 1 \in 1 .. k - 1
      BY <2>2
    <3>2. k - 1 <= Len(s) /\ k - 1 <= Len(t)
      BY <1>4, <3>1
    <3>3. QED
      BY <1>1, <3>2
  <2>3. QED
    BY <2>1, <2>2
<1>6. LessAt(s, t, k) \/ LessAt(t, s, k)
  <2>1. CASE k <= Len(s) /\ k <= Len(t)
    <3>1. s[k] \in Int /\ t[k] \in Int /\ s[k] # t[k]
      BY <2>1
    <3>2. s[k] < t[k] \/ t[k] < s[k]
      BY <3>1
    <3>3. QED
      BY <1>4, <2>1, <3>2 DEF LessAt
  <2>2. CASE ~(k <= Len(s))
    BY <1>4, <2>2 DEF LessAt
  <2>3. CASE ~(k <= Len(t))
    BY <1>4, <2>3 DEF LessAt
  <2>4. QED
    BY <2>1, <2>2, <2>3
<1>7. QED
  BY <1>5, <1>6, LessIs

(* The order of strcmp is transitive,                                      *)
LEMMA LessTransitive ==
  ASSUME NEW s \in Seq(Int), NEW t \in Seq(Int), NEW u \in Seq(Int), strless(s, t), strless(t, u)
  PROVE  strless(s, u)
<1>1. Len(s) \in Nat /\ Len(t) \in Nat /\ Len(u) \in Nat
      /\ (\A i \in 1 .. Len(s) : s[i] \in Int) /\ (\A i \in 1 .. Len(t) : t[i] \in Int)
      /\ (\A i \in 1 .. Len(u) : u[i] \in Int)
  OBVIOUS
<1>2. PICK k \in 1 .. Len(s) + 1 : LessAt(s, t, k)
  BY LessIs
<1>3. PICK m \in 1 .. Len(t) + 1 : LessAt(t, u, m)
  BY LessIs
<1>4. k \in Nat /\ m \in Nat /\ k >= 1 /\ m >= 1 /\ k <= Len(s) + 1 /\ k <= Len(t) /\ m <= Len(u)
      /\ m <= Len(t) + 1
  BY <1>1, <1>2, <1>3 DEF LessAt
<1>5. /\ \A i \in 1 .. k - 1 : s[i] = t[i]
      /\ \A i \in 1 .. m - 1 : t[i] = u[i]
      /\ k <= Len(s) => s[k] < t[k]
      /\ m <= Len(t) => t[m] < u[m]
  BY <1>2, <1>3 DEF LessAt
<1>6. CASE k < m
  <2>1. k <= Len(u) /\ t[k] = u[k] /\ \A i \in 1 .. k - 1 : t[i] = u[i]
    BY <1>4, <1>5, <1>6
  <2>2. LessAt(s, u, k)
    BY <1>5, <2>1 DEF LessAt
  <2>3. QED
    BY <2>2, LessIs
<1>7. CASE k = m
  <2>1. k <= Len(s) => s[k] < u[k]
    <3>1. SUFFICES ASSUME k <= Len(s) PROVE s[k] < u[k]
      OBVIOUS
    <3>2. s[k] \in Int /\ t[k] \in Int /\ u[k] \in Int
      BY <1>1, <1>4, <1>7, <3>1
    <3>3. s[k] < t[k] /\ t[k] < u[k]
      BY <1>4, <1>5, <1>7, <3>1
    <3>4. QED
      BY <3>2, <3>3
  <2>2. LessAt(s, u, k)
    BY <1>4, <1>5, <1>7, <2>1 DEF LessAt
  <2>3. QED
    BY <2>2, LessIs
<1>8. CASE m < k
  <2>1. m \in 1 .. k - 1 /\ m <= Len(t) /\ m \in 1 .. Len(s) + 1
    BY <1>1, <1>4, <1>8, SMTT(30)
  <2>2. s[m] = t[m] /\ t[m] < u[m] /\ \A i \in 1 .. m - 1 : s[i] = t[i]
    BY <1>4, <1>5, <1>8, <2>1
  <2>3. LessAt(s, u, m)
    BY <1>4, <1>5, <2>2 DEF LessAt
  <2>4. QED
    BY <2>1, <2>3, LessIs
<1>9. QED
  BY <1>4, <1>6, <1>7, <1>8

(* and irreflexive.                                                        *)
LEMMA LessNot ==
  ASSUME NEW s \in Seq(Int)
  PROVE  ~strless(s, s)
<1>1. SUFFICES ASSUME NEW k \in 1 .. Len(s) + 1, LessAt(s, s, k) PROVE FALSE
  BY LessIs
<1>2. k \in 1 .. Len(s) /\ s[k] < s[k]
  BY <1>1 DEF LessAt
<1>3. s[k] \in Int
  BY <1>2
<1>4. QED
  BY <1>2, <1>3

(* Order by prefix, hosts without a number first; what is between two of   *)
(* one prefix has it too.                                                  *)
KeyLeq(g, h) == ~strless(h.pfx, g.pfx) /\ (g.pfx = h.pfx /\ h.single => g.single)

(* The order of prefixes and widths is transitive, and what stands between *)
(* equal prefixes has the same.                                            *)
LEMMA KeyBetween ==
  ASSUME NEW g \in HostRange, NEW h \in HostRange, NEW i \in HostRange, KeyLeq(g, h), KeyLeq(h, i)
  PROVE  KeyLeq(g, i) /\ (prefix_eq(g, i) => prefix_eq(g, h) /\ prefix_eq(h, i))
<1> DEFINE p == g.pfx
           q == h.pfx
           r == i.pfx
<1>1. /\ p \in Seq(Int) /\ q \in Seq(Int) /\ r \in Seq(Int)
      /\ g.single \in BOOLEAN /\ h.single \in BOOLEAN /\ i.single \in BOOLEAN
  BY RangeIs
<1>2. /\ ~strless(q, p) /\ ~strless(r, q)
      /\ p = q /\ h.single => g.single
      /\ q = r /\ i.single => h.single
  BY DEF KeyLeq
<1> HIDE DEF p, q, r
<1>3. ~strless(r, p)
  <2>1. SUFFICES ASSUME strless(r, p) PROVE FALSE
    OBVIOUS
  <2>2. p # q
    BY <1>2, <2>1
  <2>3. strless(p, q)
    BY <1>1, <1>2, <2>2, LessTotal
  <2>4. strless(r, q)
    BY <1>1, <2>1, <2>3, LessTransitive
  <2>5. QED
    BY <1>2, <2>4
<1>4. p = r => q = p
  BY <1>1, <1>2, LessTotal
<1>5. p = r /\ i.single => g.single
  BY <1>2, <1>4
<1>6. KeyLeq(g, i)
  BY <1>3, <1>5 DEF KeyLeq, p, r
<1>7. ASSUME prefix_eq(g, i) PROVE prefix_eq(g, h) /\ prefix_eq(h, i)
  <2>1. p = r /\ g.single = i.single
    BY <1>7 DEF prefix_eq, p, r
  <2>2. q = p /\ q = r
    BY <1>4, <2>1
  <2>3. h.single = g.single
    BY <1>1, <1>2, <2>1, <2>2
  <2>4. QED
    BY <2>1, <2>2, <2>3 DEF prefix_eq, p, q, r
<1>8. QED
  BY <1>6, <1>7

(* hostrange_width_combine says yes exactly if one width serves both first *)
(* numbers.                                                                *)
LEMMA CombineIs ==
  ASSUME NEW g \in HostRange, NEW h \in HostRange
  PROVE  /\ width_combine(g, h) <=> Fits(g.lo, g.width, h.width) \/ Fits(h.lo, g.width, h.width)
         /\ width_combine(h, g) <=> width_combine(g, h)
<1>1. g.lo \in Nat /\ g.width \in Nat /\ h.lo \in Nat /\ h.width \in Nat
  BY RangeIs
<1>2. width_combine(g, h) <=> Fits(g.lo, g.width, h.width) \/ Fits(h.lo, g.width, h.width)
  BY <1>1, EquivIs DEF width_combine
<1>3. width_combine(h, g) <=> Fits(h.lo, h.width, g.width) \/ Fits(g.lo, h.width, g.width)
  BY <1>1, EquivIs DEF width_combine
<1>4. \A n : Fits(n, h.width, g.width) <=> Fits(n, g.width, h.width)
  BY DEF Fits
<1>5. QED
  BY <1>2, <1>3, <1>4

(* hostrange_cmp.                                                          *)
Before(g, h) ==
    /\ KeyLeq(g, h)
    /\ prefix_eq(g, h) => IF width_combine(g, h) THEN g.lo <= h.lo ELSE g.width <= h.width

(* hostrange_cmp finds no disorder exactly if Before holds.                *)
LEMMA CmpIs ==
  ASSUME NEW g \in HostRange, NEW h \in HostRange
  PROVE  ~cmp_less(h, g) <=> Before(g, h)
<1>1. /\ g.pfx \in Seq(Int) /\ h.pfx \in Seq(Int) /\ g.single \in BOOLEAN /\ h.single \in BOOLEAN
      /\ g.lo \in Nat /\ g.width \in Nat /\ h.lo \in Nat /\ h.width \in Nat
  BY RangeIs
<1>2. CASE h.pfx # g.pfx
  <2>1. cmp_less(h, g) <=> strless(h.pfx, g.pfx)
    BY <1>2, Zenon DEF cmp_less
  <2>2. Before(g, h) <=> ~strless(h.pfx, g.pfx)
    BY <1>2, Zenon DEF Before, KeyLeq, prefix_eq
  <2>3. QED
    BY <2>1, <2>2
<1>3. CASE h.pfx = g.pfx /\ h.single # g.single
  <2>1. cmp_less(h, g) <=> h.single
    BY <1>3, Zenon DEF cmp_less
  <2>2. ~strless(h.pfx, g.pfx)
    BY <1>1, <1>3, LessNot
  <2>3. Before(g, h) <=> (h.single => g.single)
    BY <1>3, <2>2, Zenon DEF Before, KeyLeq, prefix_eq
  <2>4. h.single => ~g.single
    BY <1>1, <1>3
  <2>5. QED
    BY <2>1, <2>3, <2>4, Zenon
<1>4. CASE h.pfx = g.pfx /\ h.single = g.single
  <2>1. cmp_less(h, g) <=> IF width_combine(h, g) THEN h.lo < g.lo ELSE h.width < g.width
    BY <1>4, Zenon DEF cmp_less
  <2>2. ~strless(h.pfx, g.pfx)
    BY <1>1, <1>4, LessNot
  <2>3. Before(g, h) <=> IF width_combine(g, h) THEN g.lo <= h.lo ELSE g.width <= h.width
    BY <1>4, <2>2, Zenon DEF Before, KeyLeq, prefix_eq
  <2>4. width_combine(h, g) <=> width_combine(g, h)
    BY CombineIs
  <2>5. ~(h.lo < g.lo) <=> g.lo <= h.lo
    BY <1>1
  <2>6. ~(h.width < g.width) <=> g.width <= h.width
    BY <1>1
  <2>7. QED
    BY <2>1, <2>3, <2>4, <2>5, <2>6, Zenon
<1>5. QED
  BY <1>2, <1>3, <1>4

(* What is in order with b is with a lower one that is padded alike.       *)
LEMMA StillBefore ==
  ASSUME NEW a \in HostRange, NEW b \in HostRange, NEW c \in HostRange,
         prefix_eq(a, b), a.lo <= b.lo, width_combine(a, b), Before(b, c)
  PROVE  Before(a, c)
<1> DEFINE L(n) == Len(Digits[n])
           wa == a.width
           wb == b.width
           wc == c.width
           la == L(a.lo)
           lb == L(b.lo)
           lc == L(c.lo)
<1>1. /\ a.lo \in Nat /\ b.lo \in Nat /\ c.lo \in Nat /\ wa \in Nat /\ wb \in Nat /\ wc \in Nat
  BY RangeIs
<1>2. \A m \in Nat : \A n \in 0 .. m : L(n) \in Nat /\ L(m) \in Nat /\ L(n) <= L(m)
  BY DigitsGrow
<1>3. la \in Nat /\ lb \in Nat /\ lc \in Nat /\ la <= lb
      /\ (a.lo <= c.lo => la <= lc) /\ (b.lo <= c.lo => lb <= lc)
      /\ (c.lo <= a.lo => lc <= la) /\ (c.lo <= b.lo => lc <= lb)
  <2> HIDE DEF L
  <2>1. \A m \in Nat, n \in Nat : n <= m => n \in 0 .. m
    OBVIOUS
  <2>2. QED
    BY <1>1, <1>2, <2>1
<1>4. /\ width_combine(a, b) <=> wa = wb \/ (wa <= la /\ wb <= la) \/ (wa <= lb /\ wb <= lb)
      /\ width_combine(b, c) <=> wb = wc \/ (wb <= lb /\ wc <= lb) \/ (wb <= lc /\ wc <= lc)
      /\ width_combine(a, c) <=> wa = wc \/ (wa <= la /\ wc <= la) \/ (wa <= lc /\ wc <= lc)
  BY CombineIs, Zenon DEF Fits
<1>5. KeyLeq(a, c)
  <2>1. a.pfx = b.pfx /\ a.single = b.single
    BY DEF prefix_eq
  <2>2. QED
    BY <2>1, Zenon DEF Before, KeyLeq
<1>6. ASSUME prefix_eq(a, c) PROVE IF width_combine(a, c) THEN a.lo <= c.lo ELSE wa <= wc
  <2>1. prefix_eq(b, c)
    BY <1>6 DEF prefix_eq
  <2>2. IF width_combine(b, c) THEN b.lo <= c.lo ELSE wb <= wc
    BY <2>1 DEF Before
  <2> DEFINE ab == width_combine(a, b)
             bc == width_combine(b, c)
             ac == width_combine(a, c)
             x == a.lo
             y == b.lo
             z == c.lo
  <2>3. ab /\ x <= y
    OBVIOUS
  <2>4. IF bc THEN y <= z ELSE wb <= wc
    BY <2>2
  <2>5. x \in Nat /\ y \in Nat /\ z \in Nat
    BY <1>1
  <2> HIDE DEF ab, bc, ac, x, y, z, wa, wb, wc, la, lb, lc, L
  <2>6. IF ac THEN x <= z ELSE wa <= wc
    <3>1. ab <=> wa = wb \/ (wa <= la /\ wb <= la) \/ (wa <= lb /\ wb <= lb)
      BY <1>4 DEF ab
    <3>2. bc <=> wb = wc \/ (wb <= lb /\ wc <= lb) \/ (wb <= lc /\ wc <= lc)
      BY <1>4 DEF bc
    <3>3. ac <=> wa = wc \/ (wa <= la /\ wc <= la) \/ (wa <= lc /\ wc <= lc)
      BY <1>4 DEF ac
    <3>4. (x <= z => la <= lc) /\ (y <= z => lb <= lc) /\ (z <= x => lc <= la)
          /\ (z <= y => lc <= lb)
      BY <1>3 DEF x, y, z
    <3>5. wa \in Nat /\ wb \in Nat /\ wc \in Nat /\ la \in Nat /\ lb \in Nat /\ lc \in Nat
          /\ la <= lb
      BY <1>1, <1>3
    <3>6. CASE bc
      <4>1. ac /\ x <= z
        BY <2>3, <2>4, <2>5, <3>1, <3>2, <3>3, <3>4, <3>5, <3>6
      <4>2. QED
        BY <4>1
    <3>7. CASE ~bc
      <4>1. wb < wc /\ ~(wc <= lb) /\ ~(wc <= lc /\ wb <= lc)
        BY <2>4, <3>2, <3>5, <3>7
      <4>2. wa = wb \/ (wa <= lb /\ wb <= lb)
        BY <2>3, <3>1, <3>5
      <4>3. wa < wc
        BY <3>5, <4>1, <4>2
      <4>4. CASE ac
        <5>1. ~(wc <= la)
          BY <3>5, <4>1
        <5>2. wc <= lc
          BY <3>3, <3>5, <4>3, <4>4, <5>1
        <5>3. FALSE
          BY <3>5, <4>1, <5>2
        <5>4. QED
          BY <5>3
      <4>5. QED
        BY <3>5, <4>3, <4>4
    <3>8. QED
      BY <3>6, <3>7
  <2>7. QED
    BY <2>6 DEF ac, x, z
<1>7. QED
  BY <1>5, <1>6 DEF Before

(* A list with one more range.                                             *)
LEMMA OneMore ==
  ASSUME NEW rs \in Lists, NEW h \in HostRange
  PROVE  /\ Append(rs, h) \in Lists \ {<<>>} /\ Len(Append(rs, h)) = Len(rs) + 1
         /\ Last(Append(rs, h)) = h /\ Append(rs, h)[Len(rs) + 1] = h
         /\ \A k \in 1 .. Len(rs) : Append(rs, h)[k] = rs[k]
<1> DEFINE s == Append(rs, h)
<1>1. s \in Lists \ {<<>>} /\ Len(s) = Len(rs) + 1 /\ Len(rs) \in Nat
  BY AppendSize, ListIs
<1>2. s[Len(rs) + 1] = h /\ \A k \in 1 .. Len(rs) : s[k] = rs[k]
  BY DEF Lists
<1>3. Last(s) = h
  BY <1>1, <1>2 DEF Last
<1>4. QED
  BY <1>1, <1>2, <1>3

(* Two ranges are padded alike when one of them is asked; one range is.    *)
LEMMA CombineSelf ==
  ASSUME NEW g \in HostRange
  PROVE  width_combine(g, g) /\ prefix_eq(g, g) /\ KeyLeq(g, g) /\ Before(g, g)
<1>1. width_combine(g, g) /\ prefix_eq(g, g)
  BY DEF width_combine, width_equiv, prefix_eq
<1>2. KeyLeq(g, g)
  BY RangeIs, LessNot DEF KeyLeq
<1>3. g.lo <= g.lo
  BY RangeIs
<1>4. QED
  BY <1>1, <1>2, <1>3 DEF Before

(* a stands for a range of rs: it begins as that does and is padded so.    *)
Starts_(a, h) == a.pfx = h.pfx /\ a.single = h.single /\ a.lo = h.lo /\ a.width = h.width

(* a begins as some range of rs does.                                      *)
From(a, rs) == \E i \in 1 .. Len(rs) : Starts_(a, rs[i])

(* Two ranges that begin as ranges of a list of like widths combine.       *)
LEMMA FromAlike ==
  ASSUME NEW rs \in Lists, Alike(rs), NEW a, NEW b, From(a, rs), From(b, rs), prefix_eq(a, b)
  PROVE  width_combine(a, b)
<1>1. PICK i \in 1 .. Len(rs) : Starts_(a, rs[i])
  BY DEF From
<1>2. PICK j \in 1 .. Len(rs) : Starts_(b, rs[j])
  BY DEF From
<1>3. rs[i] \in Range(rs) /\ rs[j] \in Range(rs)
  BY ListIs DEF Range
<1>4. prefix_eq(rs[i], rs[j])
  BY <1>1, <1>2 DEF Starts_, prefix_eq
<1>5. width_combine(rs[i], rs[j])
  BY <1>3, <1>4 DEF Alike
<1>6. QED
  BY <1>1, <1>2, <1>5 DEF width_combine, Starts_

(* The order of a sorted list, neighbour by neighbour.                     *)
Ordered(rs) == \A k \in 2 .. Len(rs) : Before(rs[k - 1], rs[k])

(* What hostlist_uniq has made when it has come to x: its last range is    *)
(* not after x and padded as x is.                                         *)
Reaches(acc, x) ==
    acc \in Lists \ {<<>>} /\ prefix_eq(Last(acc), x) /\ Last(acc).lo <= x.lo
    /\ width_combine(Last(acc), x)

(* No assertion of a step fails.                                           *)
LEMMA JoinedIs ==
  ASSUME NEW acc, NEW x \in HostRange, NEW h \in HostRange, Reaches(acc, x), Before(x, h)
  PROVE  /\ Last(acc) \in HostRange /\ Front(acc) \in Lists /\ Before(Last(acc), h)
         /\ Joined(acc, h) = IF Joins(Last(acc), h) THEN Append(Front(acc), Join(Last(acc), h))
                             ELSE Append(acc, h)
         /\ Reaches(Joined(acc, h), h)
<1> DEFINE l == Last(acc)
<1>1. acc \in Lists /\ acc # <<>> /\ acc # NULL
  BY NoList DEF Reaches, Lists
<1>2. l \in HostRange /\ Front(acc) \in Lists
  BY <1>1, FrontIs
<1>3. prefix_eq(l, x) /\ l.lo <= x.lo /\ width_combine(l, x)
  BY DEF Reaches
<1> HIDE DEF l
<1>4. Before(l, h)
  BY <1>2, <1>3, StillBefore
<1>5. ~cmp_less(h, l)
  BY <1>2, <1>4, CmpIs
<1>6. Joined(acc, h) = IF Joins(l, h) THEN Append(Front(acc), Join(l, h)) ELSE Append(acc, h)
  BY <1>1, <1>5 DEF Joined, l
<1>7. CASE Joins(l, h)
  <2> DEFINE e == Join(l, h)
             new == Append(Front(acc), e)
  <2>1. e \in HostRange
    BY <1>2, <1>7, JoinIs
  <2>2. e.pfx = l.pfx /\ e.single = l.single /\ e.lo = l.lo /\ e.width = l.width
    BY <1>2, OtherEnd DEF Join, Bounded
  <2> HIDE DEF e
  <2>3. new \in Lists \ {<<>>} /\ Last(new) = e
    BY <1>2, <2>1, OneMore
  <2>4. prefix_eq(l, h) /\ width_combine(l, h)
    BY <1>7 DEF Joins
  <2>5. l.lo <= h.lo
    BY <1>4, <2>4 DEF Before
  <2>6. prefix_eq(e, h) /\ width_combine(e, h) /\ e.lo <= h.lo
    BY <2>2, <2>4, <2>5 DEF prefix_eq, width_combine
  <2>7. Reaches(new, h)
    BY <2>3, <2>6 DEF Reaches
  <2>8. QED
    BY <1>2, <1>4, <1>6, <1>7, <2>7 DEF e, l
<1>8. CASE ~Joins(l, h)
  <2>1. Append(acc, h) \in Lists \ {<<>>} /\ Last(Append(acc, h)) = h
    BY <1>1, OneMore
  <2>2. prefix_eq(h, h) /\ width_combine(h, h) /\ h.lo <= h.lo
    BY CombineSelf, RangeIs
  <2>3. Reaches(Append(acc, h), h)
    BY <2>1, <2>2 DEF Reaches
  <2>4. QED
    BY <1>2, <1>4, <1>6, <1>8, <2>3 DEF l
<1>9. QED
  BY <1>7, <1>8

(* What it has made of ranges that are padded alike: they are apart.       *)
Spread(acc, rs) ==
    /\ Apart(acc, 1) /\ From(Last(acc), rs)
    /\ \A j \in 1 .. Len(acc) : KeyLeq(acc[j], Last(acc))

(* A step of the loop in hostlist_uniq keeps Spread.                       *)
LEMMA JoinedSpread ==
  ASSUME NEW rs \in Lists, Alike(rs), NEW acc, NEW x \in HostRange, NEW m \in 1 .. Len(rs),
         Reaches(acc, x), Before(x, rs[m]), Spread(acc, rs)
  PROVE  Spread(Joined(acc, rs[m]), rs)
<1> DEFINE h == rs[m]
           l == Last(acc)
           n == Len(acc)
<1>1. h \in HostRange /\ From(h, rs)
  BY ListIs DEF From, Starts_
<1>2. /\ l \in HostRange /\ Front(acc) \in Lists /\ Before(l, h)
      /\ Joined(acc, h) = IF Joins(l, h) THEN Append(Front(acc), Join(l, h)) ELSE Append(acc, h)
  BY <1>1, JoinedIs
<1>3. /\ acc \in Lists /\ acc # <<>> /\ n \in Nat /\ n # 0 /\ l = acc[n] /\ DOMAIN acc = 1 .. n
      /\ \A j \in 1 .. n : acc[j] \in HostRange
  <2>1. acc \in Lists /\ acc # <<>>
    BY DEF Reaches
  <2>2. QED
    BY <2>1, ListIs, NotEmpty DEF Last
<1>4. /\ l.lo \in Nat /\ l.hi \in Nat /\ h.lo \in Nat /\ h.hi \in Nat /\ l.lo <= l.hi
  BY <1>1, <1>2, RangeIs
<1>5. /\ Apart(acc, 1) /\ From(l, rs) /\ \A j \in 1 .. n : KeyLeq(acc[j], l)
  BY DEF Spread
<1> HIDE DEF n, l, h
<1>6. \A j, k \in 1 .. n : j < k /\ prefix_eq(acc[j], acc[k]) => acc[j].hi + 1 <= acc[k].lo
  <2>1. ~(1 = 0)
    OBVIOUS
  <2>2. QED
    BY <1>3, <1>5, <2>1 DEF Apart
<1>7. \A j \in 1 .. n : acc[j].hi \in Nat
  BY <1>3, RangeIs
<1>8. KeyLeq(l, h)
  BY <1>2 DEF Before
<1>9. CASE Joins(l, h)
  <2> DEFINE e == Join(l, h)
             new == Append(Front(acc), e)
  <2>1. e \in HostRange
    BY <1>1, <1>2, <1>9, JoinIs
  <2>2. e.pfx = l.pfx /\ e.single = l.single /\ e.lo = l.lo /\ e.width = l.width
    BY <1>2, OtherEnd DEF Join, Bounded
  <2> HIDE DEF e
  <2>3. /\ new \in Lists /\ Len(new) = n /\ Last(new) = e /\ new[n] = e
        /\ \A j \in 1 .. n - 1 : new[j] = acc[j]
    <3>1. Len(Front(acc)) = n - 1 /\ \A j \in 1 .. n - 1 : Front(acc)[j] = acc[j]
      BY <1>3, FrontIs DEF n
    <3>2. /\ new \in Lists /\ Len(new) = (n - 1) + 1 /\ Last(new) = e /\ new[(n - 1) + 1] = e
          /\ \A j \in 1 .. n - 1 : new[j] = Front(acc)[j]
      BY <1>2, <2>1, <3>1, OneMore
    <3>3. (n - 1) + 1 = n
      BY <1>3
    <3>4. QED
      BY <3>1, <3>2, <3>3
  <2> HIDE DEF new
  <2>4. DOMAIN new = 1 .. n
    BY <2>3, ListIs
  <2>5. ASSUME NEW j \in 1 .. n, NEW k \in 1 .. n, j < k, prefix_eq(new[j], new[k])
        PROVE  new[j].hi + 1 <= new[k].lo
    <3>1. j \in 1 .. n - 1 /\ new[j] = acc[j]
      BY <1>3, <2>3, <2>5
    <3>2. new[k].pfx = acc[k].pfx /\ new[k].single = acc[k].single /\ new[k].lo = acc[k].lo
      <4>1. CASE k = n
        <5>1. new[k] = e /\ acc[k] = l
          BY <1>3, <2>3, <4>1
        <5>2. QED
          BY <2>2, <5>1
      <4>2. CASE k # n
        <5>1. k \in 1 .. n - 1
          BY <1>3, <4>2
        <5>2. QED
          BY <2>3, <5>1
      <4>3. QED
        BY <4>1, <4>2
    <3>3. prefix_eq(acc[j], acc[k])
      BY <2>5, <3>1, <3>2 DEF prefix_eq
    <3>4. QED
      BY <1>6, <2>5, <3>1, <3>2, <3>3
  <2>6. Apart(new, 1)
    BY <2>4, <2>5 DEF Apart
  <2>7. From(Last(new), rs)
    BY <1>5, <2>2, <2>3 DEF From, Starts_
  <2>8. \A j \in 1 .. Len(new) : KeyLeq(new[j], Last(new))
    <3>1. KeyLeq(e, e)
      BY <2>1, CombineSelf
    <3>2. \A j \in 1 .. n - 1 : KeyLeq(acc[j], e)
      BY <1>3, <1>5, <2>2 DEF KeyLeq
    <3>3. ASSUME NEW j \in 1 .. n PROVE KeyLeq(new[j], e)
      <4>1. CASE j = n
        BY <2>3, <3>1, <4>1
      <4>2. CASE j # n
        <5>1. j \in 1 .. n - 1
          BY <1>3, <4>2
        <5>2. QED
          BY <2>3, <3>2, <5>1
      <4>3. QED
        BY <4>1, <4>2
    <3>4. QED
      BY <2>3, <3>3
  <2>9. QED
    BY <1>2, <1>9, <2>6, <2>7, <2>8 DEF Spread, new, e, h
<1>10. CASE ~Joins(l, h)
  <2> DEFINE new == Append(acc, h)
  <2>1. /\ new \in Lists /\ Len(new) = n + 1 /\ Last(new) = h /\ new[n + 1] = h
        /\ \A j \in 1 .. n : new[j] = acc[j]
    BY <1>1, <1>3, OneMore DEF n
  <2> HIDE DEF new
  <2>2. DOMAIN new = 1 .. n + 1
    BY <2>1, ListIs
  <2>3. ASSUME NEW j \in 1 .. n
        PROVE  KeyLeq(acc[j], h) /\ (prefix_eq(acc[j], h) => acc[j].hi + 1 <= h.lo)
    <3>1. KeyLeq(acc[j], h) /\ (prefix_eq(acc[j], h) => prefix_eq(acc[j], l) /\ prefix_eq(l, h))
      BY <1>1, <1>2, <1>3, <1>5, <1>8, KeyBetween
    <3>2. ASSUME prefix_eq(acc[j], h) PROVE acc[j].hi + 1 <= h.lo
      <4>1. prefix_eq(acc[j], l) /\ prefix_eq(l, h)
        BY <3>1, <3>2
      <4>2. width_combine(l, h)
        BY <1>1, <1>5, <4>1, FromAlike
      <4>3. ~(l.hi >= h.lo - 1)
        BY <1>10, <4>1, <4>2 DEF Joins
      <4>4. CASE j = n
        BY <1>3, <1>4, <4>3, <4>4
      <4>5. CASE j # n
        <5>1. j < n /\ n \in 1 .. n
          BY <1>3, <4>5
        <5>2. acc[j].hi + 1 <= l.lo
          BY <1>3, <1>6, <4>1, <5>1
        <5>3. QED
          BY <1>4, <1>7, <4>3, <5>2, SMTT(30)
      <4>6. QED
        BY <4>4, <4>5
    <3>3. QED
      BY <3>1, <3>2
  <2>4. ASSUME NEW j \in 1 .. n + 1, NEW k \in 1 .. n + 1, j < k, prefix_eq(new[j], new[k])
        PROVE  new[j].hi + 1 <= new[k].lo
    <3>1. j \in 1 .. n /\ new[j] = acc[j]
      BY <1>3, <2>1, <2>4
    <3>2. CASE k = n + 1
      BY <2>1, <2>3, <2>4, <3>1, <3>2
    <3>3. CASE k # n + 1
      <4>1. k \in 1 .. n /\ new[k] = acc[k]
        BY <1>3, <2>1, <3>3
      <4>2. QED
        BY <1>6, <2>4, <3>1, <4>1
    <3>4. QED
      BY <3>2, <3>3
  <2>5. Apart(new, 1)
    BY <2>2, <2>4 DEF Apart
  <2>6. From(Last(new), rs)
    BY <1>1, <2>1
  <2>7. \A j \in 1 .. Len(new) : KeyLeq(new[j], Last(new))
    <3>1. KeyLeq(h, h)
      BY <1>1, CombineSelf
    <3>2. \A j \in 1 .. n + 1 : j = n + 1 \/ j \in 1 .. n
      BY <1>3
    <3>3. QED
      BY <2>1, <2>3, <3>1, <3>2
  <2>8. QED
    BY <1>2, <1>10, <2>5, <2>6, <2>7 DEF Spread, new, h
<1>11. QED
  BY <1>9, <1>10

(* No assertion of hostlist_uniq fails for a sorted list, and where its    *)
(* ranges are padded alike, those it leaves do not even touch.             *)
THEOREM UniqIs ==
  ASSUME NEW rs \in Lists, rs # <<>>, Ordered(rs)
  PROVE  join_all(rs) \in Lists \ {<<>>} /\ (Alike(rs) => Apart(join_all(rs), 1))
<1> DEFINE N == Len(rs)
<1>1. N \in Nat /\ N >= 1 /\ \A n \in 1 .. N : rs[n] \in HostRange
  BY NotEmpty, ListIs
<1>2. PICK f : JoinsUp(f, rs)
  BY JoinAllIs
<1>3. /\ f[0] = <<rs[1]>> /\ f[N - 1] = join_all(rs)
      /\ \A n \in 1 .. N - 1 : f[n] = Joined(f[n - 1], rs[n + 1])
  BY <1>2 DEF JoinsUp
<1>4. \A n \in 1 .. N - 1 : n \in 1 .. N /\ n + 1 \in 1 .. N /\ Before(rs[n], rs[n + 1])
  <2>1. ASSUME NEW n \in 1 .. N - 1
        PROVE n \in 1 .. N /\ n + 1 \in 1 .. N /\ Before(rs[n], rs[n + 1])
    <3>1. n + 1 \in 2 .. N /\ (n + 1) - 1 = n /\ n \in 1 .. N /\ n + 1 \in 1 .. N
      BY <1>1
    <3>2. Before(rs[(n + 1) - 1], rs[n + 1])
      BY <3>1 DEF Ordered
    <3>3. QED
      BY <3>1, <3>2
  <2>2. QED
    BY <2>1
<1> DEFINE Right(acc, n) == Reaches(acc, rs[n]) /\ (Alike(rs) => Spread(acc, rs))
           S == {n \in Nat : n <= N - 1 => Right(f[n], n + 1)}
<1>5. 0 \in S
  <2> DEFINE h == rs[1]
             acc == <<h>>
  <2>1. h \in HostRange /\ 1 \in 1 .. N
    BY <1>1
  <2>2. acc \in Lists \ {<<>>} /\ Len(acc) = 1 /\ acc[1] = h
    <3>1. acc \in Lists /\ Len(acc) = 1
      BY <2>1, OneSize
    <3>2. acc # <<>>
      BY <3>1, NotEmpty
    <3>3. QED
      BY <3>1, <3>2
  <2> HIDE DEF acc, h
  <2>3. Last(acc) = h
    BY <2>2 DEF Last
  <2>4. prefix_eq(h, h) /\ width_combine(h, h) /\ KeyLeq(h, h) /\ h.lo <= h.lo
    BY <2>1, CombineSelf, RangeIs
  <2>5. Reaches(acc, h)
    BY <2>2, <2>3, <2>4 DEF Reaches
  <2>6. Spread(acc, rs)
    <3>1. DOMAIN acc = 1 .. 1
      BY <2>2, ListIs
    <3>2. Apart(acc, 1)
      BY <3>1 DEF Apart
    <3>3. From(h, rs)
      BY <2>1 DEF From, Starts_, h
    <3>4. \A j \in 1 .. Len(acc) : KeyLeq(acc[j], Last(acc))
      BY <2>2, <2>3, <2>4
    <3>5. QED
      BY <2>3, <3>2, <3>3, <3>4 DEF Spread
  <2>7. f[0] = acc /\ 0 + 1 = 1 /\ rs[1] = h
    BY <1>3 DEF acc, h
  <2>8. Right(f[0], 0 + 1)
    BY <2>5, <2>6, <2>7
  <2> HIDE DEF Right
  <2>9. QED
    BY <2>8
<1>6. ASSUME NEW n \in Nat, n \in S PROVE n + 1 \in S
  <2> DEFINE acc == f[n]
             x == rs[n + 1]
             m == n + 2
  <2>1. SUFFICES ASSUME n + 1 <= N - 1 PROVE Right(f[n + 1], (n + 1) + 1)
    OBVIOUS
  <2>2. /\ n + 1 \in 1 .. N - 1 /\ n <= N - 1 /\ (n + 1) - 1 = n /\ (n + 1) + 1 = m
           /\ n + 1 \in 1 .. N
        /\ m \in 1 .. N
    BY <1>1, <2>1
  <2>3. Reaches(acc, x) /\ (Alike(rs) => Spread(acc, rs))
    BY <1>6, <2>2
  <2>4. f[n + 1] = Joined(acc, rs[m]) /\ Before(x, rs[m]) /\ x \in HostRange /\ rs[m] \in HostRange
    <3>1. f[n + 1] = Joined(f[(n + 1) - 1], rs[(n + 1) + 1]) /\ Before(rs[n + 1], rs[(n + 1) + 1])
      BY <1>3, <1>4, <2>2
    <3>2. QED
      BY <1>1, <2>2, <3>1
  <2>5. m \in 1 .. Len(rs)
    BY <2>2
  <2> HIDE DEF acc, x, m
  <2>6. Reaches(Joined(acc, rs[m]), rs[m])
    BY <2>3, <2>4, JoinedIs
  <2>7. Alike(rs) => Spread(Joined(acc, rs[m]), rs)
    BY <2>3, <2>4, <2>5, JoinedSpread
  <2>8. (n + 1) + 1 = m
    BY <2>2
  <2>9. QED
    BY <2>4, <2>6, <2>7, <2>8
<1>7. \A n \in Nat : n \in S
  <2> HIDE DEF S
  <2>1. QED
    BY <1>5, <1>6, Induction
<1>8. Right(f[N - 1], (N - 1) + 1)
  <2>1. N - 1 \in Nat /\ N - 1 <= N - 1
    BY <1>1
  <2> HIDE DEF Right
  <2>2. QED
    BY <1>7, <2>1
<1>9. QED
  BY <1>3, <1>8 DEF Reaches, Spread

(* An order that qsort may leave: neighbours are in order, and no range is *)
(* new.                                                                    *)
LEMMA SortedOrder ==
  ASSUME NEW rs \in Lists, NEW s \in Sorted(rs)
  PROVE  s \in Lists /\ Len(s) = Len(rs) /\ Ordered(s) /\ (Alike(rs) => Alike(s))
<1>1. s \in Lists /\ Len(s) = Len(rs)
  BY SortedIs
<1>2. PICK p \in Bijection(DOMAIN rs, DOMAIN rs) : s = [k \in DOMAIN rs |-> rs[p[k]]]
  BY DEF Sorted
<1>3. \A k \in DOMAIN rs : p[k] \in DOMAIN rs
  BY Fun_IsBij DEF Bijection, Injection
<1>4. Range(s) \subseteq Range(rs)
  <2> SUFFICES ASSUME NEW k \in DOMAIN s PROVE s[k] \in Range(rs)
    BY DEF Range
  <2>1. k \in DOMAIN rs /\ s[k] = rs[p[k]]
    BY <1>2
  <2>2. QED
    BY <1>3, <2>1 DEF Range
<1>5. Alike(rs) => Alike(s)
  BY <1>4 DEF Alike
<1>6. Ordered(s)
  <2> SUFFICES ASSUME NEW k \in 2 .. Len(s) PROVE Before(s[k - 1], s[k])
    BY DEF Ordered
  <2>1. ~cmp_less(s[k], s[k - 1])
    BY DEF Sorted
  <2>2. k \in 1 .. Len(s) /\ k - 1 \in 1 .. Len(s)
    BY <1>1, ListIs
  <2>3. s[k] \in HostRange /\ s[k - 1] \in HostRange
    BY <1>1, <2>2, ListIs
  <2>4. QED
    BY <2>1, <2>3, CmpIs
<1>7. QED
  BY <1>1, <1>5, <1>6

(* e may come of h when that is split: it begins in h or later, and is     *)
(* written as wide.                                                        *)
Grown(e, h) == e.pfx = h.pfx /\ e.single = h.single /\ e.width = h.width /\ h.lo <= e.lo

(* What was padded alike still is.                                         *)
LEMMA GrownAlike ==
  ASSUME NEW g \in HostRange, NEW h \in HostRange, width_combine(g, h),
         NEW d \in HostRange, NEW e \in HostRange, Grown(d, g), Grown(e, h)
  PROVE  width_combine(d, e)
<1>1. g.lo \in Nat /\ h.lo \in Nat /\ d.lo \in Nat /\ e.lo \in Nat /\ g.width \in Nat
      /\ h.width \in Nat
  BY RangeIs
<1>2. d.width = g.width /\ e.width = h.width /\ g.lo <= d.lo /\ h.lo <= e.lo
  BY DEF Grown
<1>3. Fits(g.lo, g.width, h.width) \/ Fits(h.lo, g.width, h.width)
  BY CombineIs
<1>4. \A m \in Nat : \A n \in Nat : n <= m /\ Fits(n, g.width, h.width) => Fits(m, g.width, h.width)
  BY <1>1, EquivIs
<1>5. Fits(d.lo, g.width, h.width) \/ Fits(e.lo, g.width, h.width)
  BY <1>1, <1>2, <1>3, <1>4
<1>6. QED
  BY <1>2, <1>5, CombineIs

(* Ranges that come of g or h, from lo to hi, none before the one to its   *)
(* left.                                                                   *)
Rising(s, g, h, lo, hi) ==
    /\ \A k \in 1 .. Len(s) : (Grown(s[k], g) \/ Grown(s[k], h)) /\ lo <= s[k].lo /\ s[k].lo <= hi
    /\ \A k \in 2 .. Len(s) : s[k - 1].lo <= s[k].lo

(* The ranges of a list that is put together from two.                     *)
LEMMA Places ==
  ASSUME NEW rs \in Lists, NEW ts \in Lists
  PROVE  /\ rs \o ts \in Lists /\ Len(rs \o ts) = Len(rs) + Len(ts) /\ Len(rs) \in Nat
            /\ Len(ts) \in Nat
         /\ \A k \in 1 .. Len(rs) : (rs \o ts)[k] = rs[k]
         /\ \A k \in Len(rs) + 1 .. Len(rs) + Len(ts) : (rs \o ts)[k] = ts[k - Len(rs)]
<1>1. Len(rs) \in Nat /\ Len(ts) \in Nat
  BY ListIs
<1>2. /\ rs \o ts \in Lists /\ Len(rs \o ts) = Len(rs) + Len(ts)
      /\ \A k \in 1 .. Len(rs) + Len(ts) :
               (rs \o ts)[k] = IF k <= Len(rs) THEN rs[k] ELSE ts[k - Len(rs)]
  BY ConcatProperties DEF Lists
<1>3. QED
  BY <1>1, <1>2

(* Two lists that rise, the second from where the first ends, rise         *)
(* together.                                                               *)
LEMMA RisingJoin ==
  ASSUME NEW s \in Lists, NEW t \in Lists, NEW g, NEW h, NEW a \in Nat, NEW b \in Nat,
         NEW c \in Nat,
         a <= b, b <= c, Rising(s, g, h, a, b), Rising(t, g, h, b, c)
  PROVE  Rising(s \o t, g, h, a, c)
<1> DEFINE u == s \o t
           m == Len(s)
           n == Len(t)
<1>1. /\ u \in Lists /\ Len(u) = m + n /\ m \in Nat /\ n \in Nat
      /\ \A k \in 1 .. m : u[k] = s[k] /\ s[k] \in HostRange
      /\ \A k \in m + 1 .. m + n : u[k] = t[k - m]
      /\ \A k \in 1 .. n : t[k] \in HostRange
  BY Places, ListIs
<1>2. /\ \A k \in 1 .. m : (Grown(s[k], g) \/ Grown(s[k], h)) /\ a <= s[k].lo /\ s[k].lo <= b
      /\ \A k \in 2 .. m : s[k - 1].lo <= s[k].lo
      /\ \A k \in 1 .. n : (Grown(t[k], g) \/ Grown(t[k], h)) /\ b <= t[k].lo /\ t[k].lo <= c
      /\ \A k \in 2 .. n : t[k - 1].lo <= t[k].lo
  BY DEF Rising
<1>3. (\A k \in 1 .. m : s[k].lo \in Nat) /\ (\A k \in 1 .. n : t[k].lo \in Nat)
  BY <1>1, RangeIs
<1> HIDE DEF u, m, n
<1>4. ASSUME NEW k \in 1 .. m + n
      PROVE  (Grown(u[k], g) \/ Grown(u[k], h)) /\ a <= u[k].lo /\ u[k].lo <= c
  <2>1. CASE k <= m
    <3>1. k \in 1 .. m /\ u[k] = s[k]
      BY <1>1, <2>1
    <3>2. QED
      BY <1>2, <1>3, <3>1
  <2>2. CASE ~(k <= m)
    <3>1. k - m \in 1 .. n /\ u[k] = t[k - m]
      BY <1>1, <2>2
    <3>2. QED
      BY <1>2, <1>3, <3>1
  <2>3. QED
    BY <2>1, <2>2
<1>5. ASSUME NEW k \in 2 .. m + n PROVE u[k - 1].lo <= u[k].lo
  <2>1. CASE k <= m
    <3>1. k \in 2 .. m /\ k \in 1 .. m /\ k - 1 \in 1 .. m
      BY <1>1, <2>1
    <3>2. QED
      BY <1>1, <1>2, <3>1
  <2>2. CASE k = m + 1
    <3>1. k - 1 \in 1 .. m /\ k - 1 = m /\ 1 \in 1 .. n /\ k \in m + 1 .. m + n /\ k - m = 1
      BY <1>1, <2>2
    <3>2. u[k - 1] = s[m] /\ u[k] = t[1] /\ m \in 1 .. m
      BY <1>1, <3>1
    <3>3. s[m].lo <= b /\ b <= t[1].lo /\ s[m].lo \in Nat /\ t[1].lo \in Nat
      BY <1>2, <1>3, <3>1, <3>2
    <3>4. QED
      BY <3>2, <3>3
  <2>3. CASE k > m + 1
    <3>1. k - m \in 2 .. n /\ (k - 1) - m = (k - m) - 1 /\ k \in m + 1 .. m + n
          /\ k - 1 \in m + 1 .. m + n
      BY <1>1, <2>3
    <3>2. u[k - 1] = t[(k - m) - 1] /\ u[k] = t[k - m]
      BY <1>1, <3>1
    <3>3. QED
      BY <1>2, <3>1, <3>2
  <2>4. QED
    BY <1>1, <2>1, <2>2, <2>3
<1>6. QED
  BY <1>1, <1>4, <1>5 DEF Rising, u

(* A range alone rises.                                                    *)
LEMMA RisingOne ==
  ASSUME NEW e \in HostRange, NEW g, NEW h, Grown(e, g) \/ Grown(e, h), NEW a \in Nat,
         NEW b \in Nat,
         a <= e.lo, e.lo <= b
  PROVE  <<e>> \in Lists /\ Rising(<<e>>, g, h, a, b)
<1>1. <<e>> \in Lists /\ Len(<<e>>) = 1 /\ <<e>>[1] = e
  BY OneSize
<1>2. QED
  BY <1>1 DEF Rising

(* So does what is made of a number in the intersection,                   *)
LEMMA TwiceRises ==
  ASSUME NEW g \in HostRange, NEW h, ~g.single, NEW lo \in Nat, NEW hi \in Nat, g.lo <= lo,
         NEW n \in Nat, lo <= n
  PROVE  Twice(g, lo, hi, n) \in Lists /\ Rising(Twice(g, lo, hi, n), g, h, n, n)
<1> DEFINE e == hostrange_create(g.pfx, n, n, g.width)
           a == IF n > lo THEN <<e>> ELSE <<>>
           b == IF n < hi THEN <<e>> ELSE <<>>
<1>1. e \in HostRange /\ Grown(e, g) /\ e.lo = n
  <2>1. g.pfx \in Seq(Int) /\ g.width \in Nat /\ g.lo \in Nat /\ g.single \in BOOLEAN
    BY RangeIs
  <2>2. e \in HostRange
    BY <2>1 DEF hostrange_create, HostRange
  <2>3. e.pfx = g.pfx /\ e.lo = n /\ e.width = g.width /\ e.single = FALSE
    BY DEF hostrange_create
  <2>4. g.single = FALSE
    BY <2>1
  <2>5. g.lo <= n
    BY <2>1
  <2> HIDE DEF e
  <2>6. QED
    BY <2>2, <2>3, <2>4, <2>5 DEF Grown
<1>2. Twice(g, lo, hi, n) = a \o b
  BY DEF Twice
<1> HIDE DEF e
<1>3. <<e>> \in Lists /\ Rising(<<e>>, g, h, n, n)
  BY <1>1, RisingOne
<1>4. <<>> \in Lists /\ Rising(<<>>, g, h, n, n)
  BY EmptySize DEF Rising
<1>5. a \in Lists /\ b \in Lists /\ Rising(a, g, h, n, n) /\ Rising(b, g, h, n, n)
  BY <1>3, <1>4
<1> HIDE DEF a, b
<1>6. a \o b \in Lists
  BY <1>5, Places
<1>7. n <= n
  OBVIOUS
<1>8. QED
  BY <1>2, <1>5, <1>6, <1>7, RisingJoin

(* and what is made of the intersection.                                   *)
LEMMA MiddleRises ==
  ASSUME NEW g \in HostRange, NEW h, ~g.single, NEW lo \in Nat, NEW hi \in Nat, g.lo <= lo, lo <= hi
  PROVE  Middle(g, lo, hi) \in Lists /\ Rising(Middle(g, lo, hi), g, h, lo, hi)
<1> DEFINE m == hi - lo + 1
           seqs == [k \in 1 .. m |-> Twice(g, lo, hi, lo + k - 1)]
<1>1. m \in Nat /\ m >= 1 /\ \A k \in 1 .. m : lo + k - 1 \in Nat /\ lo <= lo + k - 1
  OBVIOUS
<1>2. \A k \in 1 .. m : Twice(g, lo, hi, lo + k - 1) \in Seq(HostRange)
  BY <1>1, TwiceRises DEF Lists
<1>3. seqs \in Seq(Seq(HostRange)) /\ Len(seqs) = m
      /\ \A k \in 1 .. m : seqs[k] = Twice(g, lo, hi, lo + k - 1)
  BY <1>1, <1>2
<1>4. Middle(g, lo, hi) = FlattenSeq(seqs)
  BY DEF Middle
<1> HIDE DEF seqs
<1>5. PICK f \in [1 .. m -> Seq(HostRange)] : Flattens(f, seqs)
  <2>1. seqs # <<>>
    BY <1>1, <1>3
  <2>2. QED
    BY <1>3, <2>1, Flatten
<1>6. /\ f[1] = Twice(g, lo, hi, lo) /\ FlattenSeq(seqs) = f[m]
      /\ \A i \in 2 .. m : f[i] = f[i - 1] \o Twice(g, lo, hi, lo + i - 1)
  <2>1. seqs[1] = Twice(g, lo, hi, lo)
    <3>1. lo + 1 - 1 = lo /\ 1 \in 1 .. m
      BY <1>1
    <3>2. QED
      BY <1>3, <3>1
  <2>2. \A i \in 2 .. m : seqs[i] = Twice(g, lo, hi, lo + i - 1)
    BY <1>3
  <2>3. QED
    BY <1>3, <1>5, <2>1, <2>2 DEF Flattens
<1> DEFINE S == {j \in Nat : j + 1 <= m => Rising(f[j + 1], g, h, lo, lo + j)}
<1>7. \A j \in Nat : j \in S
  <2>1. 0 \in S
    <3>1. lo <= lo /\ 0 + 1 = 1 /\ lo + 0 = lo
      OBVIOUS
    <3>2. Rising(f[0 + 1], g, h, lo, lo + 0)
      BY <1>6, <3>1, TwiceRises
    <3>3. QED
      BY <3>2
  <2>2. ASSUME NEW j \in Nat, j \in S PROVE j + 1 \in S
    <3> DEFINE n == lo + (j + 1)
               t == Twice(g, lo, hi, n)
               p == lo + j
    <3>1. SUFFICES ASSUME (j + 1) + 1 <= m PROVE Rising(f[(j + 1) + 1], g, h, lo, n)
      OBVIOUS
    <3>2. /\ (j + 1) + 1 \in 2 .. m /\ ((j + 1) + 1) - 1 = j + 1 /\ lo + ((j + 1) + 1) - 1 = n
          /\ j + 1 \in 1 .. m /\ n \in Nat /\ lo <= n /\ p \in Nat /\ lo <= p /\ p <= n
      BY <1>1, <3>1
    <3>3. Rising(f[j + 1], g, h, lo, p)
      BY <2>2, <3>1, <3>2
    <3> HIDE DEF n, p
    <3>4. t \in Lists /\ Rising(t, g, h, n, n)
      BY <3>2, TwiceRises
    <3>5. f[(j + 1) + 1] = f[j + 1] \o t
      BY <1>6, <3>2
    <3>6. f[j + 1] \in Lists
      BY <1>5, <3>2 DEF Lists
    <3> HIDE DEF t
    <3>7. Rising(t, g, h, p, n)
      <4>1. \A k \in 1 .. Len(t) : t[k].lo \in Nat
        BY <3>4, ListIs, RangeIs
      <4>2. /\ \A k \in 1 .. Len(t) : Grown(t[k], g) \/ Grown(t[k], h)
            /\ \A k \in 1 .. Len(t) : n <= t[k].lo /\ t[k].lo <= n
            /\ \A k \in 2 .. Len(t) : t[k - 1].lo <= t[k].lo
        BY <3>4 DEF Rising
      <4>3. p \in Nat /\ n \in Nat /\ p <= n
        BY <3>2
      <4>4. \A k \in 1 .. Len(t) : p <= t[k].lo
        BY <4>1, <4>2, <4>3
      <4>5. QED
        BY <4>2, <4>4 DEF Rising
    <3>8. QED
      BY <3>2, <3>3, <3>4, <3>5, <3>6, <3>7, RisingJoin
  <2> HIDE DEF S
  <2>3. QED
    BY <2>1, <2>2, Induction
<1>8. f[m] \in Lists /\ Rising(f[m], g, h, lo, hi)
  <2>1. hi - lo \in Nat /\ (hi - lo) + 1 = m /\ lo + (hi - lo) = hi /\ m \in 1 .. m
    BY <1>1
  <2>2. (hi - lo) + 1 <= m => Rising(f[(hi - lo) + 1], g, h, lo, lo + (hi - lo))
    BY <1>7, <2>1
  <2>3. m <= m
    BY <1>1
  <2>4. QED
    BY <1>5, <2>1, <2>2, <2>3 DEF Lists
<1>9. QED
  BY <1>4, <1>6, <1>8

(* hostrange_intersect leaves ranges that come of the two, the first of g  *)
(* where that began, and no later one than where both end.                 *)
LEMMA SplitRises ==
  ASSUME NEW g \in HostRange, NEW h \in HostRange, Intersects(g, h), ~cmp_less(h, g)
  PROVE  LET s == Split(g, h)
             hi == Min({g.hi, h.hi})
         IN  /\ s \in Lists /\ s # <<>> /\ Rising(s, g, h, g.lo, hi)
             /\ Starts_(s[1], g) /\ hi \in Nat /\ hi <= h.hi
<1> DEFINE lo == h.lo
           hi == Min({g.hi, h.hi})
           up == Max({g.hi, h.hi})
           a == Bounded(g, g.lo, lo)
           b == Bounded(h, hi, up)
           mid == Middle(g, lo, hi)
           s == Split(g, h)
<1>1. /\ g.lo \in Nat /\ g.hi \in Nat /\ h.lo \in Nat /\ h.hi \in Nat /\ g.lo <= g.hi
         /\ h.lo <= h.hi
      /\ g.lo <= h.lo /\ h.lo < g.hi /\ ~g.single /\ ~h.single
  BY RangeIs, LowerFirst
<1>2. /\ hi \in Nat /\ hi = (IF g.hi <= h.hi THEN g.hi ELSE h.hi)
      /\ up \in Nat /\ up = (IF g.hi >= h.hi THEN g.hi ELSE h.hi)
  BY <1>1, MaxOfTwo, MinOfTwo
<1>3. s = <<a>> \o mid \o <<b>>
  BY SplitParts
<1> HIDE DEF hi, up, s
<1>4. lo <= hi /\ hi <= up /\ lo \in Nat /\ hi <= h.hi /\ g.lo <= lo
  BY <1>1, <1>2
<1>5. a \in HostRange /\ Starts_(a, g) /\ a.lo = g.lo
  <2>1. a \in HostRange
    BY <1>1, <1>4, BoundedIs
  <2>2. QED
    BY <2>1 DEF Bounded, Starts_
<1>6. b \in HostRange /\ Grown(b, h) /\ b.lo = hi
  <2>1. b \in HostRange
    BY <1>1, <1>2, <1>4, BoundedIs
  <2>2. QED
    BY <1>4, <2>1 DEF Bounded, Grown
<1>7. mid \in Lists /\ Rising(mid, g, h, lo, hi)
  BY <1>1, <1>2, <1>4, MiddleRises
<1> HIDE DEF a, b, mid, lo
<1>8. Grown(a, g)
  <2>1. a.lo <= a.lo
    BY <1>5, RangeIs
  <2>2. QED
    BY <1>5, <2>1 DEF Starts_, Grown
<1>9. <<a>> \in Lists /\ Rising(<<a>>, g, h, g.lo, lo)
  <2>1. g.lo <= a.lo /\ a.lo <= lo
    BY <1>1, <1>4, <1>5
  <2>2. QED
    BY <1>1, <1>4, <1>5, <1>8, <2>1, RisingOne
<1>10. <<b>> \in Lists /\ Rising(<<b>>, g, h, hi, hi)
  <2>1. hi <= b.lo /\ b.lo <= hi
    BY <1>2, <1>6
  <2>2. QED
    BY <1>2, <1>6, <2>1, RisingOne
<1>11. <<a>> \o mid \in Lists /\ Rising(<<a>> \o mid, g, h, g.lo, hi)
  BY <1>1, <1>2, <1>4, <1>7, <1>9, Places, RisingJoin
<1>12. s \in Lists /\ Rising(s, g, h, g.lo, hi)
  <2>1. g.lo <= hi /\ hi <= hi
    BY <1>1, <1>2, <1>4
  <2>2. QED
    BY <1>1, <1>2, <1>3, <1>10, <1>11, <2>1, Places, RisingJoin
<1>13. s # <<>> /\ s[1] = a
  <2>1. Len(<<a>>) = 1 /\ <<a>>[1] = a
    BY <1>5, OneSize
  <2>2. /\ Len(<<a>> \o mid) = 1 + Len(mid) /\ Len(mid) \in Nat
        /\ (<<a>> \o mid)[1] = a
    BY <1>7, <1>9, <2>1, Places
  <2>3. 1 \in 1 .. Len(<<a>> \o mid)
    BY <2>2
  <2>4. Len(s) = Len(<<a>> \o mid) + Len(<<b>>) /\ Len(<<b>>) \in Nat /\ s[1] = a
    BY <1>3, <1>10, <1>11, <2>2, <2>3, Places
  <2>5. Len(s) # 0
    BY <2>2, <2>4
  <2>6. QED
    BY <1>12, <2>4, <2>5, NotEmpty
<1>14. QED
  BY <1>2, <1>4, <1>5, <1>12, <1>13 DEF s, hi

(* Such ranges are in order.                                               *)
LEMMA RisingOrdered ==
  ASSUME NEW g \in HostRange, NEW h \in HostRange, prefix_eq(g, h), width_combine(g, h),
         NEW s \in Lists, NEW a, NEW b, Rising(s, g, h, a, b)
  PROVE  Ordered(s)
<1> SUFFICES ASSUME NEW k \in 2 .. Len(s) PROVE Before(s[k - 1], s[k])
  BY DEF Ordered
<1> DEFINE d == s[k - 1]
           e == s[k]
<1>1. k - 1 \in 1 .. Len(s) /\ k \in 1 .. Len(s)
  BY ListIs
<1>2. /\ d \in HostRange /\ e \in HostRange /\ (Grown(d, g) \/ Grown(d, h))
         /\ (Grown(e, g) \/ Grown(e, h))
      /\ d.lo <= e.lo
  BY <1>1, ListIs DEF Rising
<1> HIDE DEF d, e
<1>3. width_combine(g, g) /\ width_combine(h, h) /\ width_combine(h, g)
  BY CombineSelf, CombineIs
<1>4. width_combine(d, e)
  BY <1>2, <1>3, GrownAlike
<1>5. d.pfx = e.pfx /\ d.single = e.single /\ d.pfx \in Seq(Int)
  BY <1>2, RangeIs DEF Grown, prefix_eq
<1>6. KeyLeq(d, e)
  BY <1>5, LessNot DEF KeyLeq
<1>7. QED
  BY <1>2, <1>4, <1>6 DEF Before, d, e

(* Two ordered lists, the second after the first, are ordered together.    *)
LEMMA OrderedJoin ==
  ASSUME NEW s \in Lists, NEW t \in Lists, Ordered(s), Ordered(t),
         s # <<>> /\ t # <<>> => Before(Last(s), t[1])
  PROVE  Ordered(s \o t)
<1> DEFINE u == s \o t
           m == Len(s)
           n == Len(t)
<1>1. /\ Len(u) = m + n /\ m \in Nat /\ n \in Nat
      /\ \A k \in 1 .. m : u[k] = s[k]
      /\ \A k \in m + 1 .. m + n : u[k] = t[k - m]
  BY Places
<1>2. /\ \A k \in 2 .. m : Before(s[k - 1], s[k])
      /\ \A k \in 2 .. n : Before(t[k - 1], t[k])
      /\ m # 0 /\ n # 0 => Before(s[m], t[1])
  BY NotEmpty DEF Ordered, Last
<1> HIDE DEF u, m, n
<1>3. ASSUME NEW k \in 2 .. m + n PROVE Before(u[k - 1], u[k])
  <2>1. CASE k <= m
    <3>1. k \in 2 .. m /\ k \in 1 .. m /\ k - 1 \in 1 .. m
      BY <1>1, <2>1
    <3>2. QED
      BY <1>1, <1>2, <3>1
  <2>2. CASE k = m + 1
    <3>1. k - 1 \in 1 .. m /\ k - 1 = m /\ m # 0 /\ n # 0 /\ k \in m + 1 .. m + n /\ k - m = 1
      BY <1>1, <2>2
    <3>2. u[k - 1] = s[m] /\ u[k] = t[1]
      BY <1>1, <3>1
    <3>3. QED
      BY <1>2, <3>1, <3>2
  <2>3. CASE k > m + 1
    <3>1. k - m \in 2 .. n /\ (k - 1) - m = (k - m) - 1 /\ k \in m + 1 .. m + n
          /\ k - 1 \in m + 1 .. m + n
      BY <1>1, <2>3
    <3>2. u[k - 1] = t[(k - m) - 1] /\ u[k] = t[k - m]
      BY <1>1, <3>1
    <3>3. QED
      BY <1>2, <3>1, <3>2
  <2>4. QED
    BY <1>1, <2>1, <2>2, <2>3
<1>4. QED
  BY <1>1, <1>3 DEF Ordered, u

(* What stands for the ranges of a list that are padded alike, is.         *)
LEMMA GrownFrom ==
  ASSUME NEW rs \in Lists, Alike(rs), NEW new \in Lists,
         \A k \in 1 .. Len(new) : \E i \in 1 .. Len(rs) : Grown(new[k], rs[i])
  PROVE  Alike(new)
<1> SUFFICES ASSUME NEW j \in DOMAIN new, NEW k \in DOMAIN new, prefix_eq(new[j], new[k])
             PROVE  width_combine(new[j], new[k])
  BY DEF Alike, Range
<1>1. j \in 1 .. Len(new) /\ k \in 1 .. Len(new) /\ new[j] \in HostRange /\ new[k] \in HostRange
  BY ListIs
<1>2. PICK x \in 1 .. Len(rs) : Grown(new[j], rs[x])
  BY <1>1
<1>3. PICK y \in 1 .. Len(rs) : Grown(new[k], rs[y])
  BY <1>1
<1>4. rs[x] \in HostRange /\ rs[y] \in HostRange /\ rs[x] \in Range(rs) /\ rs[y] \in Range(rs)
  BY ListIs DEF Range
<1>5. prefix_eq(rs[x], rs[y])
  BY <1>2, <1>3 DEF Grown, prefix_eq
<1>6. width_combine(rs[x], rs[y])
  BY <1>4, <1>5 DEF Alike
<1>7. QED
  BY <1>1, <1>2, <1>3, <1>4, <1>6, GrownAlike

(* A sorted list whose ranges are padded alike stays that in every step of *)
(* hostlist_coalesce.                                                      *)
Good(rs) == Ordered(rs) /\ Alike(rs)

(* A round of hostlist_coalesce keeps Good.                                *)
LEMMA PulledGood ==
  ASSUME NEW rs \in Lists, Good(rs), rs \notin Settled
  PROVE  Good(Pulled(rs, Near(rs)))
<1> DEFINE k == Near(rs)
           g == rs[k - 1]
           h == rs[k]
           s == Split(g, h)
           a == SubSeq(rs, 1, k - 2)
           b == SubSeq(rs, k + 1, Len(rs))
           new == Pulled(rs, k)
<1>1. /\ k \in 2 .. Len(rs) /\ Intersects(g, h) /\ ~cmp_less(h, g) /\ Len(rs) \in Nat
      /\ k \in Pairs(rs)
  BY NearIs, ListIs DEF Hits
<1>2. \A j \in Hits(rs) : ~(j > k)
  <2>1. Hits(rs) \cup {0} \in SUBSET (0 .. Len(rs)) /\ Hits(rs) \cup {0} # {} /\ 0 \in Int
        /\ Len(rs) \in Int
    BY <1>1 DEF Hits, Pairs
  <2>2. \A y \in Hits(rs) \cup {0} : Max(Hits(rs) \cup {0}) >= y
    BY <2>1, MaxIs
  <2>3. Max(Hits(rs) \cup {0}) = k
    BY DEF Near
  <2> HIDE DEF k
  <2>4. \A j \in Hits(rs) : j \in Int /\ k >= j /\ k \in Int
    BY <1>1, <2>1, <2>2, <2>3
  <2>5. QED
    BY <2>4
<1> HIDE DEF k
<1>3. /\ new = a \o s \o b
      /\ k - 1 \in 1 .. Len(rs) /\ k \in 1 .. Len(rs) /\ g \in HostRange /\ h \in HostRange
  <2>1. k - 1 \in 1 .. Len(rs) /\ k \in 1 .. Len(rs)
    BY <1>1
  <2>2. QED
    BY <2>1, ListIs DEF Pulled
<1>4. /\ a \in Lists /\ Len(a) = k - 2 /\ \A j \in 1 .. k - 2 : a[j] = rs[j]
  <2>1. 1 \in 1 .. Len(rs) + 1 /\ k - 2 \in 1 - 1 .. Len(rs) /\ (k - 2) - 1 + 1 = k - 2
    BY <1>1
  <2>2. /\ a \in Lists /\ Len(a) = (k - 2) - 1 + 1
        /\ \A j \in 1 .. (k - 2) - 1 + 1 : a[j] = rs[1 + j - 1]
    BY <2>1, PartSize
  <2>3. \A j \in 1 .. k - 2 : 1 + j - 1 = j
    BY <1>1
  <2>4. QED
    BY <2>1, <2>2, <2>3
<1>5. /\ b \in Lists /\ Len(b) = Len(rs) - k /\ \A j \in 1 .. Len(rs) - k : b[j] = rs[k + j]
  <2>1. k + 1 \in 1 .. Len(rs) + 1 /\ Len(rs) \in (k + 1) - 1 .. Len(rs)
        /\ Len(rs) - (k + 1) + 1 = Len(rs) - k
    BY <1>1
  <2>2. /\ b \in Lists /\ Len(b) = Len(rs) - (k + 1) + 1
        /\ \A j \in 1 .. Len(rs) - (k + 1) + 1 : b[j] = rs[(k + 1) + j - 1]
    BY <2>1, PartSize
  <2>3. \A j \in 1 .. Len(rs) - k : (k + 1) + j - 1 = k + j
    BY <1>1
  <2>4. QED
    BY <2>1, <2>2, <2>3
<1>6. PICK hi \in Nat : /\ s \in Lists /\ s # <<>> /\ Rising(s, g, h, g.lo, hi)
                        /\ Starts_(s[1], g) /\ hi <= h.hi
  BY <1>1, <1>3, SplitRises
<1>7. Ordered(rs) /\ Alike(rs)
  BY DEF Good
<1>8. prefix_eq(g, h) /\ width_combine(g, h) /\ ~h.single
  BY <1>1 DEF Intersects, within_range, Pairs
<1> HIDE DEF s, a, b, new
<1>9. Len(s) \in Nat /\ Len(s) # 0
      /\ \A j \in 1 .. Len(s) : s[j] \in HostRange /\ (Grown(s[j], g) \/ Grown(s[j], h))
  BY <1>6, ListIs, NotEmpty DEF Rising
<1>10. Ordered(s)
  BY <1>3, <1>6, <1>8, RisingOrdered
<1>11. Ordered(a)
  <2>1. ASSUME NEW j \in 2 .. k - 2 PROVE Before(a[j - 1], a[j])
    <3>1. j \in 1 .. k - 2 /\ j - 1 \in 1 .. k - 2 /\ j \in 2 .. Len(rs)
      BY <1>1
    <3>2. Before(rs[j - 1], rs[j])
      BY <1>7, <3>1 DEF Ordered
    <3>3. QED
      BY <1>4, <3>1, <3>2
  <2>2. QED
    BY <1>4, <2>1 DEF Ordered
<1>12. Ordered(b)
  <2>1. ASSUME NEW j \in 2 .. Len(rs) - k PROVE Before(b[j - 1], b[j])
    <3>1. j \in 1 .. Len(rs) - k /\ j - 1 \in 1 .. Len(rs) - k /\ k + j \in 2 .. Len(rs)
          /\ (k + j) - 1 = k + (j - 1)
      BY <1>1
    <3>2. Before(rs[(k + j) - 1], rs[k + j])
      BY <1>7, <3>1 DEF Ordered
    <3>3. QED
      BY <1>5, <3>1, <3>2
  <2>2. QED
    BY <1>5, <2>1 DEF Ordered
<1>13. a # <<>> => Before(Last(a), s[1])
  <2> SUFFICES ASSUME a # <<>> PROVE Before(Last(a), s[1])
    OBVIOUS
  <2>1. k - 2 # 0
    BY <1>4, NotEmpty
  <2>2. k - 2 \in 1 .. k - 2 /\ k - 1 \in 2 .. Len(rs) /\ (k - 1) - 1 = k - 2
    BY <1>1, <2>1
  <2>3. Last(a) = rs[k - 2]
    BY <1>4, <2>2 DEF Last
  <2>4. Before(rs[k - 2], g)
    <3>1. Before(rs[(k - 1) - 1], rs[k - 1])
      BY <1>7, <2>2 DEF Ordered
    <3>2. QED
      BY <2>2, <3>1
  <2> DEFINE c == rs[k - 2]
             d == s[1]
  <2>5. Before(c, g) /\ Starts_(d, g)
    BY <1>6, <2>4
  <2> HIDE DEF c, d, g
  <2>6. KeyLeq(c, d)
    BY <2>5 DEF Before, KeyLeq, Starts_
  <2>7. prefix_eq(c, d) => prefix_eq(c, g)
    BY <2>5 DEF prefix_eq, Starts_
  <2>8. width_combine(c, d) <=> width_combine(c, g)
    BY <2>5 DEF width_combine, Starts_
  <2>9. prefix_eq(c, d) => IF width_combine(c, d) THEN c.lo <= d.lo ELSE c.width <= d.width
    <3>1. d.lo = g.lo /\ d.width = g.width
      BY <2>5 DEF Starts_
    <3>2. prefix_eq(c, d) => IF width_combine(c, g) THEN c.lo <= g.lo ELSE c.width <= g.width
      BY <2>5, <2>7 DEF Before
    <3>3. QED
      BY <2>8, <3>1, <3>2, Zenon
  <2>10. Before(c, d)
    BY <2>6, <2>9, Zenon DEF Before
  <2>11. QED
    BY <2>3, <2>10 DEF c, d
<1>14. /\ a \o s \in Lists /\ Ordered(a \o s) /\ Len(a \o s) = (k - 2) + Len(s)
       /\ \A j \in 1 .. k - 2 : (a \o s)[j] = a[j]
       /\ \A j \in (k - 2) + 1 .. (k - 2) + Len(s) : (a \o s)[j] = s[j - (k - 2)]
  <2>1. Ordered(a \o s)
    BY <1>4, <1>6, <1>10, <1>11, <1>13, OrderedJoin
  <2>2. /\ a \o s \in Lists /\ Len(a \o s) = Len(a) + Len(s)
        /\ \A j \in 1 .. Len(a) : (a \o s)[j] = a[j]
        /\ \A j \in Len(a) + 1 .. Len(a) + Len(s) : (a \o s)[j] = s[j - Len(a)]
    BY <1>4, <1>6, Places
  <2>3. Len(a) = k - 2
    BY <1>4
  <2>4. QED
    BY <2>1, <2>2, <2>3
<1>15. Alike(new) /\ new \in Lists
  <2>1. /\ new \in Lists /\ Len(new) = Len(a \o s) + Len(b)
        /\ \A j \in 1 .. Len(a \o s) : new[j] = (a \o s)[j]
        /\ \A j \in Len(a \o s) + 1 .. Len(a \o s) + Len(b) : new[j] = b[j - Len(a \o s)]
    BY <1>3, <1>5, <1>14, Places
  <2>2. ASSUME NEW i \in 1 .. Len(rs) PROVE Grown(rs[i], rs[i])
    <3>1. rs[i].lo <= rs[i].lo
      BY ListIs, RangeIs
    <3>2. QED
      BY <3>1 DEF Grown
  <2>3. ASSUME NEW j \in 1 .. Len(new) PROVE \E i \in 1 .. Len(rs) : Grown(new[j], rs[i])
    <3> DEFINE m == Len(a \o s)
               n == Len(s)
    <3>0. m = (k - 2) + n /\ n \in Nat /\ Len(new) = m + (Len(rs) - k) /\ k \in 2 .. Len(rs)
          /\ Len(rs) \in Nat
      BY <1>1, <1>5, <1>9, <1>14, <2>1
    <3>1. CASE j <= k - 2
      <4>1. j \in 1 .. k - 2 /\ j \in 1 .. m /\ j \in 1 .. Len(rs)
        BY <3>0, <3>1
      <4>2. new[j] = rs[j]
        BY <1>4, <1>14, <2>1, <4>1
      <4>3. QED
        BY <2>2, <4>1, <4>2
    <3>2. CASE ~(j <= k - 2) /\ j <= m
      <4>1. j \in (k - 2) + 1 .. (k - 2) + n /\ j \in 1 .. m /\ j - (k - 2) \in 1 .. n
        BY <3>0, <3>2
      <4>2. new[j] = s[j - (k - 2)]
        BY <1>14, <2>1, <4>1
      <4>3. Grown(new[j], g) \/ Grown(new[j], h)
        BY <1>9, <4>1, <4>2
      <4>4. QED
        BY <1>3, <4>3
    <3>3. CASE ~(j <= m)
      <4>1. j \in m + 1 .. m + Len(b) /\ j - m \in 1 .. Len(rs) - k /\ k + (j - m) \in 1 .. Len(rs)
        BY <1>5, <3>0, <3>3
      <4>2. new[j] = rs[k + (j - m)]
        BY <1>5, <2>1, <4>1
      <4>3. QED
        BY <2>2, <4>1, <4>2
    <3>4. QED
      BY <3>1, <3>2, <3>3
  <2>4. QED
    BY <1>7, <2>1, <2>3, GrownFrom
<1>16. b # <<>> => Before(Last(a \o s), b[1])
  <2> SUFFICES ASSUME b # <<>> PROVE Before(Last(a \o s), b[1])
    OBVIOUS
  <2> DEFINE e == s[Len(s)]
             f == rs[k + 1]
  <2>1. Len(rs) - k # 0
    BY <1>5, NotEmpty
  <2>2. 1 \in 1 .. Len(rs) - k /\ k + 1 \in 2 .. Len(rs) /\ (k + 1) - 1 = k
        /\ k + 1 \in 1 .. Len(rs) /\ k + 1 > k
    BY <1>1, <2>1
  <2>3. b[1] = f
    BY <1>5, <2>2
  <2>4. Last(a \o s) = e
    <3>1. (k - 2) + Len(s) \in (k - 2) + 1 .. (k - 2) + Len(s)
          /\ ((k - 2) + Len(s)) - (k - 2) = Len(s)
      BY <1>1, <1>9
    <3>2. (a \o s)[(k - 2) + Len(s)] = e
      BY <1>14, <3>1
    <3>3. QED
      BY <1>14, <3>2 DEF Last
  <2>5. /\ e \in HostRange /\ f \in HostRange /\ (Grown(e, g) \/ Grown(e, h)) /\ e.lo <= hi
    <3>1. Len(s) \in 1 .. Len(s)
      BY <1>9
    <3>2. QED
      BY <1>6, <1>9, <2>2, <3>1, ListIs DEF Rising
  <2>6. Before(h, f)
    <3>1. Before(rs[(k + 1) - 1], rs[k + 1])
      BY <1>7, <2>2 DEF Ordered
    <3>2. QED
      BY <2>2, <3>1
  <2>7. e.pfx = h.pfx /\ e.single = h.single
    BY <1>8, <2>5 DEF Grown, prefix_eq
  <2>8. KeyLeq(e, f)
    BY <2>6, <2>7 DEF Before, KeyLeq
  <2>9. ASSUME prefix_eq(e, f) PROVE e.lo <= f.lo
    <3>1. prefix_eq(h, f)
      BY <2>7, <2>9 DEF prefix_eq
    <3>2. width_combine(h, f)
      <4>1. h \in Range(rs) /\ f \in Range(rs)
        BY <1>3, <2>2, ListIs DEF Range
      <4>2. QED
        BY <1>7, <3>1, <4>1 DEF Alike
    <3>3. k + 1 \in Pairs(rs)
      <4>1. ~h.single /\ ~f.single
        BY <1>8, <3>1 DEF prefix_eq
      <4>2. QED
        BY <2>2, <4>1 DEF Pairs
    <3>4. k + 1 \notin Hits(rs)
      BY <1>2, <2>2
    <3>5. ~Intersects(h, f)
      BY <2>2, <3>3, <3>4 DEF Hits
    <3>6. ~(h.hi > f.lo)
      BY <1>8, <3>1, <3>2, <3>5 DEF Intersects, within_range
    <3>7. e.lo \in Nat /\ f.lo \in Nat /\ h.hi \in Nat
      BY <1>3, <2>5, RangeIs
    <3>8. QED
      BY <1>6, <2>5, <3>6, <3>7
  <2>10. prefix_eq(e, f) => width_combine(e, f)
    <3> SUFFICES ASSUME prefix_eq(e, f) PROVE width_combine(e, f)
      OBVIOUS
    <3>1. prefix_eq(h, f) /\ prefix_eq(g, f)
      BY <1>8, <2>7 DEF prefix_eq
    <3>2. h \in Range(rs) /\ f \in Range(rs) /\ g \in Range(rs)
      BY <1>3, <2>2, ListIs DEF Range
    <3>3. width_combine(h, f) /\ width_combine(g, f)
      BY <1>7, <3>1, <3>2 DEF Alike
    <3>4. Grown(f, f)
      <4>1. f.lo <= f.lo
        BY <2>5, RangeIs
      <4>2. QED
        BY <4>1 DEF Grown
    <3>5. QED
      BY <1>3, <2>5, <3>3, <3>4, GrownAlike
  <2>11. Before(e, f)
    BY <2>8, <2>9, <2>10 DEF Before
  <2>12. QED
    BY <2>3, <2>4, <2>11
<1>17. Ordered(new)
  BY <1>3, <1>5, <1>12, <1>14, <1>16, OrderedJoin
<1>18. QED
  BY <1>15, <1>17 DEF Good, new, k

(* Where ranges are padded alike, no assertion of hostlist_coalesce fails. *)
LEMMA CoalesceGood ==
  ASSUME NEW rs \in Lists, Good(rs)
  PROVE  coalesce[rs] # NULL /\ coalesce[rs] \in Lists /\ Good(coalesce[rs])
<1> DEFINE S == {s \in Lists : Good(s) => coalesce[s] \in Lists /\ Good(coalesce[s])}
<1>1. ASSUME NEW s \in Lists, s \in Settled \/ Pull[s] \in S PROVE s \in S
  <2> SUFFICES ASSUME Good(s) PROVE coalesce[s] \in Lists /\ Good(coalesce[s])
    OBVIOUS
  <2>1. coalesce[s] = IF Fails(s) THEN NULL
                      ELSE IF Hits(s) = {} THEN s ELSE coalesce[Pulled(s, Near(s))]
    BY CoalesceEnds
  <2>2. Wrong(s) = {}
    <3> SUFFICES ASSUME NEW k \in Pairs(s) PROVE ~cmp_less(s[k], s[k - 1])
      BY DEF Wrong
    <3>1. k \in 2 .. Len(s) /\ k \in 1 .. Len(s) /\ k - 1 \in 1 .. Len(s)
      BY ListIs DEF Pairs
    <3>2. Before(s[k - 1], s[k])
      BY <3>1 DEF Good, Ordered
    <3>3. s[k] \in HostRange /\ s[k - 1] \in HostRange
      BY <3>1, ListIs
    <3>4. QED
      BY <3>2, <3>3, CmpIs
  <2>3. ~Fails(s)
    BY <2>2 DEF Fails
  <2>4. CASE Hits(s) = {}
    BY <2>1, <2>3, <2>4
  <2>5. CASE Hits(s) # {}
    <3>1. s \notin Settled /\ coalesce[s] = coalesce[Pulled(s, Near(s))]
      BY <2>1, <2>3, <2>5 DEF Settled
    <3>2. Pull[s] = Pulled(s, Near(s))
      BY <3>1, PullDescends
    <3>3. Good(Pulled(s, Near(s)))
      BY <3>1, PulledGood
    <3>4. QED
      BY <1>1, <3>1, <3>2, <3>3
  <2>6. QED
    BY <2>4, <2>5
<1> HIDE DEF S
<1>2. \A s \in Lists : s \in S
  BY <1>1, PullDescends, DescentInduction
<1>3. coalesce[rs] \in Lists /\ Good(coalesce[rs])
  BY <1>2 DEF S
<1>4. QED
  BY <1>3, NoList DEF Lists

(* Neighbours that do not intersect are apart, so all ranges are.          *)
LEMMA NoHits ==
  ASSUME NEW rs \in Lists, Good(rs), Hits(rs) = {}
  PROVE  Apart(rs, 0)
<1> DEFINE N == Len(rs)
           Below(g, h) == KeyLeq(g, h) /\ (prefix_eq(g, h) /\ ~g.single => g.hi <= h.lo)
           S == {m \in Nat : \A j \in 1 .. N : j + (m + 1) <= N => Below(rs[j], rs[j + (m + 1)])}
<1>1. N \in Nat /\ DOMAIN rs = 1 .. N /\ \A k \in 1 .. N : rs[k] \in HostRange
  BY ListIs
<1>2. \A k \in 1 .. N : rs[k].lo \in Nat /\ rs[k].hi \in Nat /\ rs[k].lo <= rs[k].hi
  BY <1>1, RangeIs
<1>3. ASSUME NEW k \in 1 .. N, k + 1 <= N PROVE Below(rs[k], rs[k + 1])
  <2> DEFINE g == rs[k]
             h == rs[k + 1]
  <2>1. k + 1 \in 2 .. N /\ k + 1 \in 1 .. N /\ (k + 1) - 1 = k
    BY <1>1, <1>3
  <2>2. Before(g, h)
    <3>1. Before(rs[(k + 1) - 1], rs[k + 1])
      BY <2>1 DEF Good, Ordered
    <3>2. QED
      BY <2>1, <3>1
  <2>3. ASSUME prefix_eq(g, h), ~g.single PROVE g.hi <= h.lo
    <3>1. width_combine(g, h)
      <4>1. g \in Range(rs) /\ h \in Range(rs)
        BY <1>1, <2>1 DEF Range
      <4>2. QED
        BY <2>3, <4>1 DEF Good, Alike
    <3>2. k + 1 \in Pairs(rs)
      BY <2>1, <2>3 DEF Pairs, prefix_eq
    <3>3. ~Intersects(g, h)
      BY <2>1, <3>2 DEF Hits
    <3>4. ~(g.hi > h.lo)
      BY <2>3, <3>1, <3>3 DEF Intersects, within_range
    <3>5. g.hi \in Nat /\ h.lo \in Nat
      BY <1>2, <2>1
    <3>6. QED
      BY <3>4, <3>5
  <2>4. QED
    BY <2>2, <2>3 DEF Before
<1>4. 0 \in S
  BY <1>3
<1>5. ASSUME NEW m \in Nat, m \in S PROVE m + 1 \in S
  <2> SUFFICES ASSUME NEW j \in 1 .. N, j + ((m + 1) + 1) <= N
               PROVE  Below(rs[j], rs[j + ((m + 1) + 1)])
    OBVIOUS
  <2> DEFINE k == j + (m + 1)
             g == rs[j]
             h == rs[k]
             i == rs[k + 1]
  <2>1. k \in 1 .. N /\ k + 1 <= N /\ k + 1 \in 1 .. N /\ j + ((m + 1) + 1) = k + 1
        /\ j + (m + 1) <= N
    BY <1>1
  <2>2. Below(g, h)
    BY <1>5, <2>1
  <2>3. Below(h, i)
    BY <1>3, <2>1
  <2>4. g \in HostRange /\ h \in HostRange /\ i \in HostRange
    BY <1>1, <2>1
  <2>5. h.lo \in Nat /\ h.hi \in Nat /\ h.lo <= h.hi /\ g.hi \in Nat /\ i.lo \in Nat
    BY <1>2, <2>1
  <2> HIDE DEF g, h, i
  <2>6. KeyLeq(g, i) /\ (prefix_eq(g, i) => prefix_eq(g, h) /\ prefix_eq(h, i))
    BY <2>2, <2>3, <2>4, KeyBetween
  <2>7. ASSUME prefix_eq(g, i), ~g.single PROVE g.hi <= i.lo
    <3>1. prefix_eq(g, h) /\ prefix_eq(h, i) /\ ~h.single
      BY <2>6, <2>7 DEF prefix_eq
    <3>2. g.hi <= h.lo /\ h.hi <= i.lo
      BY <2>2, <2>3, <2>7, <3>1
    <3>3. QED
      BY <2>5, <3>2
  <2>8. Below(g, i)
    BY <2>6, <2>7
  <2>9. QED
    BY <2>1, <2>8 DEF g, i
<1>6. \A m \in Nat : m \in S
  <2> HIDE DEF S
  <2>1. QED
    BY <1>4, <1>5, Induction
<1>7. ASSUME NEW j \in 1 .. N, NEW k \in 1 .. N, j < k, prefix_eq(rs[j], rs[k]), ~rs[j].single
      PROVE  rs[j].hi <= rs[k].lo
  <2>1. k - j - 1 \in Nat /\ j + ((k - j - 1) + 1) = k
    BY <1>1, <1>7
  <2>2. Below(rs[j], rs[k])
    <3> DEFINE d == k - j - 1
    <3>1. d \in Nat /\ j + (d + 1) = k /\ k <= N
      BY <2>1
    <3> HIDE DEF d
    <3>2. d \in S
      BY <1>6, <3>1
    <3> HIDE DEF Below
    <3>3. QED
      BY <3>1, <3>2
  <2>3. QED
    BY <1>7, <2>2
<1>8. \A j, k \in DOMAIN rs : j < k /\ prefix_eq(rs[j], rs[k]) /\ ~(0 = 0 /\ rs[j].single)
                              => rs[j].hi + 0 <= rs[k].lo
  <2>1. \A k \in 1 .. N : rs[k].hi + 0 = rs[k].hi
    BY <1>2
  <2>2. QED
    BY <1>1, <1>7, <2>1
<1>9. QED
  BY <1>8 DEF Apart

(* hostlist_collapse keeps apart what is.                                  *)
LEMMA CollapseApart ==
  ASSUME NEW rs \in Lists, Apart(rs, 0)
  PROVE  Apart(collapse(rs), 0)
<1> DEFINE N == Len(rs)
           Clear(acc) == \A j, k \in 1 .. Len(acc) :
                            j < k /\ prefix_eq(acc[j], acc[k]) /\ ~acc[j].single
                              => acc[j].hi <= acc[k].lo
           Of(acc, n) == \A j \in 1 .. Len(acc) : \E m \in n .. N : Starts_(acc[j], rs[m])
           Right(acc, n) == acc \in Lists /\ Clear(acc) /\ Of(acc, n)
<1>1. N \in Nat /\ DOMAIN rs = 1 .. N /\ \A k \in 1 .. N : rs[k] \in HostRange
  BY ListIs
<1>2. \A acc \in Lists : Apart(acc, 0) <=> Clear(acc)
  <2> SUFFICES ASSUME NEW acc \in Lists PROVE Apart(acc, 0) <=> Clear(acc)
    OBVIOUS
  <2>1. DOMAIN acc = 1 .. Len(acc) /\ \A j \in 1 .. Len(acc) : acc[j].hi + 0 = acc[j].hi
    BY ListIs, RangeIs
  <2>2. QED
    BY <2>1 DEF Apart
<1>3. Clear(rs)
  BY <1>2
<1>4. PICK h : CollapsesDown(h, rs)
  BY CollapseIs
<1>5. /\ h[N + 1] = <<>> /\ h[1] = collapse(rs)
      /\ \A n \in 1 .. N : h[n + 1] \in Lists /\ h[n] = Prepended(rs[n], h[n + 1])
  BY <1>4 DEF CollapsesDown
<1>6. ASSUME NEW n \in 1 .. N, NEW acc, Right(acc, n + 1) PROVE Right(Prepended(rs[n], acc), n)
  <2> DEFINE g == rs[n]
             M == Len(acc)
  <2>1. /\ acc \in Lists /\ M \in Nat /\ g \in HostRange
        /\ \A j \in 1 .. M : acc[j] \in HostRange /\ acc[j].lo \in Nat /\ acc[j].hi \in Nat
    BY <1>1, <1>6, ListIs, RangeIs
  <2>2. \A j, k \in 1 .. M : j < k /\ prefix_eq(acc[j], acc[k]) /\ ~acc[j].single
              => acc[j].hi <= acc[k].lo
    BY <1>6
  <2>3. ASSUME NEW j \in 1 .. M PROVE \E m \in n .. N : m > n /\ Starts_(acc[j], rs[m])
    <3>1. PICK m \in n + 1 .. N : Starts_(acc[j], rs[m])
      BY <1>6
    <3>2. m \in n .. N /\ m > n
      BY <1>1
    <3>3. QED
      BY <3>1, <3>2
  <2>4. ASSUME NEW j \in 1 .. M, prefix_eq(g, acc[j]), ~g.single PROVE g.hi <= acc[j].lo
    <3>1. PICK m \in n .. N : m > n /\ Starts_(acc[j], rs[m])
      BY <2>3
    <3>2. prefix_eq(g, rs[m]) /\ acc[j].lo = rs[m].lo
      BY <2>4, <3>1 DEF Starts_, prefix_eq
    <3>3. m \in 1 .. N /\ n < m
      BY <1>1, <3>1
    <3>4. QED
      BY <1>3, <2>4, <3>2, <3>3
  <2>5. Starts_(g, g) /\ n \in n .. N
    BY <1>1 DEF Starts_
  <2>6. CASE acc # <<>> /\ Follows(g, acc[1])
    <3> DEFINE b == acc[1]
               e == Bounded(g, g.lo, b.hi)
               t == SubSeq(acc, 2, M)
               new == <<e>> \o t
    <3>1. M # 0 /\ 1 \in 1 .. M /\ b \in HostRange
      BY <2>1, <2>6, NotEmpty
    <3>2. Prepended(g, acc) = new
      <4>1. [g EXCEPT !.hi = acc[1].hi] = e
        BY <2>1, OtherEnd
      <4>2. Tail(acc) = t
        BY <2>1, <2>6 DEF Lists
      <4>3. QED
        BY <2>6, <4>1, <4>2 DEF Prepended
    <3>3. Prepended(g, acc) \in Lists
      BY <2>1, Prepend
    <3>4. prefix_eq(g, b)
      BY <2>6 DEF Follows
    <3>5. e.pfx = g.pfx /\ e.single = g.single /\ e.lo = g.lo /\ e.width = g.width /\ e.hi = b.hi
      BY DEF Bounded
    <3>6. t \in Lists /\ Len(t) = M - 1 /\ \A j \in 1 .. M - 1 : t[j] = acc[j + 1]
      <4>1. 2 \in 1 .. Len(acc) + 1 /\ Len(acc) \in 2 - 1 .. Len(acc) /\ M - 2 + 1 = M - 1
        BY <2>1, <3>1
      <4>2. t \in Lists /\ Len(t) = M - 2 + 1 /\ \A j \in 1 .. M - 2 + 1 : t[j] = acc[2 + j - 1]
        BY <2>1, <4>1, PartSize
      <4>3. \A j \in 1 .. M - 1 : 2 + j - 1 = j + 1
        BY <2>1
      <4>4. QED
        BY <4>1, <4>2, <4>3
    <3>7. e \in HostRange
      <4>1. g.lo \in Nat /\ g.hi \in Nat /\ g.lo <= g.hi /\ b.lo \in Nat /\ b.hi \in Nat
            /\ b.lo <= b.hi
            /\ (b.single => b.lo = 0) /\ g.single = b.single /\ g.hi = b.lo - 1
        BY <2>1, <2>6, <3>1, RangeIs DEF Follows, prefix_eq
      <4>2. ~g.single /\ g.lo <= b.hi
        BY <4>1
      <4>3. QED
        BY <2>1, <4>1, <4>2, BoundedIs
    <3> HIDE DEF e, t, b
    <3>8. /\ Len(new) = M /\ new[1] = e
          /\ \A j \in 2 .. M : new[j] = acc[j]
      <4>1. <<e>> \in Lists /\ Len(<<e>>) = 1 /\ <<e>>[1] = e
        BY <3>7, OneSize
      <4>2. /\ Len(new) = 1 + Len(t)
            /\ \A j \in 1 .. 1 : new[j] = <<e>>[j]
            /\ \A j \in 1 + 1 .. 1 + Len(t) : new[j] = t[j - 1]
        BY <3>6, <4>1, Places
      <4>3. \A j \in 2 .. M : j - 1 \in 1 .. M - 1 /\ (j - 1) + 1 = j /\ j \in 1 + 1 .. 1 + Len(t)
        BY <2>1, <3>6
      <4>4. 1 \in 1 .. 1 /\ 1 + (M - 1) = M
        BY <2>1
      <4>5. QED
        BY <3>6, <4>1, <4>2, <4>3, <4>4
    <3> HIDE DEF new
    <3>9. Of(new, n)
      <4> SUFFICES ASSUME NEW j \in 1 .. M PROVE \E m \in n .. N : Starts_(new[j], rs[m])
        BY <3>8
      <4>1. CASE j = 1
        BY <2>5, <3>5, <3>8, <4>1 DEF Starts_
      <4>2. CASE j # 1
        <5>1. j \in 2 .. M
          BY <2>1, <4>2
        <5>2. QED
          BY <2>3, <3>8, <5>1
      <4>3. QED
        BY <4>1, <4>2
    <3>10. Clear(new)
      <4> SUFFICES ASSUME NEW j \in 1 .. M, NEW k \in 1 .. M,
                          j < k, prefix_eq(new[j], new[k]), ~new[j].single
                   PROVE  new[j].hi <= new[k].lo
        BY <3>8
      <4>1. k \in 2 .. M /\ new[k] = acc[k]
        BY <2>1, <3>8
      <4>2. CASE j = 1
        <5>1. prefix_eq(b, acc[k]) /\ ~b.single
          BY <3>4, <3>5, <3>8, <4>1, <4>2 DEF prefix_eq
        <5>2. b.hi <= acc[k].lo
          BY <2>2, <3>1, <4>1, <4>2, <5>1 DEF b
        <5>3. QED
          BY <3>5, <3>8, <4>1, <4>2, <5>2
      <4>3. CASE j # 1
        <5>1. j \in 2 .. M /\ new[j] = acc[j]
          BY <2>1, <3>8, <4>3
        <5>2. QED
          BY <2>2, <4>1, <5>1
      <4>4. QED
        BY <4>2, <4>3
    <3>11. QED
      BY <3>2, <3>3, <3>9, <3>10
  <2>7. CASE ~(acc # <<>> /\ Follows(g, acc[1]))
    <3> DEFINE new == <<g>> \o acc
    <3>1. Prepended(g, acc) = new
      BY <2>7 DEF Prepended
    <3>2. Prepended(g, acc) \in Lists
      BY <2>1, Prepend
    <3>3. /\ Len(new) = 1 + M /\ new[1] = g
          /\ \A j \in 2 .. 1 + M : new[j] = acc[j - 1]
      <4>1. <<g>> \in Lists /\ Len(<<g>>) = 1 /\ <<g>>[1] = g
        BY <2>1, OneSize
      <4>2. /\ Len(new) = 1 + M
            /\ \A j \in 1 .. 1 : new[j] = <<g>>[j]
            /\ \A j \in 1 + 1 .. 1 + M : new[j] = acc[j - 1]
        BY <2>1, <4>1, Places
      <4>3. QED
        BY <4>1, <4>2
    <3> HIDE DEF new
    <3>4. Of(new, n)
      <4> SUFFICES ASSUME NEW j \in 1 .. 1 + M PROVE \E m \in n .. N : Starts_(new[j], rs[m])
        BY <3>3
      <4>1. CASE j = 1
        BY <2>5, <3>3, <4>1
      <4>2. CASE j # 1
        <5>1. j \in 2 .. 1 + M /\ j - 1 \in 1 .. M
          BY <2>1, <4>2
        <5>2. QED
          BY <2>3, <3>3, <5>1
      <4>3. QED
        BY <4>1, <4>2
    <3>5. Clear(new)
      <4> SUFFICES ASSUME NEW j \in 1 .. 1 + M, NEW k \in 1 .. 1 + M, j < k,
                          prefix_eq(new[j], new[k]), ~new[j].single
                   PROVE  new[j].hi <= new[k].lo
        BY <3>3
      <4>1. k \in 2 .. 1 + M /\ k - 1 \in 1 .. M /\ new[k] = acc[k - 1]
        BY <2>1, <3>3
      <4>2. CASE j = 1
        BY <2>4, <3>3, <4>1, <4>2
      <4>3. CASE j # 1
        <5>1. j \in 2 .. 1 + M /\ j - 1 \in 1 .. M /\ j - 1 < k - 1
          BY <2>1, <4>1, <4>3
        <5>2. new[j] = acc[j - 1]
          BY <3>3, <5>1
        <5>3. QED
          BY <2>2, <4>1, <5>1, <5>2
      <4>4. QED
        BY <4>2, <4>3
    <3>6. QED
      BY <3>1, <3>2, <3>4, <3>5
  <2>8. QED
    BY <2>6, <2>7
<1> DEFINE S == {m \in Nat : m <= N => Right(h[N + 1 - m], N + 1 - m)}
<1>7. \A m \in Nat : m \in S
  <2>1. 0 \in S
    <3>1. N + 1 - 0 = N + 1 /\ h[N + 1] = <<>> /\ <<>> \in Lists /\ Len(<<>>) = 0
      BY <1>1, <1>5, EmptySize
    <3>2. Right(h[N + 1 - 0], N + 1 - 0)
      BY <3>1
    <3>3. QED
      BY <3>2
  <2>2. ASSUME NEW m \in Nat, m \in S PROVE m + 1 \in S
    <3> DEFINE n == N - m
    <3> HIDE DEF Right
    <3>1. SUFFICES ASSUME m + 1 <= N PROVE Right(h[N + 1 - (m + 1)], N + 1 - (m + 1))
      OBVIOUS
    <3>2. n \in 1 .. N /\ N + 1 - m = n + 1 /\ N + 1 - (m + 1) = n /\ m <= N
      <4>1. N \in Nat /\ m \in Nat /\ m + 1 <= N
        BY <1>1, <3>1
      <4> HIDE DEF N
      <4>2. QED
        BY <4>1
    <3>3. Right(h[n + 1], n + 1)
      BY <2>2, <3>2
    <3>4. h[n] = Prepended(rs[n], h[n + 1])
      BY <1>5, <3>2
    <3>5. Right(h[n], n)
      BY <1>6, <3>2, <3>3, <3>4
    <3>6. QED
      BY <3>2, <3>5
  <2> HIDE DEF S
  <2>3. QED
    BY <2>1, <2>2, Induction
<1>8. Right(h[1], 1)
  <2>1. N + 1 - N = 1 /\ N <= N
    BY <1>1
  <2> HIDE DEF Right
  <2>2. QED
    BY <1>1, <1>7, <2>1
<1>9. QED
  BY <1>2, <1>5, <1>8

(* Nor does an assertion of hostlist_sort fail where ranges are padded     *)
(* alike, and what it leaves is in order.                                  *)
THEOREM SortIs ==
  ASSUME NEW rs \in Lists, Ordered(rs), Alike(rs)
  PROVE  coalesced(rs) # NULL /\ Apart(coalesced(rs), 0)
<1>1. coalesce[rs] # NULL /\ coalesce[rs] \in Lists /\ Good(coalesce[rs])
  BY CoalesceGood DEF Good
<1>2. Hits(coalesce[rs]) = {}
  BY <1>1, CoalesceIs
<1>3. collapse(coalesce[rs]) \in Lists /\ Apart(collapse(coalesce[rs]), 0)
  BY <1>1, <1>2, NoHits, CollapseApart, CollapseIs
<1>4. collapse(coalesce[rs]) # NULL
  BY <1>3, NoList DEF Lists
<1>5. QED
  BY <1>1, <1>3, <1>4 DEF coalesced

(* SortRight for all lists: no assertion of hostlist_uniq fails, whatever  *)
(* qsort did with equal ranges, and none of hostlist_sort where the        *)
(* numbers of a prefix are padded alike; what they then leave rises, no    *)
(* range beginning before one of its prefix ahead of it ends, and after    *)
(* uniq there is a gap between any two.                                    *)
THEOREM HostlistSortRight == Spec => []SortRight
<1>1. broken \/ HlInv => SortRight
  <2>1. SUFFICES ASSUME HlInv, Len(hl.hr) > 1, NEW s \in Sorted(hl.hr)
                 PROVE  /\ join_all(s) # NULL
                        /\ Alike(hl.hr) => /\ coalesced(s) # NULL /\ Apart(coalesced(s), 0)
                                           /\ Apart(join_all(s), 1)
    BY DEF SortRight
  <2>2. hl.hr \in Lists
    BY <2>1, ListHas
  <2>3. s \in Lists /\ Len(s) = Len(hl.hr) /\ Ordered(s) /\ (Alike(hl.hr) => Alike(s))
    BY <2>2, SortedOrder
  <2>4. s # <<>>
    <3>1. Len(s) \in Nat /\ Len(s) # 0
      BY <2>1, <2>3, ListIs
    <3>2. QED
      BY <2>3, <3>1, NotEmpty
  <2>5. join_all(s) \in Lists \ {<<>>} /\ (Alike(s) => Apart(join_all(s), 1))
    BY <2>3, <2>4, UniqIs
  <2>6. join_all(s) # NULL
    BY <2>5, NoList DEF Lists
  <2>7. QED
    BY <2>3, <2>5, <2>6, SortIs
<1>2. QED
  BY HostlistInductive, <1>1, PTL
=============================================================================
