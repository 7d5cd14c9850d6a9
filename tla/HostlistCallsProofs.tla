------------------------- MODULE HostlistCallsProofs -------------------------
(* What the calls of a host list do to its names and to the iterators, for  *)
(* all strings, lists, iterators and orders of calls: no name is lost or    *)
(* moves but those the caller asked for (HostlistNamesKept), and an iterator*)
(* goes on with the name after those it returned (HostlistPlacesKept).      *)
(*                                                                          *)
(* In order: the names of lists put together, and of the ranges             *)
(* hostrange_delete_host leaves; what pushing and collapsing do to them;    *)
(* what each action does to the names; where the iterators are after each,  *)
(* with HlSpots, the invariant their places rest on.                        *)
EXTENDS HostlistProofs

(* One sequence after another.                                             *)
LEMMA Joining ==
  ASSUME NEW X, NEW s \in Seq(X), NEW t \in Seq(X)
  PROVE  /\ s \o t \in Seq(X) /\ Len(s \o t) = Len(s) + Len(t)
         /\ \A m \in 1 .. Len(s) : (s \o t)[m] = s[m]
         /\ \A m \in 1 .. Len(t) : (s \o t)[Len(s) + m] = t[m]
  OBVIOUS

(* The names of a range.                                                   *)
LEMMA HostsAre ==
  ASSUME NEW h \in HostRange
  PROVE  /\ Hosts(h) \in Seq(Seq(Int)) /\ Len(Hosts(h)) = count(h) /\ count(h) \in Nat \ {0}
         /\ \A d \in 0 .. count(h) - 1 : Hosts(h)[d + 1] = Host(h, d)
<1> DEFINE c == count(h)
           F == [j \in 1 .. c |-> Host(h, j - 1)]
<1>1. c \in Nat \ {0}
  BY RangeIs
<1>2. \A j \in 1 .. c : j - 1 \in Nat
  BY <1>1
<1>3. F \in [1 .. c -> Seq(Int)]
  BY <1>2, HostIs
<1>4. Hosts(h) = F /\ \A j \in 1 .. c : F[j] = Host(h, j - 1)
  BY DEF Hosts
<1> HIDE DEF c, F
<1>5. F \in Seq(Seq(Int)) /\ Len(F) = c
  BY <1>1, <1>3
<1>6. ASSUME NEW d \in 0 .. c - 1 PROVE F[d + 1] = Host(h, d)
  <2>1. d + 1 \in 1 .. c /\ (d + 1) - 1 = d
    BY <1>1
  <2>2. QED
    BY <1>4, <2>1
<1>7. QED
  BY <1>1, <1>4, <1>5, <1>6 DEF c

(* s is the names of the ranges rs, one after the other.                   *)
Named(s, rs) ==
    /\ s \in Seq(Seq(Int)) /\ Len(s) = Size(rs)
    /\ \A k \in 1 .. Len(rs) : \A d \in 0 .. count(rs[k]) - 1 :
          s[CountBefore(rs, k) + d + 1] = Host(rs[k], d)

(* NamesOf is that.                                                        *)
LEMMA NamesIs ==
  ASSUME NEW rs \in Lists
  PROVE  Named(NamesOf(rs), rs)
<1> DEFINE N == Len(rs)
           seqs == [k \in 1 .. N |-> Hosts(rs[k])]
<1>1. N \in Nat /\ DOMAIN rs = 1 .. N /\ \A k \in 1 .. N : rs[k] \in HostRange
  BY ListIs
<1>2. \A k \in 1 .. N : count(rs[k]) \in Nat \ {0}
  BY Counts
<1>3. \A k \in 1 .. N : /\ Hosts(rs[k]) \in Seq(Seq(Int)) /\ Len(Hosts(rs[k])) = count(rs[k])
                        /\ \A d \in 0 .. count(rs[k]) - 1 : Hosts(rs[k])[d + 1] = Host(rs[k], d)
  BY <1>1, HostsAre
<1>4. NamesOf(rs) = FlattenSeq(seqs)
  BY <1>1 DEF NamesOf
<1>5. seqs \in Seq(Seq(Seq(Int))) /\ Len(seqs) = N /\ \A k \in 1 .. N : seqs[k] = Hosts(rs[k])
  BY <1>1, <1>3
<1> HIDE DEF seqs, N
<1>6. CASE N = 0
  <2>1. seqs = <<>> /\ rs = <<>>
    BY <1>5, <1>6 DEF N, Lists
  <2>2. NamesOf(rs) = <<>>
    BY <1>4, <1>5, <2>1, Flatten
  <2>3. NamesOf(rs) \in Seq(Seq(Int)) /\ Len(NamesOf(rs)) = 0 /\ Len(rs) = 0 /\ Size(rs) = 0
    <3>1. <<>> \in Seq(Seq(Int)) /\ Len(<<>>) = 0
      OBVIOUS
    <3>2. QED
      BY <2>1, <2>2, <3>1, EmptySize
  <2>4. ~\E k : k \in 1 .. Len(rs)
    BY <2>3
  <2>5. QED
    BY <2>3, <2>4 DEF Named
<1>7. CASE N # 0
  <2>1. PICK f \in [1 .. N -> Seq(Seq(Int))] : Flattens(f, seqs)
    <3>1. seqs # <<>>
      BY <1>5, <1>7
    <3>2. QED
      BY <1>5, <3>1, Flatten
  <2> DEFINE Upto(i) == /\ Len(f[i]) = CountBefore(rs, i + 1)
                        /\ \A k \in 1 .. i : \A d \in 0 .. count(rs[k]) - 1 :
                              f[i][CountBefore(rs, k) + d + 1] = Host(rs[k], d)
             S == {i \in Nat : i + 1 <= N => Upto(i + 1)}
  <2>2. 0 \in S
    <3>1. 1 \in 1 .. N /\ N >= 1
      BY <1>1, <1>7
    <3>2. f[1] = Hosts(rs[1])
      BY <1>5, <2>1, <3>1 DEF Flattens
    <3>3. CountBefore(rs, 1) = 0 /\ CountBefore(rs, 1 + 1) = count(rs[1])
      <4>1. CountBefore(rs, 1) = 0 /\ CountBefore(rs, 1 + 1) = CountBefore(rs, 1) + count(rs[1])
        BY <3>1, Counts DEF N
      <4>2. count(rs[1]) \in Nat
        BY <1>2, <3>1
      <4>3. QED
        BY <4>1, <4>2
    <3>4. Len(f[1]) = CountBefore(rs, 1 + 1)
      BY <1>3, <3>1, <3>2, <3>3
    <3>5. ASSUME NEW k \in 1 .. 1, NEW d \in 0 .. count(rs[k]) - 1
          PROVE  f[1][CountBefore(rs, k) + d + 1] = Host(rs[k], d)
      <4>1. k = 1
        OBVIOUS
      <4>2. CountBefore(rs, k) + d + 1 = d + 1 /\ d \in 0 .. count(rs[1]) - 1
        BY <3>3, <4>1
      <4>3. Hosts(rs[1])[d + 1] = Host(rs[1], d)
        BY <1>3, <3>1, <4>2
      <4>4. QED
        BY <3>2, <4>1, <4>2, <4>3
    <3>6. 0 + 1 = 1
      OBVIOUS
    <3>7. Upto(1)
      BY <3>4, <3>5
    <3> HIDE DEF Upto
    <3>8. QED
      BY <3>6, <3>7
  <2>3. ASSUME NEW i \in Nat, i \in S PROVE i + 1 \in S
    <3> SUFFICES ASSUME (i + 1) + 1 <= N PROVE Upto((i + 1) + 1)
      OBVIOUS
    <3> DEFINE j == i + 1
               g == Hosts(rs[j + 1])
    <3>1. j \in 1 .. N /\ j + 1 \in 1 .. N /\ j + 1 \in 2 .. N /\ j \in Nat /\ (j + 1) - 1 = j
      BY <1>1
    <3>2. Upto(j)
      BY <2>3, <3>1
    <3>3. f[j + 1] = f[j] \o g /\ f[j] \in Seq(Seq(Int))
      BY <1>5, <2>1, <3>1 DEF Flattens
    <3>4. g \in Seq(Seq(Int)) /\ Len(g) = count(rs[j + 1])
      BY <1>3, <3>1
    <3>5. /\ CountBefore(rs, (j + 1) + 1) = CountBefore(rs, j + 1) + count(rs[j + 1])
          /\ CountBefore(rs, j + 1) \in Nat
      <4>1. j + 1 \in 1 .. Len(rs) /\ j + 1 \in 1 .. Len(rs) + 1
        BY <1>1, <3>1 DEF N
      <4>2. QED
        BY <4>1, Counts
    <3>6. /\ Len(f[j] \o g) = Len(f[j]) + Len(g)
          /\ \A m \in 1 .. Len(f[j]) : (f[j] \o g)[m] = f[j][m]
          /\ \A m \in 1 .. Len(g) : (f[j] \o g)[Len(f[j]) + m] = g[m]
      <4>1. f[j] \in Seq(Seq(Int)) /\ g \in Seq(Seq(Int))
        BY <3>3, <3>4
      <4> DEFINE a == f[j]
                 X == Seq(Int)
      <4>2. a \in Seq(X) /\ g \in Seq(X)
        BY <4>1
      <4> HIDE DEF g, a, X
      <4>3. /\ Len(a \o g) = Len(a) + Len(g)
            /\ \A m \in 1 .. Len(a) : (a \o g)[m] = a[m]
            /\ \A m \in 1 .. Len(g) : (a \o g)[Len(a) + m] = g[m]
        BY <4>2, Joining
      <4>4. QED
        BY <4>3 DEF a
    <3>7. Len(f[j + 1]) = CountBefore(rs, (j + 1) + 1)
      BY <3>2, <3>3, <3>4, <3>5, <3>6
    <3>8. ASSUME NEW k \in 1 .. j + 1, NEW d \in 0 .. count(rs[k]) - 1
          PROVE  f[j + 1][CountBefore(rs, k) + d + 1] = Host(rs[k], d)
      <4>1. CASE k = j + 1
        <5>1. d + 1 \in 1 .. Len(g) /\ d \in Int
          BY <3>4, <4>1
        <5>2. CountBefore(rs, k) + d + 1 = Len(f[j]) + (d + 1)
          BY <3>2, <3>5, <4>1, <5>1
        <5>3. g[d + 1] = Host(rs[k], d)
          BY <1>3, <3>1, <4>1
        <5> HIDE DEF g
        <5>4. QED
          BY <3>3, <3>6, <5>1, <5>2, <5>3
      <4>2. CASE k # j + 1
        <5>1. k \in 1 .. j /\ k \in 1 .. N /\ k \in 1 .. Len(rs) + 1 /\ k + 1 \in 1 .. Len(rs) + 1
              /\ j + 1 \in k + 1 .. Len(rs) + 1
          BY <1>1, <3>1, <4>2 DEF N
        <5>2. CountBefore(rs, j + 1) - CountBefore(rs, k + 1) >= (j + 1) - (k + 1)
          BY <5>1, Grows
        <5>3. /\ CountBefore(rs, k + 1) = CountBefore(rs, k) + count(rs[k])
              /\ CountBefore(rs, k) \in Nat /\ count(rs[k]) \in Nat
          BY <1>2, <5>1, Counts DEF N
        <5>4. CountBefore(rs, k) + d + 1 \in 1 .. Len(f[j])
          BY <3>1, <3>2, <3>5, <5>1, <5>2, <5>3, SMTT(30)
        <5>5. f[j][CountBefore(rs, k) + d + 1] = Host(rs[k], d)
          BY <3>2, <5>1
        <5> HIDE DEF Upto, g
        <5>6. QED
          BY <3>3, <3>6, <5>4, <5>5
      <4>3. QED
        BY <4>1, <4>2
    <3>9. QED
      BY <3>7, <3>8
  <2>4. \A i \in Nat : i \in S
    <3> HIDE DEF S
    <3>1. QED
      BY <2>2, <2>3, Induction
  <2>5. N - 1 \in Nat /\ (N - 1) + 1 = N
    BY <1>1, <1>7
  <2>6. Upto(N)
    BY <2>4, <2>5
  <2>7. NamesOf(rs) = f[N] /\ f[N] \in Seq(Seq(Int))
    BY <1>1, <1>4, <1>5, <1>7, <2>1 DEF Flattens
  <2>8. QED
    BY <2>6, <2>7 DEF Named, Size, N
<1>8. QED
  BY <1>6, <1>7

(* The names at every place are those of a list.                           *)
LEMMA NamedOnce ==
  ASSUME NEW rs \in Lists, NEW s, NEW t, Named(s, rs), Named(t, rs)
  PROVE  s = t
<1>1. s \in Seq(Seq(Int)) /\ t \in Seq(Seq(Int)) /\ Len(s) = Size(rs) /\ Len(t) = Size(rs)
  BY DEF Named
<1>2. ASSUME NEW i \in 1 .. Size(rs) PROVE s[i] = t[i]
  <2> DEFINE n == i - 1
             k == RangeOf(rs, n)
             d == n - CountBefore(rs, k)
  <2>1. n \in Nat /\ n < Size(rs) /\ i = n + 1
    BY SizeIs
  <2>2. k \in 1 .. Len(rs) /\ n < CountBefore(rs, k + 1) /\ n >= CountBefore(rs, k)
    BY <2>1, RangeOfIs
  <2> HIDE DEF n, k
  <2>3. /\ CountBefore(rs, k + 1) = CountBefore(rs, k) + count(rs[k])
        /\ CountBefore(rs, k) \in Nat /\ count(rs[k]) \in Nat
    <3>1. k \in 1 .. Len(rs) + 1
      BY <2>2, ListIs
    <3>2. QED
      BY <2>2, <3>1, Counts
  <2>4. d \in 0 .. count(rs[k]) - 1 /\ i = CountBefore(rs, k) + d + 1
    BY <2>1, <2>2, <2>3
  <2> HIDE DEF d
  <2>5. QED
    BY <2>2, <2>4 DEF Named
<1>3. QED
  BY <1>1, <1>2, SizeIs

(* The n-th name of a list is what hostlist_nth returns for n - 1.         *)
LEMMA NamesAt ==
  ASSUME NEW rs \in Lists
  PROVE  /\ NamesOf(rs) \in Seq(Seq(Int)) /\ Len(NamesOf(rs)) = Size(rs)
         /\ \A n \in Nat : n < Size(rs) => NamesOf(rs)[n + 1] = hostlist_nth(rs, n)
<1>1. Named(NamesOf(rs), rs)
  BY NamesIs
<1>2. ASSUME NEW n \in Nat, n < Size(rs) PROVE NamesOf(rs)[n + 1] = hostlist_nth(rs, n)
  <2> DEFINE k == RangeOf(rs, n)
             d == n - CountBefore(rs, k)
  <2>1. k \in 1 .. Len(rs) /\ n < CountBefore(rs, k + 1) /\ n >= CountBefore(rs, k)
    BY <1>2, RangeOfIs
  <2>2. hostlist_nth(rs, n) = Host(rs[k], d)
    BY DEF hostlist_nth
  <2> HIDE DEF k
  <2>3. /\ CountBefore(rs, k + 1) = CountBefore(rs, k) + count(rs[k])
        /\ CountBefore(rs, k) \in Nat /\ count(rs[k]) \in Nat
    <3>1. k \in 1 .. Len(rs) + 1
      BY <2>1, ListIs
    <3>2. QED
      BY <2>1, <3>1, Counts
  <2>4. d \in 0 .. count(rs[k]) - 1 /\ n + 1 = CountBefore(rs, k) + d + 1
    BY <2>1, <2>3
  <2> HIDE DEF d
  <2>5. QED
    BY <1>1, <2>1, <2>2, <2>4 DEF Named
<1>3. QED
  BY <1>1, <1>2 DEF Named

(* The names of a range alone.                                             *)
LEMMA OneName ==
  ASSUME NEW h \in HostRange
  PROVE  NamesOf(<<h>>) = Hosts(h)
<1>1. <<h>> \in Lists /\ Len(<<h>>) = 1 /\ <<h>>[1] = h /\ Size(<<h>>) = count(h)
  BY OneSize
<1>2. CountBefore(<<h>>, 1) = 0
  BY <1>1, Counts
<1>3. Named(Hosts(h), <<h>>)
  <2>1. ASSUME NEW k \in 1 .. Len(<<h>>), NEW d \in 0 .. count(<<h>>[k]) - 1
        PROVE  Hosts(h)[CountBefore(<<h>>, k) + d + 1] = Host(<<h>>[k], d)
    <3>1. k = 1
      BY <1>1
    <3>2. <<h>>[k] = h /\ CountBefore(<<h>>, k) = 0 /\ d \in 0 .. count(h) - 1 /\ d \in Int
      BY <1>1, <1>2, <3>1
    <3>3. CountBefore(<<h>>, k) + d + 1 = d + 1
      BY <3>2
    <3>4. QED
      BY <3>2, <3>3, HostsAre
  <2>2. QED
    BY <1>1, <2>1, HostsAre DEF Named
<1>4. QED
  BY <1>1, <1>3, NamesIs, NamedOnce

(* The names of two lists one after the other.                             *)
LEMMA NamesJoin ==
  ASSUME NEW rs \in Lists, NEW ts \in Lists
  PROVE  NamesOf(rs \o ts) = NamesOf(rs) \o NamesOf(ts)
<1> DEFINE X == Seq(Int)
           a == NamesOf(rs)
           b == NamesOf(ts)
           L == rs \o ts
           m == Len(rs)
<1>1. Named(a, rs) /\ Named(b, ts)
  BY NamesIs
<1>2. a \in Seq(X) /\ b \in Seq(X) /\ Len(a) = Size(rs) /\ Len(b) = Size(ts)
  BY <1>1 DEF Named
<1>3. /\ L \in Lists /\ Len(L) = Len(rs) + Len(ts) /\ Size(L) = Size(rs) + Size(ts)
      /\ \A k \in 1 .. Len(rs) + 1 : CountBefore(L, k) = CountBefore(rs, k)
      /\ \A k \in 1 .. Len(ts) + 1 : CountBefore(L, Len(rs) + k) = Size(rs) + CountBefore(ts, k)
  BY JoinedSize
<1>4. /\ \A k \in 1 .. Len(rs) : L[k] = rs[k]
      /\ \A k \in 1 .. Len(ts) : L[Len(rs) + k] = ts[k]
  BY Joining DEF Lists
<1>5. Size(rs) \in Nat /\ Size(ts) \in Nat /\ Len(rs) \in Nat /\ Len(ts) \in Nat
  BY SizeIs, ListIs
<1> HIDE DEF X, a, b, L
<1>6. /\ a \o b \in Seq(X) /\ Len(a \o b) = Len(a) + Len(b)
      /\ \A i \in 1 .. Len(a) : (a \o b)[i] = a[i]
      /\ \A i \in 1 .. Len(b) : (a \o b)[Len(a) + i] = b[i]
  <2>1. a \in Seq(X) /\ b \in Seq(X)
    BY <1>2
  <2>2. QED
    BY <2>1, Joining
<1>7. ASSUME NEW k \in 1 .. Len(L), NEW d \in 0 .. count(L[k]) - 1
      PROVE  (a \o b)[CountBefore(L, k) + d + 1] = Host(L[k], d)
  <2>1. CASE k <= m
    <3>1. k \in 1 .. Len(rs) /\ k \in 1 .. Len(rs) + 1 /\ L[k] = rs[k]
      BY <1>3, <1>4, <1>5, <2>1
    <3>2. CountBefore(L, k) = CountBefore(rs, k) /\ d \in 0 .. count(rs[k]) - 1
      BY <1>3, <3>1
    <3>3. /\ CountBefore(rs, k + 1) = CountBefore(rs, k) + count(rs[k])
          /\ CountBefore(rs, k) \in Nat /\ count(rs[k]) \in Nat /\ CountBefore(rs, k + 1) <= Size(rs)
      <4>1. CountBefore(rs, Len(rs) + 1) - CountBefore(rs, k + 1) >= (Len(rs) + 1) - (k + 1)
        <5>1. k + 1 \in 1 .. Len(rs) + 1 /\ Len(rs) + 1 \in k + 1 .. Len(rs) + 1
          BY <1>5, <3>1
        <5>2. QED
          BY <5>1, Grows
      <4>2. k + 1 \in 1 .. Len(rs) + 1 /\ Len(rs) + 1 \in 1 .. Len(rs) + 1
        BY <1>5, <3>1
      <4>3. CountBefore(rs, k + 1) \in Nat /\ CountBefore(rs, Len(rs) + 1) \in Nat
        BY <4>2, Counts
      <4>4. CountBefore(rs, k + 1) <= CountBefore(rs, Len(rs) + 1)
        BY <1>5, <3>1, <4>1, <4>3
      <4>5. QED
        BY <3>1, <4>4, Counts DEF Size
    <3>4. CountBefore(rs, k) + d + 1 \in 1 .. Len(a)
      BY <1>2, <1>5, <3>2, <3>3, SMTT(30)
    <3>5. a[CountBefore(rs, k) + d + 1] = Host(rs[k], d)
      BY <1>1, <3>1, <3>2 DEF Named
    <3>6. QED
      BY <1>6, <3>1, <3>2, <3>4, <3>5
  <2>2. CASE ~(k <= m)
    <3> DEFINE j == k - m
    <3>1. j \in 1 .. Len(ts) /\ j \in 1 .. Len(ts) + 1 /\ m + j = k
      BY <1>3, <1>5, <2>2
    <3> HIDE DEF j
    <3>2. L[k] = ts[j] /\ CountBefore(L, k) = Size(rs) + CountBefore(ts, j)
          /\ d \in 0 .. count(ts[j]) - 1
      BY <1>3, <1>4, <3>1
    <3>3. /\ CountBefore(ts, j + 1) = CountBefore(ts, j) + count(ts[j])
          /\ CountBefore(ts, j) \in Nat /\ count(ts[j]) \in Nat /\ CountBefore(ts, j + 1) <= Size(ts)
      <4>1. CountBefore(ts, Len(ts) + 1) - CountBefore(ts, j + 1) >= (Len(ts) + 1) - (j + 1)
        <5>1. j + 1 \in 1 .. Len(ts) + 1 /\ Len(ts) + 1 \in j + 1 .. Len(ts) + 1
          BY <1>5, <3>1
        <5>2. QED
          BY <5>1, Grows
      <4>2. j + 1 \in 1 .. Len(ts) + 1 /\ Len(ts) + 1 \in 1 .. Len(ts) + 1
        BY <1>5, <3>1
      <4>3. CountBefore(ts, j + 1) \in Nat /\ CountBefore(ts, Len(ts) + 1) \in Nat
        BY <4>2, Counts
      <4>4. CountBefore(ts, j + 1) <= CountBefore(ts, Len(ts) + 1)
        BY <1>5, <3>1, <4>1, <4>3
      <4>5. QED
        BY <3>1, <4>4, Counts DEF Size
    <3>4. /\ CountBefore(ts, j) + d + 1 \in 1 .. Len(b)
          /\ CountBefore(L, k) + d + 1 = Len(a) + (CountBefore(ts, j) + d + 1)
      <4>1. d \in Int /\ d >= 0 /\ d < count(ts[j]) /\ Len(a) = Size(rs) /\ Len(b) = Size(ts)
        BY <1>2, <3>2, <3>3
      <4>2. CountBefore(ts, j) + d + 1 \in 1 .. Size(ts)
        BY <1>5, <3>3, <4>1, SMTT(30)
      <4>3. CountBefore(L, k) + d + 1 = Size(rs) + (CountBefore(ts, j) + d + 1)
        BY <1>5, <3>2, <3>3, <4>1
      <4>4. QED
        BY <4>1, <4>2, <4>3
    <3>5. b[CountBefore(ts, j) + d + 1] = Host(ts[j], d)
      BY <1>1, <3>1, <3>2 DEF Named
    <3>6. QED
      BY <1>6, <3>2, <3>4, <3>5
  <2>3. QED
    BY <2>1, <2>2
<1>8. Named(a \o b, L)
  BY <1>2, <1>3, <1>6, <1>7 DEF Named, X
<1>9. Named(NamesOf(L), L)
  BY <1>3, NamesIs
<1>10. QED
  BY <1>3, <1>8, <1>9, NamedOnce DEF a, b, L

(* What the sequence one after another is, from its elements.              *)
LEMMA JoinedFrom ==
  ASSUME NEW X, NEW a \in Seq(X), NEW b \in Seq(X), NEW c \in Seq(X), Len(c) = Len(a) + Len(b),
         \A i \in 1 .. Len(a) : c[i] = a[i], \A i \in 1 .. Len(b) : c[Len(a) + i] = b[i]
  PROVE  c = a \o b
<1>1. /\ a \o b \in Seq(X) /\ Len(a \o b) = Len(a) + Len(b) /\ Len(a) \in Nat /\ Len(b) \in Nat
      /\ \A m \in 1 .. Len(a) : (a \o b)[m] = a[m]
      /\ \A m \in 1 .. Len(b) : (a \o b)[Len(a) + m] = b[m]
  BY Joining
<1>2. ASSUME NEW i \in 1 .. Len(c) PROVE c[i] = (a \o b)[i]
  <2>1. CASE i <= Len(a)
    <3>1. i \in 1 .. Len(a)
      BY <1>1, <2>1
    <3>2. QED
      BY <1>1, <3>1
  <2>2. CASE ~(i <= Len(a))
    <3> DEFINE m == i - Len(a)
    <3>1. m \in 1 .. Len(b) /\ i = Len(a) + m
      BY <1>1, <2>2
    <3> HIDE DEF m
    <3>2. QED
      BY <1>1, <3>1
  <2>3. QED
    BY <2>1, <2>2
<1>3. QED
  BY <1>1, <1>2, SeqEqual

(* Three sequences one after another.                                      *)
LEMMA JoinAssociates ==
  ASSUME NEW X, NEW a \in Seq(X), NEW b \in Seq(X), NEW c \in Seq(X)
  PROVE  a \o (b \o c) = (a \o b) \o c
  BY ConcatAssociative, SMTT(30)

(* A list is its ranges but the last, and the last.                        *)
LEMMA LastChanged ==
  ASSUME NEW rs \in Lists, Len(rs) # 0, NEW e \in HostRange
  PROVE  /\ SubSeq(rs, 1, Len(rs) - 1) \in Lists
         /\ rs = SubSeq(rs, 1, Len(rs) - 1) \o <<rs[Len(rs)]>>
         /\ [rs EXCEPT ![Len(rs)] = e] = SubSeq(rs, 1, Len(rs) - 1) \o <<e>>
<1> DEFINE n == Len(rs)
           front == SubSeq(rs, 1, n - 1)
           ts == [rs EXCEPT ![n] = e]
<1>1. n \in Nat /\ n \in 1 .. n /\ 1 \in 1 .. n + 1 /\ n - 1 \in 0 .. n /\ rs[n] \in HostRange
  BY ListIs
<1>2. rs \in Seq(HostRange)
  BY DEF Lists
<1>3. /\ front \in Seq(HostRange) /\ Len(front) = IF 1 <= n - 1 THEN (n - 1) - 1 + 1 ELSE 0
      /\ \A k \in 1 .. Len(front) : front[k] = rs[1 + k - 1]
  BY <1>1, <1>2, PartIs
<1>4. /\ ts \in Seq(HostRange) /\ Len(ts) = n
      /\ \A j \in 1 .. n : ts[j] = IF j = n THEN e ELSE rs[j]
  BY <1>1, ReplacedSize DEF Lists
<1> HIDE DEF n, front, ts
<1>5. Len(front) = n - 1 /\ \A k \in 1 .. Len(front) : front[k] = rs[k]
  BY <1>1, <1>3
<1>6. ASSUME NEW x \in HostRange
      PROVE  <<x>> \in Seq(HostRange) /\ Len(<<x>>) = 1 /\ <<x>>[1] = x
  OBVIOUS
<1>7. rs = front \o <<rs[n]>>
  <2>1. Len(rs) = Len(front) + Len(<<rs[n]>>)
    BY <1>1, <1>5, <1>6 DEF n
  <2>2. \A i \in 1 .. Len(<<rs[n]>>) : rs[Len(front) + i] = <<rs[n]>>[i]
    BY <1>1, <1>5, <1>6
  <2>3. \A i \in 1 .. Len(front) : rs[i] = front[i]
    BY <1>5
  <2>4. <<rs[n]>> \in Seq(HostRange)
    BY <1>1, <1>6
  <2>5. QED
    BY <1>2, <1>3, <2>1, <2>2, <2>3, <2>4, JoinedFrom
<1>8. ts = front \o <<e>>
  <2>1. Len(ts) = Len(front) + Len(<<e>>)
    BY <1>1, <1>4, <1>5, <1>6
  <2>2. \A i \in 1 .. Len(<<e>>) : ts[Len(front) + i] = <<e>>[i]
    BY <1>1, <1>4, <1>5, <1>6
  <2>3. \A i \in 1 .. Len(front) : ts[i] = front[i]
    BY <1>1, <1>4, <1>5
  <2>4. <<e>> \in Seq(HostRange)
    BY <1>6
  <2>5. QED
    BY <1>3, <1>4, <2>1, <2>2, <2>3, <2>4, JoinedFrom
<1>9. QED
  BY <1>3, <1>7, <1>8 DEF n, front, ts, Lists

(* Ranges that combine print the numbers of the upper one alike.           *)
LEMMA PrintedAlike ==
  ASSUME NEW g \in HostRange, NEW h \in HostRange, width_combine(g, h), g.lo <= h.lo,
         NEW n \in Nat, h.lo <= n
  PROVE  Printed(n, g.width) = Printed(n, h.width)
<1>1. g.lo \in Nat /\ g.width \in Nat /\ h.lo \in Nat /\ h.width \in Nat
  BY RangeIs
<1>2. Fits(g.lo, g.width, h.width) \/ Fits(h.lo, g.width, h.width)
  BY CombineIs
<1>3. Fits(n, g.width, h.width)
  <2>1. CASE Fits(g.lo, g.width, h.width)
    <3>1. g.lo <= n
      BY <1>1
    <3>2. QED
      BY <1>1, <2>1, <3>1, EquivIs
  <2>2. CASE Fits(h.lo, g.width, h.width)
    BY <1>1, <2>2, EquivIs
  <2>3. QED
    BY <1>2, <2>1, <2>2
<1>4. zero_padded(n, g.width) = zero_padded(n, h.width)
  BY <1>1, <1>3, PadIs
<1>5. QED
  BY <1>4 DEF Printed

(* A range that a following one was made part of has the names of both.    *)
LEMMA FollowsNames ==
  ASSUME NEW g \in HostRange, NEW h \in HostRange, Follows(g, h)
  PROVE  /\ [g EXCEPT !.hi = h.hi] \in HostRange
         /\ Hosts([g EXCEPT !.hi = h.hi]) = Hosts(g) \o Hosts(h)
<1> DEFINE e == [g EXCEPT !.hi = h.hi]
           X == Seq(Int)
<1>1. /\ g.pfx \in Seq(Int) /\ g.lo \in Nat /\ g.hi \in Nat /\ g.width \in Nat
         /\ g.single \in BOOLEAN
      /\ g.lo <= g.hi /\ (g.single => g.lo = 0 /\ g.hi = 0) /\ count(g) = g.hi - g.lo + 1
      /\ h.lo \in Nat /\ h.hi \in Nat /\ h.lo <= h.hi /\ (h.single => h.lo = 0 /\ h.hi = 0)
      /\ count(h) = h.hi - h.lo + 1
      /\ g.pfx = h.pfx /\ g.single = h.single /\ g.hi = h.lo - 1 /\ width_combine(g, h)
  BY RangeIs DEF Follows, prefix_eq
<1>2. ~g.single /\ ~h.single
  BY <1>1
<1>3. e = [pfx |-> g.pfx, lo |-> g.lo, hi |-> h.hi, width |-> g.width, single |-> g.single]
  <2>1. g \in [pfx : Seq(Int), lo : Nat, hi : Nat, width : Nat, single : BOOLEAN]
    BY DEF HostRange
  <2>2. QED
    BY <2>1
<1>4. e \in HostRange
  BY <1>1, <1>2, <1>3 DEF HostRange
<1>5. e.lo = g.lo /\ e.hi = h.hi /\ e.width = g.width /\ e.pfx = g.pfx /\ ~e.single
  BY <1>2, <1>3
<1> HIDE DEF e
<1>6. count(e) = count(g) + count(h)
  BY <1>1, <1>2, <1>5 DEF count
<1>7. /\ Hosts(g) \in Seq(X) /\ Len(Hosts(g)) = count(g) /\ count(g) \in Nat
      /\ Hosts(h) \in Seq(X) /\ Len(Hosts(h)) = count(h) /\ count(h) \in Nat
      /\ Hosts(e) \in Seq(X) /\ Len(Hosts(e)) = count(e)
      /\ \A d \in 0 .. count(g) - 1 : Hosts(g)[d + 1] = Host(g, d)
      /\ \A d \in 0 .. count(h) - 1 : Hosts(h)[d + 1] = Host(h, d)
      /\ \A d \in 0 .. count(e) - 1 : Hosts(e)[d + 1] = Host(e, d)
  BY <1>4, HostsAre
<1>8. ASSUME NEW d \in 0 .. count(g) - 1 PROVE Host(e, d) = Host(g, d)
  BY <1>2, <1>5 DEF Host
<1>9. ASSUME NEW d \in 0 .. count(h) - 1 PROVE Host(e, count(g) + d) = Host(h, d)
  <2> DEFINE n == h.lo + d
  <2>1. n \in Nat /\ h.lo <= n /\ g.lo <= h.lo
    <3>1. d \in Nat
      BY <1>7
    <3>2. QED
      BY <1>1, <3>1, SMTT(30)
  <2>2. g.lo + (count(g) + d) = n
    <3>1. d \in Int /\ g.lo \in Int /\ g.hi \in Int /\ h.lo \in Int
      BY <1>1, <1>7
    <3>2. g.hi = h.lo - 1 /\ count(g) = g.hi - g.lo + 1
      BY <1>1
    <3>3. QED
      BY <3>1, <3>2
  <2> HIDE DEF n
  <2>3. Printed(n, g.width) = Printed(n, h.width)
    BY <1>1, <2>1, PrintedAlike
  <2>4. Host(e, count(g) + d) = g.pfx \o Printed(n, g.width)
    BY <1>5, <2>2 DEF Host
  <2>5. Host(h, d) = h.pfx \o Printed(n, h.width)
    BY <1>2 DEF Host, n
  <2>6. QED
    BY <1>1, <2>3, <2>4, <2>5
<1> DEFINE a == Hosts(g)
           b == Hosts(h)
           c == Hosts(e)
<1>10. a \in Seq(X) /\ b \in Seq(X) /\ c \in Seq(X)
  BY <1>7
<1>11. /\ Len(a) = count(g) /\ Len(b) = count(h) /\ Len(c) = Len(a) + Len(b)
       /\ Len(a) \in Nat /\ Len(b) \in Nat
  BY <1>6, <1>7
<1>12. \A i \in 1 .. Len(a) : c[i] = a[i]
  <2>1. SUFFICES ASSUME NEW i \in 1 .. Len(a) PROVE c[i] = a[i]
    OBVIOUS
  <2> DEFINE d == i - 1
  <2>2. d \in 0 .. count(g) - 1 /\ d \in 0 .. count(e) - 1 /\ i = d + 1
    BY <1>6, <1>11
  <2> HIDE DEF d
  <2>3. c[d + 1] = Host(e, d) /\ a[d + 1] = Host(g, d)
    BY <1>7, <2>2
  <2>4. QED
    BY <1>8, <2>2, <2>3
<1>13. \A i \in 1 .. Len(b) : c[Len(a) + i] = b[i]
  <2>1. SUFFICES ASSUME NEW i \in 1 .. Len(b) PROVE c[Len(a) + i] = b[i]
    OBVIOUS
  <2> DEFINE d == i - 1
             f == count(g) + d
  <2>2. d \in 0 .. count(h) - 1 /\ f \in 0 .. count(e) - 1 /\ i = d + 1 /\ Len(a) + i = f + 1
    <3>1. i \in Int /\ 1 <= i /\ i <= count(h) /\ Len(a) = count(g)
      BY <1>11
    <3>2. count(g) \in Nat /\ count(h) \in Nat
      BY <1>7
    <3> HIDE DEF a, b, c
    <3>3. QED
      BY <1>6, <3>1, <3>2
  <2> HIDE DEF f, d
  <2>3. c[f + 1] = Host(e, f) /\ b[d + 1] = Host(h, d)
    BY <1>7, <2>2
  <2>4. Host(e, f) = Host(h, d)
    BY <1>9, <2>2 DEF f
  <2>5. QED
    BY <2>2, <2>3, <2>4
<1> HIDE DEF a, b, c, X
<1>14. c = a \o b
  BY <1>10, <1>11, <1>12, <1>13, JoinedFrom
<1>15. QED
  BY <1>4, <1>14 DEF a, b, c, e

(* A range that is pushed adds its names to the list.                      *)
LEMMA PushRangeNames ==
  ASSUME NEW rs \in Lists, NEW h \in HostRange
  PROVE  NamesOf(push_range(rs, h)) = NamesOf(rs) \o Hosts(h)
<1>1. CASE rs # <<>> /\ Follows(Last(rs), h)
  <2> DEFINE n == Len(rs)
             g == rs[n]
             e == [g EXCEPT !.hi = h.hi]
             front == SubSeq(rs, 1, n - 1)
             X == Seq(Int)
  <2>1. n \in Nat /\ n # 0 /\ n \in 1 .. n /\ g \in HostRange /\ Last(rs) = g
    <3>1. n \in Nat /\ (n = 0 => rs = <<>>)
      BY NotEmpty
    <3>2. QED
      BY <1>1, <3>1, ListIs DEF Last
  <2>2. e \in HostRange /\ Hosts(e) = Hosts(g) \o Hosts(h)
    BY <1>1, <2>1, FollowsNames
  <2>3. push_range(rs, h) = [rs EXCEPT ![n] = e]
    <3>1. [rs EXCEPT ![n].hi = h.hi] = [rs EXCEPT ![n] = e]
      BY <2>1 DEF Lists
    <3>2. QED
      BY <1>1, <3>1 DEF push_range
  <2> HIDE DEF e, g, n
  <2>4. front \in Lists /\ rs = front \o <<g>> /\ [rs EXCEPT ![n] = e] = front \o <<e>>
    BY <2>1, <2>2, LastChanged DEF n, g
  <2> HIDE DEF front
  <2>5. /\ <<g>> \in Lists /\ <<e>> \in Lists
        /\ NamesOf(<<g>>) = Hosts(g) /\ NamesOf(<<e>>) = Hosts(e)
    BY <2>1, <2>2, OneSize, OneName
  <2>6. /\ NamesOf(rs) = NamesOf(front) \o Hosts(g)
        /\ NamesOf([rs EXCEPT ![n] = e]) = NamesOf(front) \o Hosts(e)
    BY <2>4, <2>5, NamesJoin
  <2>7. NamesOf(front) \in Seq(X) /\ Hosts(g) \in Seq(X) /\ Hosts(h) \in Seq(X)
    BY <2>1, <2>4, HostsAre, NamesAre
  <2> HIDE DEF X
  <2>8. NamesOf(front) \o (Hosts(g) \o Hosts(h)) = (NamesOf(front) \o Hosts(g)) \o Hosts(h)
    BY <2>7, JoinAssociates
  <2>9. QED
    BY <2>2, <2>3, <2>6, <2>8
<1>2. CASE ~(rs # <<>> /\ Follows(Last(rs), h))
  <2>1. push_range(rs, h) = rs \o <<h>>
    <3>1. push_range(rs, h) = Append(rs, h)
      BY <1>2 DEF push_range
    <3>2. Append(rs, h) = rs \o <<h>>
      BY AppendIsConcat DEF Lists
    <3>3. QED
      BY <3>1, <3>2
  <2>2. <<h>> \in Lists /\ NamesOf(<<h>>) = Hosts(h)
    BY OneSize, OneName
  <2>3. QED
    BY <2>1, <2>2, NamesJoin
<1>3. QED
  BY <1>1, <1>2

(* All of a sequence, and nothing of it.                                   *)
LEMMA WholeSeq ==
  ASSUME NEW X, NEW s \in Seq(X)
  PROVE  SubSeq(s, 1, Len(s)) = s
<1>1. Len(s) \in Nat /\ 1 \in 1 .. Len(s) + 1 /\ Len(s) \in 0 .. Len(s)
  OBVIOUS
<1> DEFINE t == SubSeq(s, 1, Len(s))
<1>2. t \in Seq(X) /\ Len(t) = (IF 1 <= Len(s) THEN Len(s) - 1 + 1 ELSE 0)
      /\ \A k \in 1 .. Len(t) : t[k] = s[1 + k - 1]
  BY <1>1, PartIs
<1> HIDE DEF t
<1>3. Len(t) = Len(s) /\ \A k \in 1 .. Len(t) : t[k] = s[k]
  BY <1>1, <1>2
<1>4. t = s
  BY <1>2, <1>3, SeqEqual
<1>5. QED
  BY <1>4 DEF t

(* Nothing of a sequence.                                                   *)
LEMMA NothingOf ==
  ASSUME NEW s, NEW i \in Int, NEW j \in Int, j < i
  PROVE  SubSeq(s, i, j) = <<>>
  OBVIOUS

(* A range more of a list, from its start or from its end.                 *)
LEMMA OneRangeMore ==
  ASSUME NEW rs \in Lists, NEW n \in 1 .. Len(rs)
  PROVE  /\ SubSeq(rs, 1, n - 1) \in Lists /\ SubSeq(rs, n + 1, Len(rs)) \in Lists
         /\ SubSeq(rs, 1, n) = SubSeq(rs, 1, n - 1) \o <<rs[n]>>
         /\ SubSeq(rs, n, Len(rs)) = <<rs[n]>> \o SubSeq(rs, n + 1, Len(rs))
<1> DEFINE N == Len(rs)
           X == HostRange
           x == rs[n]
<1>1. N \in Nat /\ n \in Nat /\ n >= 1 /\ n <= N /\ x \in X
  BY ListIs
<1>2. rs \in Seq(X)
  BY DEF Lists
<1>3. <<x>> \in Seq(X) /\ Len(<<x>>) = 1 /\ <<x>>[1] = x
  BY <1>1
<1> DEFINE a == SubSeq(rs, 1, n)
           b == SubSeq(rs, 1, n - 1)
           c == SubSeq(rs, n, N)
           d == SubSeq(rs, n + 1, N)
<1>4. a \in Seq(X) /\ Len(a) = n /\ \A k \in 1 .. n : a[k] = rs[k]
  <2>1. 1 \in 1 .. N + 1 /\ n \in 0 .. N
    BY <1>1
  <2>2. a \in Seq(X) /\ Len(a) = (IF 1 <= n THEN n - 1 + 1 ELSE 0)
        /\ \A k \in 1 .. Len(a) : a[k] = rs[1 + k - 1]
    BY <1>2, <2>1, PartIs
  <2> HIDE DEF a
  <2>3. QED
    BY <1>1, <2>2
<1>5. b \in Seq(X) /\ Len(b) = n - 1 /\ \A k \in 1 .. n - 1 : b[k] = rs[k]
  <2>1. 1 \in 1 .. N + 1 /\ n - 1 \in 0 .. N
    BY <1>1
  <2>2. b \in Seq(X) /\ Len(b) = (IF 1 <= n - 1 THEN (n - 1) - 1 + 1 ELSE 0)
        /\ \A k \in 1 .. Len(b) : b[k] = rs[1 + k - 1]
    BY <1>2, <2>1, PartIs
  <2> HIDE DEF b
  <2>3. QED
    BY <1>1, <2>2
<1>6. c \in Seq(X) /\ Len(c) = N - n + 1 /\ \A k \in 1 .. N - n + 1 : c[k] = rs[n + k - 1]
  <2>1. n \in 1 .. N + 1 /\ N \in 0 .. N
    BY <1>1
  <2>2. c \in Seq(X) /\ Len(c) = (IF n <= N THEN N - n + 1 ELSE 0)
        /\ \A k \in 1 .. Len(c) : c[k] = rs[n + k - 1]
    BY <1>2, <2>1, PartIs
  <2> HIDE DEF c
  <2>3. QED
    BY <1>1, <2>2
<1>7. d \in Seq(X) /\ Len(d) = N - n /\ \A k \in 1 .. N - n : d[k] = rs[n + k]
  <2>1. n + 1 \in 1 .. N + 1 /\ N \in 0 .. N
    BY <1>1
  <2>2. d \in Seq(X) /\ Len(d) = (IF n + 1 <= N THEN N - (n + 1) + 1 ELSE 0)
        /\ \A k \in 1 .. Len(d) : d[k] = rs[(n + 1) + k - 1]
    BY <1>2, <2>1, PartIs
  <2> HIDE DEF d
  <2>3. Len(d) = N - n
    BY <1>1, <2>2
  <2>4. \A k \in 1 .. N - n : (n + 1) + k - 1 = n + k
    BY <1>1
  <2>5. QED
    BY <2>2, <2>3, <2>4
<1> HIDE DEF a, b, c, d, N
<1>8. a = b \o <<x>>
  <2>1. Len(a) = Len(b) + Len(<<x>>) /\ \A i \in 1 .. Len(b) : a[i] = b[i]
    BY <1>1, <1>3, <1>4, <1>5
  <2>2. \A i \in 1 .. Len(<<x>>) : a[Len(b) + i] = <<x>>[i]
    BY <1>1, <1>3, <1>4, <1>5
  <2> HIDE DEF x, X
  <2>3. QED
    BY <1>3, <1>4, <1>5, <2>1, <2>2, JoinedFrom
<1>9. c = <<x>> \o d
  <2>1. Len(c) = Len(<<x>>) + Len(d)
    BY <1>1, <1>3, <1>6, <1>7
  <2>2. \A i \in 1 .. Len(<<x>>) : c[i] = <<x>>[i]
    <3>1. c[1] = rs[n + 1 - 1] /\ n + 1 - 1 = n
      BY <1>1, <1>6
    <3>2. QED
      BY <1>3, <3>1
  <2>3. ASSUME NEW i \in 1 .. Len(d) PROVE c[Len(<<x>>) + i] = d[i]
    <3>1. i \in 1 .. N - n /\ 1 + i \in 1 .. N - n + 1 /\ n + (1 + i) - 1 = n + i
      BY <1>1, <1>7
    <3>2. c[1 + i] = rs[n + i] /\ d[i] = rs[n + i]
      BY <1>6, <1>7, <3>1
    <3>3. QED
      BY <1>3, <3>2
  <2> HIDE DEF x, X
  <2>4. QED
    BY <1>3, <1>6, <1>7, <2>1, <2>2, <2>3, JoinedFrom
<1>10. QED
  BY <1>5, <1>7, <1>8, <1>9 DEF a, b, c, d, N, Lists

(* The list of no range has no name.                                       *)
LEMMA NoNames == NamesOf(<<>>) = <<>>
<1>1. <<>> \in Lists /\ Size(<<>>) = 0
  BY EmptySize
<1>2. NamesOf(<<>>) \in Seq(Seq(Int)) /\ Len(NamesOf(<<>>)) = 0
  BY <1>1, NamesAt
<1> DEFINE s == NamesOf(<<>>)
<1> HIDE DEF s
<1>3. s \in Seq(Seq(Int)) /\ Len(s) = 0 => s = <<>>
  OBVIOUS
<1>4. QED
  BY <1>2, <1>3 DEF s

(* hostlist_push_list, and hostlist_push with the list of its string: the  *)
(* names are those the list had and then those of the other list, in order,*)
(* each written as it was, though ranges that follow one another become    *)
(* one and their numbers take its width.                                   *)
THEOREM PushIs ==
  ASSUME NEW rs \in Lists, NEW new \in Lists
  PROVE  NamesOf(push_ranges(rs, new)) = NamesOf(rs) \o NamesOf(new)
<1> DEFINE N == Len(new)
           X == Seq(Int)
           P(n) == SubSeq(new, 1, n)
<1>1. PICK h : PushesUp(h, rs, new)
  BY PushRanges
<1>2. N \in Nat /\ \A n \in 1 .. N : new[n] \in HostRange
  BY ListIs
<1> DEFINE S == {n \in Nat : n <= N => NamesOf(h[n]) = NamesOf(rs) \o NamesOf(P(n))}
<1>3. 0 \in S
  <2>1. P(0) = <<>>
    BY <1>2, NothingOf
  <2>2. NamesOf(rs) \in Seq(X) /\ NamesOf(rs) \o <<>> = NamesOf(rs)
    BY NamesAre
  <2>3. NamesOf(h[0]) = NamesOf(rs) \o NamesOf(P(0))
    BY <1>1, <2>1, <2>2, NoNames DEF PushesUp
  <2>4. QED
    BY <2>3
<1>4. ASSUME NEW n \in Nat, n \in S PROVE n + 1 \in S
  <2>1. SUFFICES ASSUME n + 1 <= N
                 PROVE  NamesOf(h[n + 1]) = NamesOf(rs) \o NamesOf(P(n + 1))
    OBVIOUS
  <2> DEFINE x == new[n + 1]
             a == NamesOf(rs)
             b == NamesOf(P(n))
             c == Hosts(x)
  <2>2. n + 1 \in 1 .. Len(new) /\ (n + 1) - 1 = n /\ x \in HostRange
    BY <1>2, <2>1
  <2>3. h[n] \in Lists /\ h[n + 1] = push_range(h[n], x)
    BY <1>1, <2>2 DEF PushesUp
  <2>4. NamesOf(h[n + 1]) = NamesOf(h[n]) \o c
    BY <2>2, <2>3, PushRangeNames
  <2>5. NamesOf(h[n]) = a \o b
    BY <1>2, <1>4, <2>1
  <2>6. P(n) \in Lists /\ P(n + 1) = P(n) \o <<x>>
    BY <2>2, OneRangeMore
  <2>7. NamesOf(P(n + 1)) = b \o c
    <3>1. <<x>> \in Lists /\ NamesOf(<<x>>) = c
      BY <2>2, OneSize, OneName
    <3>2. QED
      BY <2>6, <3>1, NamesJoin
  <2>8. a \in Seq(X) /\ b \in Seq(X) /\ c \in Seq(X)
    BY <2>2, <2>6, NamesAre, HostsAre
  <2> HIDE DEF a, b, c, x, X, P
  <2>9. a \o (b \o c) = (a \o b) \o c
    BY <2>8, JoinAssociates
  <2>10. QED
    BY <2>4, <2>5, <2>7, <2>9 DEF a
<1> HIDE DEF S
<1>5. \A n \in Nat : n \in S
  BY <1>3, <1>4, Induction
<1>6. NamesOf(h[N]) = NamesOf(rs) \o NamesOf(P(N))
  BY <1>2, <1>5 DEF S
<1>7. P(N) = new
  BY WholeSeq DEF Lists
<1>8. QED
  BY <1>1, <1>6, <1>7 DEF PushesUp

(* A step of hostlist_collapse keeps the names.                            *)
LEMMA PrependNames ==
  ASSUME NEW h \in HostRange, NEW acc \in Lists
  PROVE  NamesOf(Prepended(h, acc)) = Hosts(h) \o NamesOf(acc)
<1> DEFINE X == Seq(Int)
<1>1. CASE acc # <<>> /\ Follows(h, acc[1])
  <2> DEFINE g == acc[1]
             e == [h EXCEPT !.hi = g.hi]
             tail == SubSeq(acc, 2, Len(acc))
  <2>1. 1 \in 1 .. Len(acc) /\ g \in HostRange /\ 1 + 1 = 2
    <3>1. Len(acc) \in Nat /\ Len(acc) # 0
      BY <1>1, NotEmpty
    <3>2. QED
      BY <3>1, ListIs
  <2>2. e \in HostRange /\ Hosts(e) = Hosts(h) \o Hosts(g)
    BY <1>1, <2>1, FollowsNames
  <2>3. Prepended(h, acc) = <<e>> \o tail
    <3>1. Tail(acc) = tail
      BY <1>1 DEF Lists
    <3>2. QED
      BY <1>1, <3>1 DEF Prepended
  <2>4. tail \in Lists /\ acc = <<g>> \o tail
    <3>1. SubSeq(acc, 1 + 1, Len(acc)) \in Lists
          /\ SubSeq(acc, 1, Len(acc)) = <<acc[1]>> \o SubSeq(acc, 1 + 1, Len(acc))
      BY <2>1, OneRangeMore
    <3>2. SubSeq(acc, 1, Len(acc)) = acc
      BY WholeSeq DEF Lists
    <3>3. QED
      BY <2>1, <3>1, <3>2
  <2> HIDE DEF e, g, tail
  <2>5. /\ <<g>> \in Lists /\ <<e>> \in Lists
        /\ NamesOf(<<g>>) = Hosts(g) /\ NamesOf(<<e>>) = Hosts(e)
    BY <2>1, <2>2, OneSize, OneName
  <2>6. /\ NamesOf(acc) = Hosts(g) \o NamesOf(tail)
        /\ NamesOf(Prepended(h, acc)) = Hosts(e) \o NamesOf(tail)
    BY <2>3, <2>4, <2>5, NamesJoin
  <2>7. Hosts(h) \in Seq(X) /\ Hosts(g) \in Seq(X) /\ NamesOf(tail) \in Seq(X)
    BY <2>1, <2>4, HostsAre, NamesAre
  <2> HIDE DEF X
  <2>8. Hosts(h) \o (Hosts(g) \o NamesOf(tail)) = (Hosts(h) \o Hosts(g)) \o NamesOf(tail)
    BY <2>7, JoinAssociates
  <2>9. QED
    BY <2>2, <2>6, <2>8
<1>2. CASE ~(acc # <<>> /\ Follows(h, acc[1]))
  <2>1. Prepended(h, acc) = <<h>> \o acc
    BY <1>2 DEF Prepended
  <2>2. <<h>> \in Lists /\ NamesOf(<<h>>) = Hosts(h)
    BY OneSize, OneName
  <2>3. QED
    BY <2>1, <2>2, NamesJoin
<1>3. QED
  BY <1>1, <1>2

(* hostlist_collapse keeps the names and their order.                      *)
THEOREM CollapseNames ==
  ASSUME NEW rs \in Lists
  PROVE  NamesOf(collapse(rs)) = NamesOf(rs)
<1> DEFINE N == Len(rs)
           P(n) == SubSeq(rs, n, N)
<1>1. PICK h : CollapsesDown(h, rs)
  BY CollapseIs
<1>2. N \in Nat /\ \A n \in 1 .. N : rs[n] \in HostRange
  BY ListIs
<1> DEFINE S == {m \in Nat : m <= N => NamesOf(h[N + 1 - m]) = NamesOf(P(N + 1 - m))}
<1>3. 0 \in S
  <2>1. P(N + 1) = <<>> /\ N + 1 - 0 = N + 1
    BY <1>2, NothingOf
  <2>2. NamesOf(h[N + 1]) = NamesOf(P(N + 1))
    BY <1>1, <2>1 DEF CollapsesDown
  <2>3. NamesOf(h[N + 1 - 0]) = NamesOf(P(N + 1 - 0))
    BY <2>1, <2>2
  <2>4. QED
    BY <2>3
<1>4. ASSUME NEW m \in Nat, m \in S PROVE m + 1 \in S
  <2>1. SUFFICES ASSUME m + 1 <= N
                 PROVE  NamesOf(h[N + 1 - (m + 1)]) = NamesOf(P(N + 1 - (m + 1)))
    OBVIOUS
  <2> DEFINE n == N - m
  <2>2. n \in 1 .. Len(rs) /\ N + 1 - m = n + 1 /\ N + 1 - (m + 1) = n /\ m <= N
    BY <1>2, <2>1
  <2>3. h[n + 1] \in Lists /\ h[n] = Prepended(rs[n], h[n + 1])
    BY <1>1, <2>2 DEF CollapsesDown
  <2>4. NamesOf(h[n + 1]) = NamesOf(P(n + 1))
    BY <1>4, <2>2
  <2>5. NamesOf(h[n]) = Hosts(rs[n]) \o NamesOf(P(n + 1))
    BY <1>2, <2>2, <2>3, <2>4, PrependNames
  <2>6. P(n + 1) \in Lists /\ P(n) = <<rs[n]>> \o P(n + 1)
    BY <2>2, OneRangeMore
  <2>7. <<rs[n]>> \in Lists /\ NamesOf(<<rs[n]>>) = Hosts(rs[n])
    BY <1>2, <2>2, OneSize, OneName
  <2>8. NamesOf(P(n)) = Hosts(rs[n]) \o NamesOf(P(n + 1))
    BY <2>6, <2>7, NamesJoin
  <2>9. QED
    BY <2>2, <2>5, <2>8
<1> HIDE DEF S
<1>5. \A m \in Nat : m \in S
  BY <1>3, <1>4, Induction
<1>6. NamesOf(h[1]) = NamesOf(P(1))
  <2>1. N + 1 - N = 1 /\ N \in S /\ N <= N
    BY <1>2, <1>5
  <2>2. QED
    BY <2>1 DEF S
<1>7. P(1) = rs
  BY WholeSeq DEF Lists
<1>8. QED
  BY <1>1, <1>6, <1>7 DEF CollapsesDown

(* A range cut in two has the names of the two.                            *)
LEMMA CutRange ==
  ASSUME NEW h \in HostRange, ~h.single, NEW m \in Nat, h.lo <= m, m + 1 <= h.hi
  PROVE  /\ Bounded(h, h.lo, m) \in HostRange /\ Bounded(h, m + 1, h.hi) \in HostRange
         /\ Hosts(h) = Hosts(Bounded(h, h.lo, m)) \o Hosts(Bounded(h, m + 1, h.hi))
<1> DEFINE f == Bounded(h, h.lo, m)
           g == Bounded(h, m + 1, h.hi)
<1>1. /\ h = [pfx |-> h.pfx, lo |-> h.lo, hi |-> h.hi, width |-> h.width, single |-> h.single]
      /\ h.lo \in Nat /\ h.hi \in Nat
  BY RangeIs
<1>2. f \in HostRange /\ g \in HostRange
  <2>1. m + 1 \in Nat
    OBVIOUS
  <2>2. QED
    BY <1>1, <2>1, BoundedIs
<1>3. /\ f.pfx = h.pfx /\ f.lo = h.lo /\ f.hi = m /\ f.width = h.width /\ f.single = h.single
      /\ g.pfx = h.pfx /\ g.lo = m + 1 /\ g.hi = h.hi /\ g.width = h.width /\ g.single = h.single
  BY DEF Bounded
<1>4. [f EXCEPT !.hi = g.hi] = h
  <2>1. [f EXCEPT !.hi = g.hi] = Bounded(f, f.lo, g.hi)
    BY <1>2, OtherEnd
  <2>2. Bounded(f, f.lo, g.hi)
          = [pfx |-> h.pfx, lo |-> h.lo, hi |-> h.hi, width |-> h.width, single |-> h.single]
    <3> HIDE DEF f, g
    <3>1. QED
      BY <1>3 DEF Bounded
  <2>3. QED
    BY <1>1, <2>1, <2>2
<1> HIDE DEF f, g
<1>5. Follows(f, g)
  <2>1. prefix_eq(f, g) /\ f.hi = g.lo - 1
    BY <1>3 DEF prefix_eq
  <2>2. width_combine(f, g)
    BY <1>3 DEF width_combine, width_equiv
  <2>3. QED
    BY <2>1, <2>2 DEF Follows
<1>6. Hosts([f EXCEPT !.hi = g.hi]) = Hosts(f) \o Hosts(g)
  BY <1>2, <1>5, FollowsNames
<1>7. QED
  BY <1>2, <1>4, <1>6 DEF f, g

(* A range of one name.                                                    *)
LEMMA OnlyHost ==
  ASSUME NEW h \in HostRange, h.lo = h.hi
  PROVE  Hosts(h) = <<Host(h, 0)>> /\ Host(h, 0) \in Seq(Int)
<1> DEFINE X == Seq(Int)
           s == Hosts(h)
           x == Host(h, 0)
<1>1. h.lo \in Nat /\ h.hi \in Nat /\ count(h) = h.hi - h.lo + 1
  BY RangeIs
<1>2. count(h) = 1
  BY <1>1
<1>3. s \in Seq(X) /\ Len(s) = 1 /\ s[1] = x
  <2>1. 0 \in 0 .. count(h) - 1 /\ 0 + 1 = 1
    BY <1>2
  <2>2. s \in Seq(X) /\ Len(s) = 1 /\ s[0 + 1] = x
    BY <1>2, <2>1, HostsAre
  <2>3. QED
    BY <2>1, <2>2
<1>4. x \in X
  BY HostIs
<1> HIDE DEF X, s, x
<1>5. s = <<x>>
  BY <1>3
<1>6. QED
  BY <1>4, <1>5 DEF s, x, X

(* What hostrange_delete_host leaves of a range below the number and above.*)
Below(h, num) == IF num = h.lo THEN <<>> ELSE <<Bounded(h, h.lo, num - 1)>>
Above(h, num) == IF num = h.hi THEN <<>> ELSE <<Bounded(h, num + 1, h.hi)>>

(* It is all but the name with that number.                                *)
LEMMA BesidesIs ==
  ASSUME NEW h \in HostRange, NEW num \in h.lo .. h.hi
  PROVE  /\ Below(h, num) \in Lists /\ Above(h, num) \in Lists
         /\ Size(Below(h, num)) = num - h.lo /\ Host(h, num - h.lo) \in Seq(Int)
         /\ Hosts(h) = (NamesOf(Below(h, num)) \o <<Host(h, num - h.lo)>>) \o NamesOf(Above(h, num))
<1> DEFINE X == Seq(Int)
           x == Host(h, num - h.lo)
           low == Below(h, num)
           up == Above(h, num)
<1>1. /\ h.lo \in Nat /\ h.hi \in Nat /\ h.lo <= h.hi /\ h.single \in BOOLEAN
      /\ h.single => h.lo = 0 /\ h.hi = 0
      /\ num \in Nat /\ h.lo <= num /\ num <= h.hi
  BY RangeIs
<1>2. <<>> \in Lists /\ Size(<<>>) = 0 /\ NamesOf(<<>>) = <<>>
  BY EmptySize, NoNames
<1>3. \A s \in Seq(X) : s \o <<>> = s /\ <<>> \o s = s
  OBVIOUS
<1>4. CASE h.lo = h.hi
  <2>1. num = h.lo /\ num - h.lo = 0
    BY <1>1, <1>4
  <2>2. low = <<>> /\ up = <<>>
    BY <1>4, <2>1 DEF Below, Above
  <2>3. Hosts(h) = <<x>> /\ x \in X
    BY <1>4, <2>1, OnlyHost
  <2>4. <<x>> \in Seq(X)
    BY <2>3
  <2> HIDE DEF X, x, low, up
  <2>5. (<<>> \o <<x>>) \o <<>> = <<x>>
    BY <1>3, <2>4
  <2>6. low \in Lists /\ up \in Lists /\ Size(low) = num - h.lo /\ x \in X
        /\ Hosts(h) = (NamesOf(low) \o <<x>>) \o NamesOf(up)
    BY <1>2, <2>1, <2>2, <2>3, <2>5
  <2>7. QED
    BY <2>6 DEF X, x, low, up
<1>5. CASE h.lo # h.hi
  <2> DEFINE t == Bounded(h, num, h.hi)
             o == Bounded(h, num, num)
  <2>1. ~h.single
    BY <1>1, <1>5
  <2>2. t \in HostRange /\ o \in HostRange
    BY <1>1, <2>1, BoundedIs
  <2>3. /\ t.pfx = h.pfx /\ t.lo = num /\ t.hi = h.hi /\ t.width = h.width /\ t.single = h.single
        /\ o.pfx = h.pfx /\ o.lo = num /\ o.hi = num /\ o.width = h.width /\ o.single = h.single
    BY DEF Bounded
  <2>4. \A a : Bounded(t, num, a) = Bounded(h, num, a) /\ Bounded(t, a, t.hi) = Bounded(h, a, h.hi)
    BY DEF Bounded
  <2> HIDE DEF t, o
  <2>5. Hosts(o) = <<x>> /\ x \in X
    <3>1. Hosts(o) = <<Host(o, 0)>> /\ Host(o, 0) \in X
      BY <2>2, <2>3, OnlyHost
    <3>2. o.lo + 0 = num /\ h.lo + (num - h.lo) = num
      BY <1>1, <2>3
    <3>3. Host(o, 0) = h.pfx \o Printed(num, h.width)
      BY <2>1, <2>3, <3>2 DEF Host
    <3>4. x = h.pfx \o Printed(num, h.width)
      BY <2>1, <3>2 DEF Host
    <3>5. QED
      BY <3>1, <3>3, <3>4
  <2>6. low \in Lists /\ Size(low) = num - h.lo /\ Hosts(h) = NamesOf(low) \o Hosts(t)
    <3>1. CASE num = h.lo
      <4>1. low = <<>>
        BY <3>1 DEF Below
      <4>2. t = h
        <5>1. h = [pfx |-> h.pfx, lo |-> h.lo, hi |-> h.hi, width |-> h.width, single |-> h.single]
          BY RangeIs
        <5>2. QED
          BY <3>1, <5>1 DEF t, Bounded
      <4>3. Hosts(h) \in Seq(X)
        BY HostsAre
      <4>4. <<>> \o Hosts(h) = Hosts(h)
        BY <1>3, <4>3
      <4> HIDE DEF low
      <4>5. num - h.lo = 0
        BY <1>1, <3>1
      <4>6. QED
        BY <1>2, <4>1, <4>2, <4>4, <4>5
    <3>2. CASE num # h.lo
      <4> DEFINE g == Bounded(h, h.lo, num - 1)
      <4>1. low = <<g>>
        BY <3>2 DEF Below
      <4>2. num - 1 \in Nat /\ h.lo <= num - 1 /\ (num - 1) + 1 <= h.hi /\ (num - 1) + 1 = num
        BY <1>1, <3>2
      <4>3. g \in HostRange /\ Hosts(h) = Hosts(g) \o Hosts(t)
        BY <2>1, <4>2, CutRange DEF t
      <4>4. count(g) = (num - 1) - h.lo + 1
        BY <1>1, <2>1, <4>2, BoundedIs
      <4> HIDE DEF g, low
      <4>5. <<g>> \in Lists /\ Size(<<g>>) = count(g) /\ NamesOf(<<g>>) = Hosts(g)
        BY <4>3, OneSize, OneName
      <4>6. count(g) = num - h.lo
        BY <1>1, <4>4
      <4>7. QED
        BY <4>1, <4>3, <4>5, <4>6
    <3>3. QED
      BY <3>1, <3>2
  <2>7. up \in Lists /\ Hosts(t) = <<x>> \o NamesOf(up)
    <3>1. CASE num = h.hi
      <4>1. up = <<>> /\ t = o
        BY <3>1 DEF Above, t, o
      <4>2. <<x>> \in Seq(X)
        BY <2>5
      <4>3. <<x>> \o <<>> = <<x>>
        BY <1>3, <4>2
      <4> HIDE DEF up, x
      <4>4. QED
        BY <1>2, <2>5, <4>1, <4>3
    <3>2. CASE num # h.hi
      <4> DEFINE g == Bounded(h, num + 1, h.hi)
      <4>1. up = <<g>>
        BY <3>2 DEF Above
      <4>2. num + 1 \in Nat /\ num + 1 <= h.hi
        BY <1>1, <3>2
      <4>3. /\ Bounded(t, t.lo, num) = o /\ Bounded(t, num + 1, t.hi) = g
        BY <2>3, <2>4 DEF o
      <4>4. /\ Bounded(t, num + 1, t.hi) \in HostRange
            /\ Hosts(t) = Hosts(Bounded(t, t.lo, num)) \o Hosts(Bounded(t, num + 1, t.hi))
        <5>1. ~t.single /\ num \in Nat /\ t.lo <= num /\ num + 1 <= t.hi
          BY <1>1, <2>1, <2>3, <4>2
        <5> HIDE DEF g, up, x
        <5>2. QED
          BY <2>2, <5>1, CutRange
      <4> HIDE DEF g, up, x
      <4>5. <<g>> \in Lists /\ NamesOf(<<g>>) = Hosts(g)
        BY <4>3, <4>4, OneSize, OneName
      <4>6. QED
        BY <2>5, <4>1, <4>3, <4>4, <4>5
    <3>3. QED
      BY <3>1, <3>2
  <2>8. NamesOf(low) \in Seq(X) /\ NamesOf(up) \in Seq(X) /\ <<x>> \in Seq(X)
    BY <2>5, <2>6, <2>7, NamesAre
  <2> DEFINE a == NamesOf(low)
             b == NamesOf(up)
             c == <<x>>
  <2> HIDE DEF a, b, c, X
  <2>9. a \o (c \o b) = (a \o c) \o b
    BY <2>8, JoinAssociates DEF a, b, c
  <2> HIDE DEF low, up, x
  <2>10. Hosts(h) = a \o (c \o b)
    BY <2>6, <2>7 DEF a, b, c
  <2>11. low \in Lists /\ up \in Lists /\ Size(low) = num - h.lo /\ x \in X
        /\ Hosts(h) = (NamesOf(low) \o <<x>>) \o NamesOf(up)
    BY <2>5, <2>6, <2>7, <2>9, <2>10 DEF a, b, c
  <2>12. QED
    BY <2>11 DEF low, up, x, X
<1>6. QED
  BY <1>4, <1>5

(* An element taken out of a sequence.                                     *)
LEMMA TakenOut ==
  ASSUME NEW X, NEW p \in Seq(X), NEW x \in X, NEW q \in Seq(X)
  PROVE  RemoveAt((p \o <<x>>) \o q, Len(p) + 1) = p \o q
<1> DEFINE n == Len(p)
           a == p \o <<x>>
           s == a \o q
           N == Len(s)
<1>1. <<x>> \in Seq(X) /\ Len(<<x>>) = 1 /\ Len(p) \in Nat /\ Len(q) \in Nat
  OBVIOUS
<1>2. a \in Seq(X) /\ Len(a) = n + 1 /\ \A m \in 1 .. n : a[m] = p[m]
  BY <1>1, Joining
<1> HIDE DEF a
<1>3. /\ s \in Seq(X) /\ Len(s) = Len(a) + Len(q)
      /\ \A m \in 1 .. Len(a) : s[m] = a[m]
      /\ \A m \in 1 .. Len(q) : s[Len(a) + m] = q[m]
  <2>1. a \in Seq(X)
    BY <1>2
  <2>2. QED
    BY <2>1, Joining
<1> HIDE DEF s
<1>4. N = n + 1 + Len(q) /\ n \in Nat /\ N \in Nat
  BY <1>1, <1>2, <1>3
<1> DEFINE u == SubSeq(s, 1, n + 1 - 1)
           v == SubSeq(s, n + 1 + 1, N)
<1>5. u = p
  <2>1. 1 \in 1 .. Len(s) + 1 /\ n \in 0 .. Len(s) /\ n + 1 - 1 = n
    BY <1>4
  <2>2. /\ SubSeq(s, 1, n) \in Seq(X) /\ Len(SubSeq(s, 1, n)) = (IF 1 <= n THEN n - 1 + 1 ELSE 0)
        /\ \A k \in 1 .. Len(SubSeq(s, 1, n)) : SubSeq(s, 1, n)[k] = s[1 + k - 1]
    BY <1>3, <2>1, PartIs
  <2>3. u = SubSeq(s, 1, n)
    BY <2>1
  <2> HIDE DEF u
  <2>4. u \in Seq(X) /\ Len(u) = n
    BY <1>4, <2>2, <2>3
  <2>5. \A k \in 1 .. Len(u) : u[k] = p[k]
    <3>1. SUFFICES ASSUME NEW k \in 1 .. n PROVE u[k] = p[k]
      BY <2>4
    <3>2. k \in 1 .. Len(a) /\ 1 + k - 1 = k /\ k \in 1 .. Len(u)
      BY <1>2, <1>4, <2>4
    <3>3. QED
      BY <1>2, <1>3, <2>2, <2>3, <3>2
  <2>6. QED
    BY <2>4, <2>5, SeqEqual DEF n
<1>6. v = q
  <2> DEFINE i == n + 1 + 1
  <2>1. i \in 1 .. Len(s) + 1 /\ N \in 0 .. Len(s)
    BY <1>4
  <2>2. /\ v \in Seq(X) /\ Len(v) = (IF i <= N THEN N - i + 1 ELSE 0)
        /\ \A k \in 1 .. Len(v) : v[k] = s[i + k - 1]
    BY <1>3, <2>1, PartIs
  <2> HIDE DEF v
  <2>3. Len(v) = Len(q)
    BY <1>1, <1>4, <2>2
  <2>4. \A k \in 1 .. Len(v) : v[k] = q[k]
    <3>1. SUFFICES ASSUME NEW k \in 1 .. Len(v) PROVE v[k] = q[k]
      OBVIOUS
    <3>2. k \in 1 .. Len(q) /\ i + k - 1 = Len(a) + k
      BY <1>2, <1>4, <2>3
    <3>3. QED
      BY <1>3, <2>2, <3>2
  <2>5. QED
    BY <2>2, <2>3, <2>4, SeqEqual
<1>7. RemoveAt(s, n + 1) = u \o v
  <2> DEFINE i == n + 1
  <2>1. u = SubSeq(s, 1, i - 1) /\ v = SubSeq(s, i + 1, Len(s))
    OBVIOUS
  <2> HIDE DEF i, u, v
  <2>2. RemoveAt(s, i) = SubSeq(s, 1, i - 1) \o SubSeq(s, i + 1, Len(s))
    BY DEF RemoveAt
  <2>3. RemoveAt(s, i) = u \o v
    BY <2>1, <2>2
  <2>4. QED
    BY <2>3 DEF i
<1> HIDE DEF u, v
<1>8. RemoveAt(s, n + 1) = p \o q
  BY <1>5, <1>6, <1>7
<1>9. QED
  BY <1>8 DEF s, a, n

(* A range of a list and those on either side of it, and the same with     *)
(* another range in its place and one more behind that.                    *)
LEMMA RangesAround ==
  ASSUME NEW rs \in Lists, NEW k \in 1 .. Len(rs), NEW g \in HostRange, NEW e
  PROVE  LET a == SubSeq(rs, 1, k - 1)
             b == SubSeq(rs, k + 1, Len(rs))
             ts == [rs EXCEPT ![k] = g]
         IN  /\ a \in Lists /\ b \in Lists /\ rs = (a \o <<rs[k]>>) \o b
             /\ RemoveAt(rs, k) = a \o b
             /\ ts = (a \o <<g>>) \o b
             /\ InsertAt(ts, k + 1, e) = ((a \o <<g>>) \o <<e>>) \o b
<1> DEFINE n == Len(rs)
           X == HostRange
           a == SubSeq(rs, 1, k - 1)
           b == SubSeq(rs, k + 1, n)
           ts == [rs EXCEPT ![k] = g]
           c == SubSeq(ts, 1, k - 1)
           d == SubSeq(ts, k + 1, Len(ts))
<1>1. n \in Nat /\ k \in 1 .. n /\ k \in 0 .. n /\ rs \in Seq(X)
  BY ListIs DEF Lists
<1>2. a \in Lists /\ b \in Lists /\ SubSeq(rs, 1, k) = a \o <<rs[k]>>
  BY OneRangeMore
<1>3. rs = (a \o <<rs[k]>>) \o b
  <2>1. rs = SubSeq(rs, 1, k) \o SubSeq(rs, k + 1, Len(rs))
    BY <1>1, TwoParts
  <2>2. QED
    BY <1>2, <2>1
<1>4. RemoveAt(rs, k) = a \o b
  BY DEF RemoveAt
<1>5. ts \in Lists /\ Len(ts) = n /\ \A j \in 1 .. n : ts[j] = IF j = k THEN g ELSE rs[j]
  BY ReplacedSize
<1> HIDE DEF ts
<1>6. c \in Lists /\ d \in Lists /\ SubSeq(ts, 1, k) = c \o <<ts[k]>> /\ ts \in Seq(X)
  <2>1. k \in 1 .. Len(ts)
    BY <1>1, <1>5
  <2>2. QED
    BY <1>5, <2>1, OneRangeMore DEF Lists
<1>7. ts = (c \o <<g>>) \o d
  <2>1. k \in 0 .. Len(ts) /\ ts[k] = g
    BY <1>1, <1>5
  <2>2. ts = SubSeq(ts, 1, k) \o SubSeq(ts, k + 1, Len(ts))
    BY <1>6, <2>1, TwoParts
  <2>3. QED
    BY <1>6, <2>1, <2>2
<1>8. c = a
  <2>1. 1 \in 1 .. Len(rs) + 1 /\ k - 1 \in 0 .. Len(rs) /\ 1 \in 1 .. Len(ts) + 1
        /\ k - 1 \in 0 .. Len(ts)
    BY <1>1, <1>5
  <2>2. /\ a \in Seq(X) /\ Len(a) = (IF 1 <= k - 1 THEN (k - 1) - 1 + 1 ELSE 0)
        /\ \A j \in 1 .. Len(a) : a[j] = rs[1 + j - 1] /\ 1 + j - 1 \in 1 .. k - 1
    BY <1>1, <2>1, PartIs
  <2>3. /\ c \in Seq(X) /\ Len(c) = (IF 1 <= k - 1 THEN (k - 1) - 1 + 1 ELSE 0)
        /\ \A j \in 1 .. Len(c) : c[j] = ts[1 + j - 1] /\ 1 + j - 1 \in 1 .. k - 1
    BY <1>6, <2>1, PartIs
  <2>4. \A j \in 1 .. k - 1 : ts[j] = rs[j]
    BY <1>1, <1>5
  <2> HIDE DEF a, c
  <2>5. Len(a) = Len(c) /\ \A j \in 1 .. Len(a) : a[j] = c[j]
    BY <2>2, <2>3, <2>4
  <2>6. QED
    BY <2>2, <2>3, <2>5, SeqEqual
<1>9. d = b
  <2>1. k + 1 \in 1 .. Len(rs) + 1 /\ Len(rs) \in 0 .. Len(rs) /\ k + 1 \in 1 .. Len(ts) + 1
        /\ Len(ts) \in 0 .. Len(ts)
    BY <1>1, <1>5
  <2> DEFINE i == k + 1
  <2> HIDE DEF i
  <2>2. /\ b \in Seq(X) /\ Len(b) = (IF i <= n THEN n - i + 1 ELSE 0)
        /\ \A j \in 1 .. Len(b) : b[j] = rs[i + j - 1] /\ i + j - 1 \in i .. n
    BY <1>1, <2>1, PartIs DEF i
  <2>3. /\ d \in Seq(X) /\ Len(d) = (IF i <= Len(ts) THEN Len(ts) - i + 1 ELSE 0)
        /\ \A j \in 1 .. Len(d) : d[j] = ts[i + j - 1] /\ i + j - 1 \in i .. Len(ts)
    BY <1>6, <2>1, PartIs DEF i
  <2>4. \A j \in i .. n : ts[j] = rs[j]
    BY <1>1, <1>5 DEF i
  <2> HIDE DEF b, d
  <2>5. Len(b) = Len(d) /\ \A j \in 1 .. Len(b) : b[j] = d[j]
    BY <1>5, <2>2, <2>3, <2>4
  <2>6. QED
    BY <2>2, <2>3, <2>5, SeqEqual
<1>10. InsertAt(ts, k + 1, e) = ((a \o <<g>>) \o <<e>>) \o b
  <2> DEFINE i == k + 1
             u == SubSeq(ts, 1, i - 1)
  <2>1. i - 1 = k
    BY <1>1
  <2>2. u = SubSeq(ts, 1, k)
    BY <2>1
  <2>3. InsertAt(ts, i, e) = (u \o <<e>>) \o SubSeq(ts, i, Len(ts))
    <3> HIDE DEF i
    <3>1. QED
      BY DEF InsertAt
  <2> HIDE DEF u, c
  <2>4. ts[k] = g
    BY <1>1, <1>5
  <2>5. QED
    BY <1>6, <1>8, <1>9, <2>2, <2>3, <2>4
<1> HIDE DEF a, b, c, d
<1>11. ts = (a \o <<g>>) \o b
  BY <1>7, <1>8, <1>9
<1>12. QED
  BY <1>2, <1>3, <1>4, <1>10, <1>11 DEF a, b, ts, n

(* hostrange_delete_host and its callers leave what is below the number    *)
(* and what is above, between the other ranges.                            *)
LEMMA DeleteHostList ==
  ASSUME NEW l \in HostLists, NEW k \in 1 .. Len(l.hr), NEW num \in l.hr[k].lo .. l.hr[k].hi
  PROVE  delete_host(l, k, num).hr =
           ((SubSeq(l.hr, 1, k - 1) \o Below(l.hr[k], num)) \o Above(l.hr[k], num))
             \o SubSeq(l.hr, k + 1, Len(l.hr))
<1> DEFINE rs == l.hr
           h == rs[k]
           rest == IF num = h.lo THEN [h EXCEPT !.lo = @ + 1]
                   ELSE IF num = h.hi THEN [h EXCEPT !.hi = @ - 1] ELSE [h EXCEPT !.hi = num - 1]
           d == delete_host(l, k, num)
           a == SubSeq(rs, 1, k - 1)
           b == SubSeq(rs, k + 1, Len(rs))
           low == Below(h, num)
           up == Above(h, num)
<1>0. rs \in Lists /\ l \in [hr : Lists, nhosts : Int, ilist : [Iter -> Iterator]]
  BY DEF HostLists
<1>1. h \in HostRange
  BY <1>0, ListIs
<1>2. d = IF h.single \/ empty(rest) THEN delete_range(l, k)
          ELSE IF num \in {h.lo, h.hi} THEN [l EXCEPT !.hr[k] = rest]
          ELSE insert_range([l EXCEPT !.hr[k] = rest], [h EXCEPT !.lo = num + 1], k + 1)
  BY DEF delete_host
<1>3. /\ h.lo \in Nat /\ h.hi \in Nat /\ h.lo <= h.hi /\ h.single \in BOOLEAN
      /\ h.single => h.lo = 0 /\ h.hi = 0
      /\ num \in h.lo .. h.hi /\ num \in Nat
  BY <1>1, RangeIs
<1>4. ASSUME NEW g \in HostRange, NEW e
      PROVE  /\ a \in Lists /\ b \in Lists /\ RemoveAt(rs, k) = a \o b
             /\ [rs EXCEPT ![k] = g] = (a \o <<g>>) \o b
             /\ InsertAt([rs EXCEPT ![k] = g], k + 1, e) = ((a \o <<g>>) \o <<e>>) \o b
  <2>1. rs \in Lists /\ k \in 1 .. Len(rs)
    BY <1>0
  <2> HIDE DEF rs
  <2>2. QED
    BY <2>1, RangesAround, ZenonT(60)
<1>5. ASSUME NEW s \in Lists PROVE s \o <<>> = s
  BY DEF Lists
<1> DEFINE result == ((a \o low) \o up) \o b
<1>6. CASE h.lo = h.hi
  <2>1. num = h.lo /\ num = h.hi
    BY <1>3, <1>6
  <2>2. low = <<>> /\ up = <<>>
    BY <2>1 DEF Below, Above
  <2>3. empty(rest)
    <3>1. rest = [h EXCEPT !.lo = h.lo + 1]
      BY <2>1
    <3>2. rest = Bounded(h, h.lo + 1, h.hi)
      BY <1>1, <3>1, OtherEnd
    <3> HIDE DEF rest
    <3>3. QED
      BY <1>3, <1>6, <3>2 DEF empty, Bounded
  <2>4. d = delete_range(l, k)
    BY <1>2, <2>3
  <2> HIDE DEF d, a, b, low, up, h, rest
  <2>5. d.hr = RemoveAt(rs, k)
    BY <2>4, DeleteRange
  <2>6. a \in Lists /\ RemoveAt(rs, k) = a \o b
    BY <1>1, <1>4
  <2>7. (a \o low) \o up = a
    BY <1>5, <2>2, <2>6
  <2>8. QED
    BY <2>5, <2>6, <2>7 DEF d, a, b, low, up, h
<1>7. CASE h.lo # h.hi
  <2>1. ~h.single /\ h.lo < h.hi
    BY <1>3, <1>7
  <2>2. CASE num = h.lo
    <3> DEFINE g == Bounded(h, h.lo + 1, h.hi)
    <3>1. h.lo + 1 \in Nat /\ h.lo + 1 <= h.hi
      BY <1>3, <2>1
    <3>2. g \in HostRange /\ ~empty(g)
      BY <1>1, <1>3, <2>1, <3>1, BoundedIs
    <3>3. rest = g
      <4>1. rest = [h EXCEPT !.lo = h.lo + 1]
        BY <2>2
      <4>2. QED
        BY <1>1, <4>1, OtherEnd
    <3>4. low = <<>> /\ up = <<g>>
      BY <1>7, <2>2 DEF Below, Above
    <3> HIDE DEF g, rest
    <3>5. d = [l EXCEPT !.hr[k] = g]
      BY <1>2, <2>1, <2>2, <3>2, <3>3
    <3> HIDE DEF d, a, b, low, up, h
    <3>6. d.hr = [rs EXCEPT ![k] = g]
      BY <3>2, <3>5, WithRange
    <3>7. a \in Lists /\ [rs EXCEPT ![k] = g] = (a \o <<g>>) \o b
      BY <1>4, <3>2
    <3>8. a \o <<>> = a
      BY <1>5, <3>7
    <3>9. d.hr = result
      BY <3>4, <3>6, <3>7, <3>8
    <3>10. QED
      BY <3>9 DEF d, a, b, low, up, h
  <2>3. CASE num # h.lo /\ num = h.hi
    <3> DEFINE g == Bounded(h, h.lo, num - 1)
    <3>1. num - 1 \in Nat /\ h.lo <= num - 1
      BY <1>3, <2>1, <2>3
    <3>2. g \in HostRange /\ ~empty(g)
      BY <1>1, <1>3, <2>1, <3>1, BoundedIs
    <3>3. rest = g
      <4>1. rest = [h EXCEPT !.hi = num - 1]
        BY <2>3
      <4>2. QED
        BY <1>1, <4>1, OtherEnd
    <3>4. low = <<g>> /\ up = <<>>
      BY <2>3 DEF Below, Above
    <3> HIDE DEF g, rest
    <3>5. d = [l EXCEPT !.hr[k] = g]
      BY <1>2, <2>1, <2>3, <3>2, <3>3
    <3> HIDE DEF d, a, b, low, up, h
    <3>6. d.hr = [rs EXCEPT ![k] = g]
      BY <3>2, <3>5, WithRange
    <3>7. a \in Lists /\ [rs EXCEPT ![k] = g] = (a \o <<g>>) \o b
      BY <1>4, <3>2
    <3>8. (a \o <<g>>) \o <<>> = a \o <<g>>
      <4>1. <<g>> \in Lists
        BY <3>2, OneSize
      <4>2. a \o <<g>> \in Lists
        BY <3>7, <4>1, JoinedSize
      <4>3. QED
        BY <1>5, <4>2
    <3>9. d.hr = result
      BY <3>4, <3>6, <3>7, <3>8
    <3>10. QED
      BY <3>9 DEF d, a, b, low, up, h
  <2>4. CASE num # h.lo /\ num # h.hi
    <3> DEFINE g == Bounded(h, h.lo, num - 1)
               e == Bounded(h, num + 1, h.hi)
               m == [l EXCEPT !.hr[k] = g]
    <3>1. num - 1 \in Nat /\ h.lo <= num - 1
      BY <1>3, <2>4
    <3>2. g \in HostRange /\ ~empty(g)
      BY <1>1, <1>3, <2>1, <3>1, BoundedIs
    <3>3. rest = g
      <4>1. rest = [h EXCEPT !.hi = num - 1]
        BY <2>4
      <4>2. QED
        BY <1>1, <4>1, OtherEnd
    <3>4. [h EXCEPT !.lo = num + 1] = e
      BY <1>1, OtherEnd
    <3>5. low = <<g>> /\ up = <<e>>
      BY <2>4 DEF Below, Above
    <3> HIDE DEF g, e, rest
    <3>6. d = insert_range(m, e, k + 1)
      BY <1>2, <2>1, <2>4, <3>2, <3>3, <3>4
    <3> HIDE DEF d, a, b, low, up, h
    <3>7. m \in HostLists /\ m.hr = [rs EXCEPT ![k] = g]
      BY <3>2, WithRange
    <3> HIDE DEF m
    <3>8. d.hr = InsertAt(m.hr, k + 1, e)
      BY <3>6, <3>7 DEF insert_range, HostLists
    <3>9. InsertAt([rs EXCEPT ![k] = g], k + 1, e) = ((a \o <<g>>) \o <<e>>) \o b
      BY <1>4, <3>2
    <3>10. d.hr = result
      BY <3>5, <3>7, <3>8, <3>9
    <3>11. QED
      BY <3>10 DEF d, a, b, low, up, h
  <2>5. QED
    BY <2>2, <2>3, <2>4
<1>8. QED
  BY <1>6, <1>7

(* JoinAssociates for all sequences at once.                               *)
LEMMA AllAssociate ==
  ASSUME NEW X
  PROVE  \A r, s, w \in Seq(X) : r \o (s \o w) = (r \o s) \o w
  BY JoinAssociates

(* Where five sequences are put together does not matter.                  *)
Regrouped(r, s, v, w, z) ==
    /\ (r \o ((s \o v) \o w)) \o z = ((r \o s) \o v) \o (w \o z)
    /\ ((r \o s) \o w) \o z = (r \o s) \o (w \o z)
LEMMA FiveJoined ==
  ASSUME NEW X
  PROVE  \A r, s, v, w, z \in Seq(X) : Regrouped(r, s, v, w, z)
<1> DEFINE Y == Seq(X)
           C(a, b) == a \o b
<1>1. \A a, b \in Y : C(a, b) \in Y
  BY ConcatProperties
<1>2. \A a, b, c \in Y : C(a, C(b, c)) = C(C(a, b), c)
  BY AllAssociate
<1> HIDE DEF Y, C
<1>3. SUFFICES ASSUME NEW r \in Y, NEW s \in Y, NEW v \in Y, NEW w \in Y, NEW z \in Y
               PROVE  /\ C(C(r, C(C(s, v), w)), z) = C(C(C(r, s), v), C(w, z))
                      /\ C(C(C(r, s), w), z) = C(C(r, s), C(w, z))
  BY DEF Y, C, Regrouped
<1>4. C(s, v) \in Y /\ C(r, s) \in Y /\ C(C(r, s), v) \in Y
  BY <1>1
<1>5. C(r, C(C(s, v), w)) = C(C(r, C(s, v)), w) /\ C(r, C(s, v)) = C(C(r, s), v)
  BY <1>2, <1>4
<1>6. C(C(C(r, s), v), C(w, z)) = C(C(C(C(r, s), v), w), z)
  BY <1>2, <1>4
<1>7. C(C(r, s), C(w, z)) = C(C(C(r, s), w), z)
  BY <1>2, <1>4
<1>8. QED
  BY <1>5, <1>6, <1>7

(* hostrange_delete_host and what its callers do then: the name with that  *)
(* number in that range goes, and no other.                                *)
LEMMA DeleteHostNames ==
  ASSUME NEW l \in HostLists, NEW k \in 1 .. Len(l.hr), NEW num \in l.hr[k].lo .. l.hr[k].hi
  PROVE  NamesOf(delete_host(l, k, num).hr)
           = RemoveAt(NamesOf(l.hr), CountBefore(l.hr, k) + (num - l.hr[k].lo) + 1)
<1> DEFINE X == Seq(Int)
           rs == l.hr
           h == rs[k]
           A == SubSeq(rs, 1, k - 1)
           B == SubSeq(rs, k + 1, Len(rs))
           L == Below(h, num)
           U == Above(h, num)
           x == Host(h, num - h.lo)
           D == delete_host(l, k, num).hr
<1>1. rs \in Lists /\ Len(rs) \in Nat
  BY ListIs DEF HostLists
<1>2. h \in HostRange /\ h.lo \in Nat /\ h.hi \in Nat /\ num \in Nat
  <2>1. h \in HostRange
    BY <1>1, ListIs
  <2>2. QED
    BY <2>1, RangeIs
<1>3. /\ L \in Lists /\ U \in Lists /\ Size(L) = num - h.lo /\ x \in X
      /\ Hosts(h) = (NamesOf(L) \o <<x>>) \o NamesOf(U)
  BY <1>2, BesidesIs
<1>4. A \in Lists /\ B \in Lists /\ SubSeq(rs, 1, k) = A \o <<h>>
  BY <1>1, OneRangeMore
<1>5. Size(A) = CountBefore(rs, k) /\ CountBefore(rs, k) \in Nat
  <2>1. 1 \in 1 .. Len(rs) + 1 /\ k - 1 \in 1 - 1 .. Len(rs) /\ (k - 1) + 1 = k
        /\ k \in 1 .. Len(rs) + 1
    BY <1>1
  <2>2. Size(A) = CountBefore(rs, (k - 1) + 1) - CountBefore(rs, 1)
    BY <1>1, <2>1, PartSize
  <2>3. CountBefore(rs, 1) = 0 /\ CountBefore(rs, k) \in Nat
    BY <1>1, <2>1, Counts
  <2> HIDE DEF A
  <2>4. QED
    BY <2>1, <2>2, <2>3
<1>6. D = ((A \o L) \o U) \o B
  BY DeleteHostList
<1>7. rs = (A \o <<h>>) \o B
  <2>1. rs = SubSeq(rs, 1, k) \o SubSeq(rs, k + 1, Len(rs))
    <3>1. rs \in Seq(HostRange) /\ k \in 0 .. Len(rs)
      BY <1>1 DEF Lists
    <3> HIDE DEF rs
    <3>2. QED
      BY <3>1, TwoParts
  <2>2. QED
    BY <1>4, <2>1
<1> HIDE DEF rs, h, A, B, L, U, x, D
<1> DEFINE a == NamesOf(A)
           b == NamesOf(B)
           m == NamesOf(L)
           u == NamesOf(U)
           c == <<x>>
<1>8. a \in Seq(X) /\ b \in Seq(X) /\ m \in Seq(X) /\ u \in Seq(X) /\ c \in Seq(X)
  BY <1>3, <1>4, NamesAre
<1>9. NamesOf(rs) = (a \o ((m \o c) \o u)) \o b
  <2>1. <<h>> \in Lists /\ NamesOf(<<h>>) = Hosts(h)
    BY <1>2, OneSize, OneName
  <2>2. A \o <<h>> \in Lists /\ NamesOf(A \o <<h>>) = a \o Hosts(h)
    BY <1>4, <2>1, JoinedSize, NamesJoin, ZenonT(60)
  <2>3. NamesOf((A \o <<h>>) \o B) = NamesOf(A \o <<h>>) \o b
    BY <1>4, <2>2, NamesJoin
  <2>4. QED
    BY <1>3, <1>7, <2>2, <2>3
<1>10. NamesOf(D) = ((a \o m) \o u) \o b
  <2>1. A \o L \in Lists /\ NamesOf(A \o L) = a \o m
    BY <1>3, <1>4, JoinedSize, NamesJoin
  <2>2. (A \o L) \o U \in Lists /\ NamesOf((A \o L) \o U) = (a \o m) \o u
    BY <1>3, <2>1, JoinedSize, NamesJoin
  <2>3. NamesOf(((A \o L) \o U) \o B) = NamesOf((A \o L) \o U) \o b
    BY <1>4, <2>2, NamesJoin
  <2>4. QED
    BY <1>6, <2>2, <2>3
<1>11. Len(a) = Size(A) /\ Len(m) = Size(L)
  BY <1>3, <1>4, NamesAt
<1> HIDE DEF a, b, m, u, c, X
<1>12. /\ (a \o ((m \o c) \o u)) \o b = ((a \o m) \o c) \o (u \o b)
       /\ ((a \o m) \o u) \o b = (a \o m) \o (u \o b)
  <2>1. Regrouped(a, m, c, u, b)
    BY <1>8, FiveJoined
  <2>2. QED
    BY <2>1 DEF Regrouped
<1>13. a \o m \in Seq(X) /\ u \o b \in Seq(X) /\ Len(a \o m) = Len(a) + Len(m)
  BY <1>8, ConcatProperties
<1>14. RemoveAt(((a \o m) \o c) \o (u \o b), Len(a \o m) + 1) = (a \o m) \o (u \o b)
  <2> DEFINE p == a \o m
             q == u \o b
  <2>1. p \in Seq(X) /\ q \in Seq(X) /\ x \in X
    BY <1>3, <1>13 DEF X
  <2> HIDE DEF p, q
  <2>2. RemoveAt((p \o <<x>>) \o q, Len(p) + 1) = p \o q
    BY <2>1, TakenOut
  <2>3. QED
    BY <2>2 DEF p, q, c
<1>15. NamesOf(D) = RemoveAt(NamesOf(rs), Len(a \o m) + 1)
  BY <1>9, <1>10, <1>12, <1>14
<1>16. Len(a \o m) = CountBefore(rs, k) + (num - h.lo)
  BY <1>3, <1>5, <1>11, <1>13
<1>17. NamesOf(D) = RemoveAt(NamesOf(rs), CountBefore(rs, k) + (num - h.lo) + 1)
  BY <1>15, <1>16
<1>18. QED
  BY <1>17 DEF D, rs, h

(* hostlist_delete_nth, which hostlist_delete_host calls with what         *)
(* hostlist_find returned: the name at that place goes, and no other.      *)
LEMMA DeleteNthNames ==
  ASSUME NEW l \in HostLists, NEW n \in Nat, n < Size(l.hr)
  PROVE  NamesOf(delete_nth(l, n).hr) = RemoveAt(NamesOf(l.hr), n + 1)
<1> DEFINE rs == l.hr
           k == RangeOf(rs, n)
           h == rs[k]
           num == h.lo + n - CountBefore(rs, k)
           d == delete_host(l, k, num)
<1>1. rs \in Lists
  BY DEF HostLists
<1> HIDE DEF rs
<1>2. k \in 1 .. Len(rs) /\ n < CountBefore(rs, k + 1) /\ n >= CountBefore(rs, k)
  <2>1. n < Size(rs)
    BY DEF rs
  <2>2. QED
    BY <1>1, <2>1, RangeOfIs
<1>3. delete_nth(l, n) = [d EXCEPT !.nhosts = @ - 1]
  BY DEF delete_nth, rs
<1> HIDE DEF k
<1>4. /\ h \in HostRange /\ CountBefore(rs, k + 1) = CountBefore(rs, k) + count(h)
      /\ CountBefore(rs, k) \in Nat
  <2>1. k \in 1 .. Len(rs) + 1
    BY <1>1, <1>2, ListIs
  <2>2. QED
    BY <1>1, <1>2, <2>1, ListIs, Counts
<1> HIDE DEF h
<1>5. num \in h.lo .. h.hi /\ CountBefore(rs, k) + (num - h.lo) + 1 = n + 1
  <2>1. h.lo \in Nat /\ h.hi \in Nat /\ count(h) = h.hi - h.lo + 1
    BY <1>4, RangeIs
  <2>2. QED
    BY <1>2, <1>4, <2>1, SMTT(30)
<1> HIDE DEF num
<1>6. k \in 1 .. Len(l.hr) /\ num \in l.hr[k].lo .. l.hr[k].hi
  BY <1>2, <1>5 DEF h, rs
<1>7. d \in HostLists
  BY <1>6, DeleteHost
<1>8. NamesOf(d.hr) = RemoveAt(NamesOf(rs), CountBefore(rs, k) + (num - h.lo) + 1)
  BY <1>6, DeleteHostNames DEF rs, h
<1> HIDE DEF d
<1>9. delete_nth(l, n).hr = d.hr
  BY <1>3, <1>7 DEF HostLists
<1>10. QED
  BY <1>5, <1>8, <1>9 DEF rs

------------------------------------------------------------------------------
(* The list an action leaves.                                              *)
LEMMA ThenList ==
  ASSUME NEW l \in HostLists, NEW lost, Then(l, lost)
  PROVE  hl'.hr = l.hr
<1>1. PICK its : hl' = [l EXCEPT !.ilist = its]
  BY DEF Then
<1>2. QED
  BY <1>1 DEF HostLists

(* hostlist_push: the list it leaves,                                      *)
LEMMA PushedList ==
  ASSUME HlInv, NEW rs \in Lists, hostlist_push(rs)
  PROVE  \E m \in HostLists :
            /\ m.hr = push_ranges(hl.hr, rs) /\ m.ilist = hl.ilist
            /\ Then(m, {i \in Iter : place(i) > Size(hl.hr)} \cup Ranged)
<1> DEFINE new == push_ranges(hl.hr, rs)
           n == hl.nhosts + Size(rs)
           l == [hl EXCEPT !.hr = push_ranges(@, rs), !.nhosts = @ + Size(rs)]
           f == Refilled(hl, new, n)
           lost == {i \in Iter : place(i) > Size(hl.hr)} \cup Ranged
<1>1. hl \in HostLists
  BY ListHas
<1>2. new \in Lists
  BY ListHas, PushRanges
<1>3. n \in Int
  BY ListHas, SizeIs
<1>4. Then(l, lost)
  BY DEF hostlist_push
<1>5. l = f
  BY DEF Refilled
<1> HIDE DEF l, n, new, lost
<1>6. f \in HostLists /\ f.hr = new /\ f.ilist = hl.ilist
  BY <1>1, <1>2, <1>3, WithList
<1> HIDE DEF f
<1>7. QED
  BY <1>4, <1>5, <1>6 DEF new, lost

(* the names of the string, after those it had.                            *)
LEMMA PushNames ==
  ASSUME HlInv, NEW rs \in Lists, hostlist_push(rs)
  PROVE  names' = names \o NamesOf(rs)
<1> DEFINE new == push_ranges(hl.hr, rs)
           lost == {i \in Iter : place(i) > Size(hl.hr)} \cup Ranged
<1>1. hl.hr \in Lists
  BY ListHas
<1>2. PICK m \in HostLists : m.hr = new /\ Then(m, lost)
  BY PushedList
<1> HIDE DEF lost, new
<1>5. hl'.hr = new
  BY <1>2, ThenList
<1>6. NamesOf(new) = NamesOf(hl.hr) \o NamesOf(rs)
  BY <1>1, PushIs DEF new
<1>7. QED
  BY <1>5, <1>6 DEF names

(* hostlist_delete_nth: the name at that place goes, and no other; if that *)
(* is the place behind the last, none.                                     *)
LEMMA NthNames ==
  ASSUME HlInv, NEW n \in Nat, hostlist_delete_nth(n)
  PROVE  names' = IF n < Len(names) THEN RemoveAt(names, n + 1) ELSE names
<1>1. hl \in HostLists /\ hl.hr \in Lists /\ hl.nhosts \in Int
  BY ListHas
<1>2. Len(names) = Size(hl.hr)
  BY <1>1, NamesAt DEF names
<1>3. CASE n < Size(hl.hr)
  <2> DEFINE l == delete_nth(hl, n)
  <2>1. Then(l, Iter)
    BY <1>3 DEF hostlist_delete_nth
  <2>2. l \in HostLists
    BY <1>1, <1>3, DeleteNth
  <2>3. NamesOf(l.hr) = RemoveAt(NamesOf(hl.hr), n + 1)
    BY <1>1, <1>3, DeleteNthNames
  <2> HIDE DEF l
  <2>4. hl'.hr = l.hr
    BY <2>1, <2>2, ThenList
  <2>5. QED
    BY <1>2, <1>3, <2>3, <2>4 DEF names
<1>4. CASE ~(n < Size(hl.hr))
  <2> DEFINE c == hl.nhosts - 1
  <2>1. hl' = [hl EXCEPT !.nhosts = c] /\ c \in Int
    BY <1>1, <1>4 DEF hostlist_delete_nth
  <2> HIDE DEF c
  <2>2. hl'.hr = hl.hr
    BY <1>1, <2>1, WithCount
  <2>3. QED
    BY <1>2, <1>4, <2>2 DEF names
<1>5. QED
  BY <1>3, <1>4

(* hostlist_remove: the name the iterator returned last goes, and no other.*)
LEMMA RemoveNames ==
  ASSUME HlInv, NEW i \in Iter, hostlist_remove(i)
  PROVE  names' = RemoveAt(names, place(i))
<1> DEFINE it == hl.ilist[i]
           k == it.idx
           h == hl.hr[k]
           d == delete_host(hl, k, h.lo + it.depth)
           l == [d EXCEPT !.nhosts = @ - 1]
           split == Len(l.hr) > Len(hl.hr)
           gone == Len(l.hr) < Len(hl.hr)
           new == IF split THEN [At(l.hr, it, k + 1) EXCEPT !.depth = -1]
                  ELSE IF gone THEN l.ilist[i] ELSE [it EXCEPT !.depth = @ - 1]
           again == gone /\ k > 1 /\ count(hl.hr[k - 1]) > 1
           m == [l EXCEPT !.ilist[i] = new]
           lost == IF again THEN Iter ELSE Iter \ {i}
<1>1. track[i] = "name" /\ ~AtEnd(it) /\ it.depth \in 0 .. count(h) - 1 /\ Then(m, lost)
  BY DEF hostlist_remove
<1>1a. track[i] = "name" /\ ~(k > Len(hl.hr)) /\ it.depth \in 0 .. count(h) - 1
  <2>1. track[i] = "name" /\ ~AtEnd(it) /\ it.depth \in 0 .. count(h) - 1
    <3> HIDE DEF m, lost
    <3>1. QED
      BY <1>1
  <2>2. QED
    BY <2>1 DEF AtEnd
<1>2. /\ k \in Nat \ {0} /\ it.depth \in Int /\ hl.hr \in Lists /\ Len(hl.hr) \in Nat \ {0}
      /\ hl \in HostLists
  BY <1>1a, InPlaceIs, ListHas
<1>3. k \in 1 .. Len(hl.hr) /\ h \in HostRange
  <2> DEFINE n == Len(hl.hr)
  <2>1. ~(k > n)
    BY <1>1a
  <2>2. k \in Nat \ {0} /\ n \in Nat
    BY <1>2
  <2>3. k \in 1 .. n
    <3> HIDE DEF k, n
    <3>1. QED
      BY <2>1, <2>2
  <2>4. QED
    BY <1>2, <2>3, ListIs
<1> DEFINE num == h.lo + it.depth
<1>4. num \in hl.hr[k].lo .. hl.hr[k].hi /\ num - h.lo = it.depth
  <2> DEFINE c == it.depth
  <2>1. h.lo \in Nat /\ h.hi \in Nat /\ count(h) = h.hi - h.lo + 1
    BY <1>3, RangeIs
  <2>2. c \in Int /\ c \in 0 .. count(h) - 1
    BY <1>1a, <1>2
  <2>3. h.lo + c \in h.lo .. h.hi /\ (h.lo + c) - h.lo = c
    <3> HIDE DEF c, h
    <3>1. QED
      BY <2>1, <2>2
  <2>4. QED
    BY <2>3
<1>5. d \in HostLists /\ NamesOf(d.hr) = RemoveAt(names, CountBefore(hl.hr, k) + (num - h.lo) + 1)
  <2>1. k \in 1 .. Len(hl.hr) /\ num \in hl.hr[k].lo .. hl.hr[k].hi
    BY <1>3, <1>4
  <2> HIDE DEF k, num
  <2>2. /\ delete_host(hl, k, num) \in HostLists
        /\ NamesOf(delete_host(hl, k, num).hr)
             = RemoveAt(NamesOf(hl.hr), CountBefore(hl.hr, k) + (num - hl.hr[k].lo) + 1)
    BY <1>2, <2>1, DeleteHost, DeleteHostNames
  <2>3. QED
    BY <2>2 DEF num, k, names
<1> HIDE DEF d
<1>6. place(i) = CountBefore(hl.hr, k) + (num - h.lo) + 1
  BY <1>4 DEF place
<1> HIDE DEF num, split, gone, new, again, lost
<1>7. m.hr = d.hr /\ hl'.hr = m.hr
  <2>1. d \in [hr : Lists, nhosts : Int, ilist : [Iter -> Iterator]]
    BY <1>5 DEF HostLists
  <2>2. l.hr = d.hr
    BY <2>1
  <2>3. m.hr = l.hr
    BY <2>1
  <2> HIDE DEF l
  <2>4. PICK its : hl' = [m EXCEPT !.ilist = its]
    <3> HIDE DEF m
    <3>1. QED
      BY <1>1 DEF Then
  <2>5. hl'.hr = m.hr
    BY <2>1, <2>4 DEF l
  <2>6. QED
    BY <2>2, <2>3, <2>5
<1> HIDE DEF m
<1>8. QED
  BY <1>5, <1>6, <1>7, SMTT(30) DEF names

(* The last of a sequence.                                                 *)
LEMMA LastIs ==
  ASSUME NEW X, NEW s \in Seq(X), NEW x \in X
  PROVE  Last(s \o <<x>>) = x
<1> DEFINE t == s \o <<x>>
<1>1. Len(s) \in Nat /\ <<x>> \in Seq(X) /\ Len(<<x>>) = 1 /\ <<x>>[1] = x
  OBVIOUS
<1>2. Len(t) = Len(s) + 1 /\ \A m \in 1 .. Len(<<x>>) : t[Len(s) + m] = <<x>>[m]
  BY <1>1, Joining
<1>3. t[Len(s) + 1] = x
  BY <1>1, <1>2
<1> HIDE DEF t
<1>4. Last(t) = t[Len(t)]
  BY DEF Last
<1>5. QED
  BY <1>2, <1>3, <1>4 DEF t

(* hostlist_pop: the name it returns was the last.                         *)
LEMMA PopNames ==
  ASSUME HlInv, hostlist_pop
  PROVE  names = names' \o out' /\ Len(out') = 1
<1> DEFINE n == Len(hl.hr)
           h == hl.hr[n]
           rest == [Last(hl.hr) EXCEPT !.hi = @ - 1]
           l == [hl EXCEPT !.nhosts = @ - 1]
           m == IF rest.single \/ empty(rest) THEN cut(l, n - 1) ELSE [l EXCEPT !.hr[n] = rest]
           lost == {i \in Iter : place(i) >= Size(hl.hr) - 1} \cup Ranged
           front == SubSeq(hl.hr, 1, n - 1)
           low == Below(h, h.hi)
           x == Host(h, h.hi - h.lo)
           X == Seq(Int)
<1>1. hl \in HostLists /\ hl.hr \in Lists /\ hl.nhosts = Size(hl.hr) - short /\ hl.nhosts \in Int
      /\ short \in {0, 1} /\ Size(hl.hr) \in Nat /\ n \in Nat
  BY ListHas
<1>2. hl.nhosts > 0 /\ Then(m, lost) /\ out' = <<Last(Hosts(h))>>
  BY DEF hostlist_pop
<1>3. n # 0 /\ n \in 1 .. n /\ h \in HostRange
  <2>1. n # 0
    BY <1>1, <1>2, SizeIs, NotEmpty
  <2>2. QED
    BY <1>1, <2>1, ListIs
<1>4. l \in HostLists /\ l.hr = hl.hr
  <2>1. hl.nhosts - 1 \in Int
    BY <1>1
  <2>2. QED
    BY <1>1, <2>1, WithCount
<1>5. /\ h.lo \in Nat /\ h.hi \in Nat /\ h.lo <= h.hi /\ h.single \in BOOLEAN
      /\ (h.single => h.lo = 0 /\ h.hi = 0)
  BY <1>3, RangeIs
<1>6. rest = Bounded(h, h.lo, h.hi - 1)
  BY <1>3, OtherEnd DEF Last
<1>7. rest.single = h.single /\ rest.lo = h.lo /\ rest.hi = h.hi - 1
  <2> HIDE DEF rest, h
  <2>1. QED
    BY <1>6 DEF Bounded
<1>8. front \in Lists /\ hl.hr = front \o <<h>>
  BY <1>1, <1>3, LastChanged
<1>9. low \in Lists /\ x \in X /\ Hosts(h) = NamesOf(low) \o <<x>>
  <2>1. h.hi \in h.lo .. h.hi
    BY <1>5
  <2>2. /\ low \in Lists /\ x \in X
        /\ Hosts(h) = (NamesOf(low) \o <<x>>) \o NamesOf(Above(h, h.hi))
    BY <1>3, <2>1, BesidesIs
  <2>3. Above(h, h.hi) = <<>>
    BY DEF Above
  <2>4. NamesOf(low) \o <<x>> \in Seq(X)
    <3>1. NamesOf(low) \in Seq(X)
      BY <2>2, NamesAre
    <3> HIDE DEF low, x, X
    <3>2. QED
      BY <2>2, <3>1
  <2> HIDE DEF low, x, X
  <2>5. \A s \in Seq(X) : s \o <<>> = s
    OBVIOUS
  <2>6. QED
    BY <2>2, <2>3, <2>4, <2>5, NoNames
<1> HIDE DEF l, rest, h, x
<1>10. m \in HostLists /\ m.hr = front \o low
  <2>1. CASE rest.single \/ empty(rest)
    <3>1. h.lo = h.hi
      BY <1>5, <1>7, <2>1 DEF empty
    <3>2. low = <<>>
      BY <3>1 DEF Below
    <3>3. m = cut(l, n - 1) /\ n - 1 \in 0 .. Len(l.hr)
      BY <1>1, <1>3, <1>4, <2>1
    <3>4. m \in HostLists /\ m.hr = front
      <4> HIDE DEF m, n
      <4>1. m \in HostLists /\ m.hr = SubSeq(l.hr, 1, n - 1)
        BY <1>4, <3>3, CutIs
      <4>2. QED
        BY <1>4, <4>1 DEF n
    <3> HIDE DEF m, front, low
    <3>5. front \o <<>> = front
      BY <1>8 DEF Lists
    <3>6. QED
      BY <3>2, <3>4, <3>5
  <2>2. CASE ~(rest.single \/ empty(rest))
    <3>1. h.hi # h.lo /\ ~h.single /\ h.hi - 1 \in Nat /\ h.lo <= h.hi - 1
      BY <1>5, <1>7, <2>2 DEF empty
    <3>2. low = <<rest>>
      BY <1>6, <3>1 DEF Below
    <3>3. rest \in HostRange
      BY <1>3, <1>5, <1>6, <3>1, BoundedIs
    <3>4. n \in 1 .. Len(l.hr) /\ m = [l EXCEPT !.hr[n] = rest]
      BY <1>3, <1>4, <2>2
    <3>5. [hl.hr EXCEPT ![n] = rest] = front \o <<rest>>
      BY <1>1, <1>3, <3>3, LastChanged
    <3> HIDE DEF m, n, front, low
    <3>6. m \in HostLists /\ m.hr = [l.hr EXCEPT ![n] = rest]
      BY <1>4, <3>3, <3>4, WithRange
    <3>7. QED
      BY <1>4, <3>2, <3>5, <3>6
  <2>3. QED
    BY <2>1, <2>2
<1> HIDE DEF m, lost, front, low, n
<1>11. hl'.hr = front \o low
  BY <1>2, <1>10, ThenList
<1>12. NamesOf(front \o low) = NamesOf(front) \o NamesOf(low)
  BY <1>8, <1>9, NamesJoin
<1>13. names = NamesOf(front) \o (NamesOf(low) \o <<x>>)
  <2>1. <<h>> \in Lists /\ NamesOf(<<h>>) = Hosts(h)
    BY <1>3, OneSize, OneName
  <2>2. NamesOf(front \o <<h>>) = NamesOf(front) \o Hosts(h)
    BY <1>8, <2>1, NamesJoin
  <2>3. QED
    BY <1>8, <1>9, <2>2 DEF names
<1>14. out' = <<x>>
  <2>1. NamesOf(low) \in Seq(X)
    BY <1>9, NamesAre
  <2> DEFINE s == NamesOf(low)
  <2> HIDE DEF s, X
  <2>2. Last(s \o <<x>>) = x
    BY <1>9, <2>1, LastIs DEF s
  <2>3. QED
    BY <1>2, <1>9, <2>2 DEF s
<1>15. NamesOf(front) \o (NamesOf(low) \o <<x>>) = (NamesOf(front) \o NamesOf(low)) \o <<x>>
  <2> DEFINE a == NamesOf(front)
             b == NamesOf(low)
             c == <<x>>
  <2>1. a \in Seq(X) /\ b \in Seq(X) /\ c \in Seq(X)
    <3>1. a \in Seq(X) /\ b \in Seq(X)
      BY <1>8, <1>9, NamesAre
    <3> HIDE DEF X
    <3>2. c \in Seq(X)
      BY <1>9
    <3>3. QED
      BY <3>1, <3>2
  <2> HIDE DEF a, b, c, X
  <2>2. a \o (b \o c) = (a \o b) \o c
    BY <2>1, AllAssociate
  <2>3. QED
    BY <2>2 DEF a, b, c
<1>16. names' = NamesOf(front) \o NamesOf(low)
  BY <1>11, <1>12 DEF names
<1>17. Len(<<x>>) = 1
  OBVIOUS
<1>18. QED
  BY <1>13, <1>14, <1>15, <1>16, <1>17

(* hostlist_shift: the name it returns was the first.                      *)
LEMMA ShiftNames ==
  ASSUME HlInv, hostlist_shift
  PROVE  names = out' \o names' /\ Len(out') = 1
<1> DEFINE n == Len(hl.hr)
           h == hl.hr[1]
           rest == [hl.hr[1] EXCEPT !.lo = @ + 1]
           l == [hl EXCEPT !.nhosts = @ - 1]
           back(it) == IF it.idx = 1 /\ it.depth >= 0 THEN [it EXCEPT !.depth = @ - 1] ELSE it
           m == IF rest.single \/ empty(rest) THEN delete_range(l, 1)
                ELSE [l EXCEPT !.hr[1] = rest, !.ilist = [i \in Iter |-> back(@[i])]]
           b == SubSeq(hl.hr, 2, n)
           up == Above(h, h.lo)
           x == Host(h, 0)
           X == Seq(Int)
<1>1. hl \in HostLists /\ hl.hr \in Lists /\ hl.nhosts = Size(hl.hr) - short /\ hl.nhosts \in Int
      /\ short \in {0, 1} /\ Size(hl.hr) \in Nat /\ n \in Nat
  BY ListHas
<1>2. hl.nhosts > 0 /\ Then(m, Ranged) /\ out' = <<x>>
  BY DEF hostlist_shift
<1>3. n # 0 /\ 1 \in 1 .. n /\ h \in HostRange
  <2>1. n # 0
    BY <1>1, <1>2, SizeIs, NotEmpty
  <2>2. QED
    BY <1>1, <2>1, ListIs
<1>4. l \in HostLists /\ l.hr = hl.hr
  <2>1. hl.nhosts - 1 \in Int
    BY <1>1
  <2>2. QED
    BY <1>1, <2>1, WithCount
<1>5. /\ h.lo \in Nat /\ h.hi \in Nat /\ h.lo <= h.hi /\ h.single \in BOOLEAN
      /\ (h.single => h.lo = 0 /\ h.hi = 0)
  BY <1>3, RangeIs
<1>6. rest = Bounded(h, h.lo + 1, h.hi)
  BY <1>3, OtherEnd
<1>7. rest.single = h.single /\ rest.lo = h.lo + 1 /\ rest.hi = h.hi
  <2> HIDE DEF rest, h
  <2>1. QED
    BY <1>6 DEF Bounded
<1>8. /\ b \in Lists /\ hl.hr = <<h>> \o b /\ RemoveAt(hl.hr, 1) = b
      /\ \A g \in HostRange : [hl.hr EXCEPT ![1] = g] = <<g>> \o b
  <2> DEFINE rs == hl.hr
             a == SubSeq(rs, 1, 1 - 1)
             c == SubSeq(rs, 1 + 1, Len(rs))
  <2>1. a = <<>> /\ c = b
    <3>1. SubSeq(rs, 1, 0) = <<>>
      BY NothingOf
    <3>2. 1 - 1 = 0 /\ 1 + 1 = 2
      OBVIOUS
    <3>3. QED
      BY <3>1, <3>2
  <2>2. ASSUME NEW g \in HostRange
        PROVE  /\ c \in Lists /\ rs = (a \o <<rs[1]>>) \o c /\ RemoveAt(rs, 1) = a \o c
               /\ [rs EXCEPT ![1] = g] = (a \o <<g>>) \o c
    <3>1. rs \in Lists /\ 1 \in 1 .. Len(rs)
      BY <1>1, <1>3
    <3> HIDE DEF rs
    <3>2. QED
      BY <3>1, RangesAround, ZenonT(30)
  <2>3. ASSUME NEW g \in HostRange PROVE <<>> \o <<g>> = <<g>>
    OBVIOUS
  <2> HIDE DEF a, c, b, h
  <2>4. c \in Lists /\ rs = (a \o <<h>>) \o c /\ RemoveAt(rs, 1) = a \o c
    BY <1>3, <2>2 DEF h
  <2>5. <<>> \o c = c
    BY <2>4 DEF Lists
  <2>6. \A g \in HostRange : [rs EXCEPT ![1] = g] = <<g>> \o c
    BY <2>1, <2>2, <2>3, SMTT(30)
  <2>7. QED
    BY <1>3, <2>1, <2>3, <2>4, <2>5, <2>6
<1>9. up \in Lists /\ x \in X /\ Hosts(h) = <<x>> \o NamesOf(up)
  <2>1. h.lo \in h.lo .. h.hi /\ h.lo - h.lo = 0
    BY <1>5
  <2>2. /\ up \in Lists /\ Host(h, h.lo - h.lo) \in X
        /\ Hosts(h) = (NamesOf(Below(h, h.lo)) \o <<Host(h, h.lo - h.lo)>>) \o NamesOf(up)
    BY <1>3, <2>1, BesidesIs
  <2>3. Below(h, h.lo) = <<>>
    BY DEF Below
  <2>4. x \in X /\ Hosts(h) = (NamesOf(<<>>) \o <<x>>) \o NamesOf(up)
    BY <2>1, <2>2, <2>3
  <2> HIDE DEF x, X
  <2>5. <<>> \o <<x>> = <<x>>
    OBVIOUS
  <2>6. QED
    BY <2>2, <2>4, <2>5, NoNames
<1> HIDE DEF l, rest, h, x
<1>10. hl'.hr = up \o b
  <2>1. CASE rest.single \/ empty(rest)
    <3>1. h.lo = h.hi
      BY <1>5, <1>7, <2>1 DEF empty
    <3>2. up = <<>>
      BY <3>1 DEF Above
    <3>3. m = delete_range(l, 1) /\ 1 \in 1 .. Len(l.hr)
      BY <1>3, <1>4, <2>1
    <3> HIDE DEF m, b, up
    <3>4. m \in HostLists /\ m.hr = b
      BY <1>4, <1>8, <3>3, DeleteRange
    <3>5. <<>> \o b = b
      BY <1>8 DEF Lists
    <3>6. hl'.hr = m.hr
      BY <1>2, <3>4, ThenList
    <3>7. QED
      BY <3>2, <3>4, <3>5, <3>6
  <2>2. CASE ~(rest.single \/ empty(rest))
    <3>1. h.hi # h.lo /\ ~h.single /\ h.lo + 1 \in Nat /\ h.lo + 1 <= h.hi
      BY <1>5, <1>7, <2>2 DEF empty
    <3>2. up = <<rest>>
      BY <1>6, <3>1 DEF Above
    <3>3. rest \in HostRange
      BY <1>3, <1>5, <1>6, <3>1, BoundedIs
    <3> DEFINE k == [l EXCEPT !.hr[1] = rest]
               its == [i \in Iter |-> back(l.ilist[i])]
    <3>4. k \in HostLists /\ k.hr = [l.hr EXCEPT ![1] = rest]
      <4>1. 1 \in 1 .. Len(l.hr)
        BY <1>3, <1>4
      <4> HIDE DEF k
      <4>2. QED
        BY <1>4, <3>3, <4>1, WithRange DEF k
    <3>5. m = [k EXCEPT !.ilist = its]
      BY <2>2
    <3> HIDE DEF m, its, k, back
    <3>6. m.hr = k.hr
      BY <3>4, <3>5 DEF HostLists
    <3>7. PICK jts : hl' = [m EXCEPT !.ilist = jts]
      BY <1>2 DEF Then
    <3>8. m = [hr |-> k.hr, nhosts |-> k.nhosts, ilist |-> its]
      BY <3>4, <3>5 DEF HostLists
    <3>9. hl'.hr = m.hr
      BY <3>7, <3>8
    <3>10. QED
      BY <1>4, <1>8, <3>2, <3>3, <3>4, <3>6, <3>9
  <2>3. QED
    BY <2>1, <2>2
<1> HIDE DEF m, up, b, n
<1>11. names' = NamesOf(up) \o NamesOf(b)
  BY <1>8, <1>9, <1>10, NamesJoin DEF names
<1>12. names = (<<x>> \o NamesOf(up)) \o NamesOf(b)
  <2>1. <<h>> \in Lists /\ NamesOf(<<h>>) = Hosts(h)
    BY <1>3, OneSize, OneName
  <2>2. NamesOf(<<h>> \o b) = Hosts(h) \o NamesOf(b)
    BY <1>8, <2>1, NamesJoin
  <2>3. QED
    BY <1>8, <1>9, <2>2 DEF names
<1>13. (<<x>> \o NamesOf(up)) \o NamesOf(b) = <<x>> \o (NamesOf(up) \o NamesOf(b))
  <2> DEFINE a == <<x>>
             d == NamesOf(up)
             c == NamesOf(b)
  <2>1. a \in Seq(X) /\ d \in Seq(X) /\ c \in Seq(X)
    <3>1. d \in Seq(X) /\ c \in Seq(X)
      BY <1>8, <1>9, NamesAre
    <3> HIDE DEF X
    <3>2. a \in Seq(X)
      BY <1>9
    <3>3. QED
      BY <3>1, <3>2
  <2> HIDE DEF a, d, c, X
  <2>2. a \o (d \o c) = (a \o d) \o c
    BY <2>1, AllAssociate
  <2>3. QED
    BY <2>2 DEF a, d, c
<1>14. Len(<<x>>) = 1
  OBVIOUS
<1>15. QED
  BY <1>2, <1>11, <1>12, <1>13, <1>14

(* What hostlist_pop_range and hostlist_shift_range take, and leave.       *)
LEMMA TakenNames ==
  ASSUME HlInv, NEW rs \in Lists, NEW ranges \in Lists, Size(ranges) # 0,
         Taken(rs, ranges)
  PROVE  names' = NamesOf(rs) /\ out' = NamesOf(ranges) /\ out' # <<>>
<1> DEFINE m == [hl EXCEPT !.hr = rs, !.nhosts = @ - Size(ranges)]
<1>1. Then(m, Iter) /\ out' = NamesOf(ranges)
  BY DEF Taken
<1>2. hl \in [hr : Lists, nhosts : Int, ilist : [Iter -> Iterator]]
  BY ListHas DEF HostLists
<1>3. m.hr = rs /\ m \in HostLists
  <2> DEFINE k == hl.nhosts - Size(ranges)
  <2>1. k \in Int
    BY <1>2, SizeIs
  <2>2. m = [hl EXCEPT !.hr = rs, !.nhosts = k]
    OBVIOUS
  <2> HIDE DEF k, m
  <2>3. m = [hr |-> rs, nhosts |-> k, ilist |-> hl.ilist]
    BY <1>2, <2>2
  <2>4. QED
    BY <1>2, <2>1, <2>3 DEF HostLists
<1> HIDE DEF m
<1>4. hl'.hr = rs
  BY <1>1, <1>3, ThenList
<1>5. Len(NamesOf(ranges)) # 0
  BY NamesAt
<1>6. NamesOf(ranges) # <<>>
  <2> DEFINE s == NamesOf(ranges)
  <2> HIDE DEF s
  <2>1. s = <<>> => Len(s) = 0
    OBVIOUS
  <2>2. QED
    BY <1>5, <2>1 DEF s
<1>7. QED
  BY <1>1, <1>4, <1>6 DEF names

(* hostlist_pop_range returns the last names, and hostlist_shift_range the *)
(* first.                                                                  *)
LEMMA PopRangeNames ==
  ASSUME HlInv, hostlist_pop_range, ~broken'
  PROVE  names = names' \o out' /\ out' # <<>>
<1> DEFINE n == Len(hl.hr)
           S == {j \in 1 .. n : \A m \in j .. n - 1 : within_range(hl.hr[n], hl.hr[m])}
           k == Min(S)
<1>1. hl.hr \in Lists /\ n \in Nat /\ hl.hr # <<>>
      /\ Taken(SubSeq(hl.hr, 1, k - 1) \o Left(SubSeq(hl.hr, k, n)), SubSeq(hl.hr, k, n))
  BY ListHas DEF hostlist_pop_range
<1>2. n # 0 /\ n \in S /\ S \in SUBSET (1 .. n) /\ 1 \in Int /\ n \in Int
  <2>1. n # 0
    BY <1>1, NotEmpty
  <2>2. n \in 1 .. n /\ n .. n - 1 = {}
    BY <1>1, <2>1
  <2>3. QED
    BY <1>1, <2>1, <2>2
<1>3. k \in S
  <2> HIDE DEF S
  <2>1. QED
    BY <1>2, MinIs
<1>4. k \in 1 .. n
  BY <1>2, <1>3
<1> HIDE DEF S, k
<1> DEFINE a == SubSeq(hl.hr, 1, k - 1)
           b == SubSeq(hl.hr, k, n)
<1>5. a \in Lists /\ b \in Lists /\ Size(b) # 0 /\ hl.hr = a \o b
  <2>1. k - 1 \in 0 .. Len(hl.hr) /\ (k - 1) + 1 = k
    BY <1>1, <1>4
  <2>2. hl.hr = SubSeq(hl.hr, 1, k - 1) \o SubSeq(hl.hr, (k - 1) + 1, Len(hl.hr))
    <3>1. hl.hr \in Seq(HostRange)
      BY <1>1 DEF Lists
    <3>2. QED
      BY <2>1, <3>1, TwoParts
  <2>3. a \in Lists /\ b \in Lists
    BY <1>1, <2>1, HalvesSize
  <2>4. Len(b) # 0
    <3>1. k \in 1 .. Len(hl.hr) + 1 /\ n \in k - 1 .. Len(hl.hr)
      BY <1>1, <1>4
    <3>2. Len(b) = n - k + 1
      BY <1>1, <3>1, PartSize
    <3> HIDE DEF b, n
    <3>3. QED
      BY <1>1, <1>4, <3>2
  <2>5. Size(b) # 0
    <3> HIDE DEF b
    <3>1. QED
      BY <2>3, <2>4, NotEmpty, SizeIs
  <2>6. QED
    BY <2>1, <2>2, <2>3, <2>5
<1>6. Taken(a, b)
  <2>1. Taken(a \o Left(b), b)
    BY <1>1
  <2>2. a \o Left(b) = a
    BY <1>5, <2>1, LeftIs DEF Lists
  <2>3. QED
    BY <2>1, <2>2
<1> HIDE DEF a, b, n
<1>7. names' = NamesOf(a) /\ out' = NamesOf(b) /\ out' # <<>>
  BY <1>5, <1>6, TakenNames
<1>8. NamesOf(a \o b) = NamesOf(a) \o NamesOf(b)
  BY <1>5, NamesJoin
<1>9. QED
  BY <1>5, <1>7, <1>8 DEF names

(* See PopRangeNames.                                                      *)
LEMMA ShiftRangeNames ==
  ASSUME HlInv, hostlist_shift_range, ~broken'
  PROVE  names = out' \o names' /\ out' # <<>>
<1> DEFINE n == Len(hl.hr)
           k == GroupEnd(hl.hr, 1)
           a == SubSeq(hl.hr, 1, k)
           b == SubSeq(hl.hr, k + 1, n)
<1>1. hl.hr \in Lists /\ n \in Nat /\ hl.hr # <<>> /\ Taken(Left(a) \o b, a)
  BY ListHas DEF hostlist_shift_range
<1>2. k \in 1 .. Len(hl.hr) /\ k \in 0 .. Len(hl.hr)
  <2>1. n # 0
    BY <1>1, NotEmpty
  <2>2. 1 \in 1 .. Len(hl.hr)
    BY <1>1, <2>1
  <2>3. k \in 1 .. Len(hl.hr)
    BY <1>1, <2>2, GroupEndIs
  <2>4. QED
    BY <1>1, <2>3
<1> HIDE DEF k
<1>3. a \in Lists /\ b \in Lists /\ hl.hr = a \o b /\ Size(a) # 0
  <2>1. a \in Lists /\ b \in Lists
    BY <1>1, <1>2, HalvesSize
  <2>2. hl.hr = a \o b
    <3>1. hl.hr \in Seq(HostRange)
      BY <1>1 DEF Lists
    <3>2. QED
      BY <1>2, <3>1, TwoParts
  <2>3. Len(a) # 0
    <3>1. 1 \in 1 .. Len(hl.hr) + 1 /\ k \in 1 - 1 .. Len(hl.hr)
      BY <1>1, <1>2
    <3>2. Len(a) = k - 1 + 1
      BY <1>1, <3>1, PartSize
    <3> HIDE DEF a
    <3>3. QED
      BY <1>1, <1>2, <3>2
  <2> HIDE DEF a, b
  <2>4. Size(a) # 0
    BY <2>1, <2>3, NotEmpty, SizeIs
  <2>5. QED
    BY <2>1, <2>2, <2>4
<1>3a. Taken(b, a)
  <2>1. Left(a) \o b = b
    BY <1>1, <1>3, LeftIs DEF Lists
  <2>2. QED
    BY <1>1, <2>1
<1> HIDE DEF a, b, n
<1>4. names' = NamesOf(b) /\ out' = NamesOf(a) /\ out' # <<>>
  BY <1>3, <1>3a, TakenNames
<1>5. NamesOf(a \o b) = NamesOf(a) \o NamesOf(b)
  BY <1>3, NamesJoin
<1>6. QED
  BY <1>3, <1>4, <1>5 DEF names

(* What calls do to the names, for any strings, iterators and order of     *)
(* calls, hostlist_delete, sort and uniq apart: pushed names come last,    *)
(* popped and shifted ones were at that end, and of the others exactly     *)
(* the one at the place asked for goes.                                    *)
THEOREM HostlistNamesKept == Spec => NamesKept
<1>1. HlInv => NamesMove
  <2> SUFFICES ASSUME HlInv PROVE NamesMove
    OBVIOUS
  <2>1. \A rs \in Made : hostlist_push(rs) => names' = names \o NamesOf(rs)
    BY MadeAre, PushNames
  <2>2. hostlist_pop => names = names' \o out' /\ Len(out') = 1
    BY PopNames
  <2>3. hostlist_shift => names = out' \o names' /\ Len(out') = 1
    BY ShiftNames
  <2>4. hostlist_pop_range /\ ~broken' => names = names' \o out' /\ out' # <<>>
    BY PopRangeNames
  <2>5. hostlist_shift_range /\ ~broken' => names = out' \o names' /\ out' # <<>>
    BY ShiftRangeNames
  <2>6. \A n \in 0 .. MaxHosts : hostlist_delete_nth(n) =>
           names' = IF n < Len(names) THEN RemoveAt(names, n + 1) ELSE names
    <3>1. ASSUME NEW n \in 0 .. MaxHosts PROVE n \in Nat
      BY HostlistAssumption
    <3>2. QED
      BY <3>1, NthNames
  <2>7. \A i \in Iter : hostlist_remove(i) => names' = RemoveAt(names, place(i))
    BY RemoveNames
  <2>8. QED
    BY <2>1, <2>2, <2>3, <2>4, <2>5, <2>6, <2>7 DEF NamesMove
<1>2. (broken \/ HlInv) /\ [Next]_vars => [NamesMove]_vars
  BY <1>1 DEF Next
<1>3. NamesKept <=> [][NamesMove]_vars
  BY DEF NamesKept
<1>4. QED
  BY <1>2, <1>3, HostlistInductive, PTL DEF Spec

------------------------------------------------------------------------------
(* ts has the names of rs where they were in rs, and more behind those.    *)
Longer(rs, ts) ==
    /\ Len(rs) <= Len(ts)
    /\ \A k \in 1 .. Len(rs) : CountBefore(ts, k) = CountBefore(rs, k) /\ count(rs[k]) <= count(ts[k])

(* A list is that for itself; and so are two steps.                        *)
LEMMA LongerTwice ==
  ASSUME NEW rs \in Lists, NEW ts \in Lists, NEW us \in Lists, Longer(rs, ts), Longer(ts, us)
  PROVE  Longer(rs, us) /\ Longer(rs, rs)
<1>1. Len(rs) \in Nat /\ Len(ts) \in Nat /\ Len(us) \in Nat
  BY ListIs
<1>2. ASSUME NEW k \in 1 .. Len(rs)
      PROVE  CountBefore(us, k) = CountBefore(rs, k) /\ count(rs[k]) <= count(us[k])
             /\ count(rs[k]) <= count(rs[k])
  <2>1. k \in 1 .. Len(ts) /\ k \in 1 .. Len(us)
    BY <1>1 DEF Longer
  <2>2. count(rs[k]) \in Nat /\ count(ts[k]) \in Nat /\ count(us[k]) \in Nat
    BY <2>1, Counts
  <2>3. CountBefore(us, k) = CountBefore(rs, k)
    BY <2>1 DEF Longer
  <2>4. count(rs[k]) <= count(ts[k]) /\ count(ts[k]) <= count(us[k])
    BY <2>1 DEF Longer
  <2>5. QED
    BY <2>2, <2>3, <2>4
<1>3. Len(rs) <= Len(us) /\ Len(rs) <= Len(rs)
  BY <1>1 DEF Longer
<1>4. QED
  BY <1>2, <1>3 DEF Longer

(* Pushing a range leaves the others where they are.                       *)
LEMMA PushRangeLonger ==
  ASSUME NEW rs \in Lists, NEW h \in HostRange
  PROVE  Longer(rs, push_range(rs, h))
<1> DEFINE n == Len(rs)
           ts == push_range(rs, h)
<1>1. n \in Nat /\ \A k \in 1 .. n : rs[k] \in HostRange
  BY ListIs
<1>2. CASE rs # <<>> /\ Follows(Last(rs), h)
  <2> DEFINE g == rs[n]
             e == [g EXCEPT !.hi = h.hi]
  <2>1. n # 0 /\ n \in 1 .. n /\ g \in HostRange
    <3>1. n # 0
      BY <1>2, NotEmpty
    <3>2. QED
      BY <1>1, <3>1
  <2>2. Follows(g, h)
    BY <1>2 DEF Last
  <2>3. e \in HostRange /\ Hosts(e) = Hosts(g) \o Hosts(h)
    BY <2>1, <2>2, FollowsNames
  <2>4. count(e) >= count(g)
    <3>1. /\ g.lo \in Nat /\ g.hi \in Nat /\ h.lo \in Nat /\ h.hi \in Nat /\ h.lo <= h.hi
          /\ g.lo <= g.hi /\ count(g) = g.hi - g.lo + 1 /\ g.hi = h.lo - 1
      BY <2>1, <2>2, RangeIs DEF Follows
    <3>2. e = Bounded(g, g.lo, h.hi)
      BY <2>1, OtherEnd
    <3>3. e.lo = g.lo /\ e.hi = h.hi
      <4> HIDE DEF g, e
      <4>1. QED
        BY <3>2 DEF Bounded
    <3>4. count(e) = e.hi - e.lo + 1
      BY <2>3, RangeIs
    <3> HIDE DEF g, e
    <3>5. QED
      BY <3>1, <3>3, <3>4
  <2>5. ts = [rs EXCEPT ![n] = e]
    <3>1. [rs EXCEPT ![n].hi = h.hi] = [rs EXCEPT ![n] = e]
      BY <2>1 DEF Lists
    <3>2. QED
      BY <1>2, <3>1 DEF push_range
  <2> DEFINE P(k, f, us) ==
               /\ Len(us) = Len(rs)
               /\ \A j \in 1 .. Len(rs) : us[j] = IF j = k THEN f ELSE rs[j]
               /\ \A j \in 1 .. k : CountBefore(us, j) = CountBefore(rs, j)
  <2>6. ASSUME NEW k \in 1 .. Len(rs), NEW f \in HostRange PROVE P(k, f, [rs EXCEPT ![k] = f])
    BY ReplacedSize
  <2> HIDE DEF e, ts, P
  <2>6a. P(n, e, ts)
    BY <2>1, <2>3, <2>5, <2>6
  <2>6b. /\ Len(ts) = n
         /\ \A j \in 1 .. n : ts[j] = IF j = n THEN e ELSE rs[j]
         /\ \A j \in 1 .. n : CountBefore(ts, j) = CountBefore(rs, j)
    BY <2>6a DEF P
  <2> HIDE DEF n
  <2>7. Len(ts) = n
    BY <2>6b
  <2>8. ASSUME NEW k \in 1 .. n
        PROVE  CountBefore(ts, k) = CountBefore(rs, k) /\ count(rs[k]) <= count(ts[k])
    <3>1. CountBefore(ts, k) = CountBefore(rs, k) /\ ts[k] = IF k = n THEN e ELSE rs[k]
      BY <2>6b
    <3>2. count(rs[k]) \in Nat /\ count(e) \in Nat
      <4>1. rs[k] \in HostRange
        BY <1>1
      <4>2. QED
        BY <2>3, <4>1, HostsAre
    <3>3. QED
      BY <2>4, <3>1, <3>2
  <2>9. n <= Len(ts)
    BY <1>1, <2>7
  <2>10. QED
    BY <2>8, <2>9 DEF Longer, ts, n
<1>3. CASE ~(rs # <<>> /\ Follows(Last(rs), h))
  <2>1. ts = rs \o <<h>>
    <3>1. ts = Append(rs, h)
      BY <1>3 DEF push_range
    <3>2. Append(rs, h) = rs \o <<h>>
      BY AppendIsConcat DEF Lists
    <3>3. QED
      BY <3>1, <3>2
  <2>2. <<h>> \in Lists /\ Len(<<h>>) = 1
    BY OneSize
  <2>3. /\ Len(rs \o <<h>>) = n + 1
        /\ \A k \in 1 .. n + 1 : CountBefore(rs \o <<h>>, k) = CountBefore(rs, k)
    BY <2>2, JoinedSize
  <2>4. \A k \in 1 .. n : (rs \o <<h>>)[k] = rs[k]
    BY <2>2, Joining DEF Lists
  <2> HIDE DEF ts
  <2>5. ASSUME NEW k \in 1 .. n
        PROVE  CountBefore(ts, k) = CountBefore(rs, k) /\ count(rs[k]) <= count(ts[k])
    <3>1. CountBefore(ts, k) = CountBefore(rs, k) /\ ts[k] = rs[k]
      BY <1>1, <2>1, <2>3, <2>4
    <3>2. count(rs[k]) \in Nat
      BY <1>1, RangeIs
    <3>3. QED
      BY <3>1, <3>2
  <2>6. n <= Len(ts)
    BY <1>1, <2>1, <2>3
  <2>7. QED
    BY <2>5, <2>6 DEF Longer, ts
<1>4. QED
  BY <1>2, <1>3

(* And so does pushing a list.                                             *)
LEMMA PushLonger ==
  ASSUME NEW rs \in Lists, NEW new \in Lists
  PROVE  Longer(rs, push_ranges(rs, new))
<1> DEFINE N == Len(new)
<1>1. N \in Nat /\ \A n \in 1 .. N : new[n] \in HostRange
  BY ListIs
<1>2. PICK h : PushesUp(h, rs, new)
  BY PushRanges
<1>3. h[0] = rs /\ h[N] = push_ranges(rs, new)
      /\ \A n \in 1 .. N : h[n - 1] \in Lists /\ h[n] = push_range(h[n - 1], new[n])
  BY <1>2 DEF PushesUp
<1> DEFINE S == {n \in Nat : n <= N => h[n] \in Lists /\ Longer(rs, h[n])}
<1>4. 0 \in S
  <2>1. \A k \in 1 .. Len(rs) : count(rs[k]) \in Nat
    BY Counts
  <2>2. Longer(rs, rs)
    <3>1. Len(rs) \in Nat
      BY ListIs
    <3>2. QED
      BY <2>1, <3>1 DEF Longer
  <2>3. QED
    BY <1>3, <2>2
<1>5. ASSUME NEW n \in Nat, n \in S PROVE n + 1 \in S
  <2>1. SUFFICES ASSUME n + 1 <= N PROVE h[n + 1] \in Lists /\ Longer(rs, h[n + 1])
    OBVIOUS
  <2>2. n + 1 \in 1 .. N /\ (n + 1) - 1 = n /\ n <= N
    BY <1>1, <2>1
  <2>3. h[n] \in Lists /\ Longer(rs, h[n]) /\ h[n + 1] = push_range(h[n], new[n + 1])
        /\ new[n + 1] \in HostRange
    BY <1>1, <1>3, <1>5, <2>2
  <2>4. h[n + 1] \in Lists /\ Longer(h[n], h[n + 1])
    BY <2>3, PushRange, PushRangeLonger
  <2>5. QED
    BY <2>3, <2>4, LongerTwice
<1> HIDE DEF S
<1>6. N \in S
  BY <1>1, <1>4, <1>5, Induction
<1>7. QED
  BY <1>1, <1>3, <1>6 DEF S

(* An iterator at a range of the list has not returned more names than     *)
(* that range has.                                                         *)
Inside(it, rs) == it.idx <= Len(rs) => it.depth < count(rs[it.idx])

(* This holds for all that return one name at a time; it is invariant too. *)
HlSpots == \A i \in Iter : track[i] = "name" => Inside(hl.ilist[i], hl.hr)

(* How many names it returned.                                             *)
Spot(it, rs) == CountBefore(rs, it.idx) + it.depth + 1

(* An iterator that a call leaves in use.                                  *)
LEMMA ThenIter ==
  ASSUME HlInv, NEW l \in HostLists, NEW lost, Then(l, lost), NEW i \in Iter, track'[i] = "name"
  PROVE  /\ track[i] = "name" /\ i \notin lost /\ l.hr # <<>>
         /\ hl'.ilist[i] = l.ilist[i] /\ hl'.hr = l.hr
<1> DEFINE gone == {j \in Iter : track[j] # "none" /\ (j \in lost \/ l.hr = <<>>)}
           its == [j \in Iter |-> IF j \in gone THEN NoIter ELSE l.ilist[j]]
<1>1. l \in [hr : Lists, nhosts : Int, ilist : [Iter -> Iterator]]
  BY DEF HostLists
<1>2. hl' = [l EXCEPT !.ilist = its]
      /\ track' = [j \in Iter |-> IF j \in gone THEN "lost" ELSE track[j]]
  BY DEF Then
<1>3. i \notin gone /\ track[i] = "name"
  BY <1>2
<1>4. i \notin lost /\ l.hr # <<>>
  BY <1>3
<1>5. its[i] = l.ilist[i]
  BY <1>3
<1> HIDE DEF its, gone
<1>6. [l EXCEPT !.ilist = its] = [hr |-> l.hr, nhosts |-> l.nhosts, ilist |-> its]
  BY <1>1
<1>7. QED
  BY <1>2, <1>3, <1>4, <1>5, <1>6

(* The same for an iterator of the names.                                  *)
LEMMA SpotIs ==
  ASSUME HlInv, NEW i \in Iter, track[i] = "name"
  PROVE  LET it == hl.ilist[i] IN
         /\ it \in Iterator /\ it.idx \in Nat \ {0} /\ it.depth \in Int /\ it.depth >= -1
         /\ place(i) = Spot(it, hl.hr) /\ hl.hr \in Lists /\ Len(hl.hr) \in Nat \ {0}
         /\ CountBefore(hl.hr, it.idx) \in 0 .. Size(hl.hr) /\ Size(hl.hr) \in Nat
         /\ it.idx > Len(hl.hr) => it.depth >= 0 /\ CountBefore(hl.hr, it.idx) = Size(hl.hr)
<1> DEFINE it == hl.ilist[i]
<1>1. /\ it \in Iterator /\ it.idx \in Nat \ {0} /\ it.depth \in Int /\ it.depth >= -1
      /\ InPlace(it, hl.hr) /\ Len(hl.hr) \in Nat \ {0} /\ hl.hr \in Lists /\ Size(hl.hr) \in Nat
  BY InPlaceIs, ListHas
<1>2. place(i) = Spot(it, hl.hr)
  BY DEF place, Spot
<1> HIDE DEF it
<1>3. it.idx > Len(hl.hr) => it.depth >= 0
  BY <1>1 DEF InPlace
<1>4. CountBefore(hl.hr, it.idx) \in 0 .. Size(hl.hr)
      /\ (it.idx > Len(hl.hr) => CountBefore(hl.hr, it.idx) = Size(hl.hr))
  BY <1>1, CountInside
<1>5. QED
  BY <1>1, <1>2, <1>3, <1>4 DEF it

(* hostlist_push leaves it after the same names.                           *)
LEMMA PushPlace ==
  ASSUME HlInv, HlSpots, NEW rs \in Lists, hostlist_push(rs), NEW i \in Iter, track'[i] = "name"
  PROVE  place(i)' = place(i) /\ Inside(hl'.ilist[i], hl'.hr)
<1> DEFINE new == push_ranges(hl.hr, rs)
           lost == {j \in Iter : place(j) > Size(hl.hr)} \cup Ranged
           it == hl.ilist[i]
<1>1. hl \in HostLists /\ hl.hr \in Lists /\ Size(hl.hr) \in Nat
      /\ Len(hl.hr) \in Nat
  BY ListHas
<1>2. new \in Lists /\ Size(new) = Size(hl.hr) + Size(rs) /\ Longer(hl.hr, new)
  BY <1>1, PushRanges, PushLonger
<1>3. PICK m \in HostLists : m.hr = new /\ m.ilist = hl.ilist /\ Then(m, lost)
  BY PushedList
<1>4. m \in HostLists /\ m.hr = new /\ m.ilist = hl.ilist
  BY <1>3
<1>5. /\ track[i] = "name" /\ i \notin lost /\ m.hr # <<>>
      /\ hl'.ilist[i] = m.ilist[i] /\ hl'.hr = m.hr
  <2> HIDE DEF lost
  <2>1. QED
    BY <1>3, <1>4, ThenIter
<1>6. ~(place(i) > Size(hl.hr))
  BY <1>5
<1>7. hl'.ilist[i] = it /\ hl'.hr = new
  BY <1>4, <1>5
<1>8. /\ it.idx \in Nat \ {0} /\ it.depth \in Int /\ place(i) = Spot(it, hl.hr)
      /\ CountBefore(hl.hr, it.idx) \in 0 .. Size(hl.hr)
      /\ it.idx > Len(hl.hr) => it.depth >= 0 /\ CountBefore(hl.hr, it.idx) = Size(hl.hr)
  BY <1>5, SpotIs
<1> HIDE DEF it, new, lost
<1>9. it.idx \in 1 .. Len(hl.hr)
  BY <1>1, <1>6, <1>8 DEF Spot
<1>10. CountBefore(new, it.idx) = CountBefore(hl.hr, it.idx)
       /\ count(hl.hr[it.idx]) <= count(new[it.idx]) /\ it.idx \in 1 .. Len(new)
  <2>1. Len(new) \in Nat
    BY <1>2, ListIs
  <2>2. QED
    BY <1>1, <1>2, <1>9, <2>1 DEF Longer
<1>11. place(i)' = Spot(it, new)
  BY <1>7 DEF place, Spot
<1>12. place(i)' = place(i)
  BY <1>8, <1>10, <1>11 DEF Spot
<1>13. Inside(it, new)
  <2>1. it.depth < count(hl.hr[it.idx])
    <3>1. Inside(it, hl.hr)
      BY <1>5 DEF HlSpots, it
    <3>2. it.idx <= Len(hl.hr)
      BY <1>1, <1>9
    <3>3. QED
      BY <3>1, <3>2 DEF Inside
  <2>2. count(hl.hr[it.idx]) \in Nat /\ count(new[it.idx]) \in Nat
    BY <1>1, <1>2, <1>9, <1>10, Counts
  <2>3. QED
    BY <1>8, <1>10, <2>1, <2>2 DEF Inside
<1>14. QED
  BY <1>7, <1>12, <1>13

(* Cutting the end off a list leaves the iterators where they are.         *)
LEMMA CutIter ==
  ASSUME NEW l \in HostLists, NEW n, NEW i \in Iter
  PROVE  /\ cut(l, n).ilist[i].idx = l.ilist[i].idx
         /\ cut(l, n).ilist[i].depth = l.ilist[i].depth
<1> DEFINE it == l.ilist[i]
           left(x) == [x EXCEPT !.fresh = x.fresh /\ x.idx <= n]
           its == [j \in Iter |-> left(l.ilist[j])]
           rs == SubSeq(l.hr, 1, n)
<1>1. l \in [hr : Lists, nhosts : Int, ilist : [Iter -> Iterator]] /\ it \in Iterator
  BY DEF HostLists
<1>2. cut(l, n) = [l EXCEPT !.hr = rs, !.ilist = its]
  BY DEF cut
<1>3. its[i] = left(it)
  OBVIOUS
<1> HIDE DEF its, rs
<1>4. cut(l, n).ilist = its
  <2>1. [l EXCEPT !.hr = rs, !.ilist = its] = [[l EXCEPT !.hr = rs] EXCEPT !.ilist = its]
    OBVIOUS
  <2>2. [l EXCEPT !.hr = rs] = [hr |-> rs, nhosts |-> l.nhosts, ilist |-> l.ilist]
    BY <1>1
  <2>3. [[hr |-> rs, nhosts |-> l.nhosts, ilist |-> l.ilist] EXCEPT !.ilist = its].ilist = its
    OBVIOUS
  <2>4. QED
    BY <1>2, <2>1, <2>2, <2>3
<1> DEFINE p == it.fresh /\ it.idx <= n
<1>5. left(it) = [it EXCEPT !.fresh = p]
  OBVIOUS
<1> HIDE DEF left, p
<1>6. [it EXCEPT !.fresh = p].idx = it.idx /\ [it EXCEPT !.fresh = p].depth = it.depth
  <2>1. it \in [idx : Nat, depth : Int, fresh : BOOLEAN]
    BY <1>1 DEF Iterator
  <2> HIDE DEF it
  <2>2. QED
    BY <2>1
<1>7. QED
  BY <1>3, <1>4, <1>5, <1>6

(* hostlist_pop leaves an iterator after the same names; those that are    *)
(* behind what is left are lost.                                           *)
LEMMA PopPlace ==
  ASSUME HlInv, HlSpots, hostlist_pop, NEW i \in Iter, track'[i] = "name"
  PROVE  place(i)' = place(i) /\ Inside(hl'.ilist[i], hl'.hr)
<1> DEFINE n == Len(hl.hr)
           rs == hl.hr
           h == hl.hr[n]
           rest == [Last(hl.hr) EXCEPT !.hi = @ - 1]
           l == [hl EXCEPT !.nhosts = @ - 1]
           m == IF rest.single \/ empty(rest) THEN cut(l, n - 1) ELSE [l EXCEPT !.hr[n] = rest]
           lost == {j \in Iter : place(j) >= Size(hl.hr) - 1} \cup Ranged
           it == hl.ilist[i]
           X == hl'.ilist[i]
<1>1. hl \in HostLists /\ rs \in Lists /\ hl.nhosts = Size(rs) - short /\ hl.nhosts \in Int /\ short \in {0, 1}
      /\ n \in Nat /\ Size(rs) \in Nat
  BY ListHas
<1>2. hl.nhosts > 0 /\ Then(m, lost)
  BY DEF hostlist_pop
<1>3. n # 0 /\ n \in 1 .. n /\ h \in HostRange
  <2>1. n # 0
    BY <1>1, <1>2, SizeIs, NotEmpty
  <2>2. QED
    BY <1>1, <2>1, ListIs
<1>4. l \in HostLists /\ l.hr = rs /\ l.ilist = hl.ilist
  <2>1. hl.nhosts - 1 \in Int
    BY <1>1
  <2>2. QED
    BY <1>1, <2>1, WithCount
<1>5. /\ h.lo \in Nat /\ h.hi \in Nat /\ h.lo <= h.hi /\ h.single \in BOOLEAN
      /\ (h.single => h.lo = 0 /\ h.hi = 0) /\ count(h) = h.hi - h.lo + 1
  BY <1>3, RangeIs
<1>6. rest = Bounded(h, h.lo, h.hi - 1)
  BY <1>3, OtherEnd DEF Last
<1>7. rest.single = h.single /\ rest.lo = h.lo /\ rest.hi = h.hi - 1
  <2> HIDE DEF rest, h
  <2>1. QED
    BY <1>6 DEF Bounded
<1>8. CountBefore(rs, n) = Size(rs) - count(h)
      /\ \A k \in 1 .. n - 1 : count(rs[k]) \in Nat
  <2>1. CountBefore(rs, n + 1) = CountBefore(rs, n) + count(h) /\ CountBefore(rs, n) \in Nat
    <3>1. n \in 1 .. Len(rs) /\ n \in 1 .. Len(rs) + 1
      BY <1>1, <1>3
    <3>2. QED
      BY <1>1, <3>1, Counts
  <2>2. \A k \in 1 .. n - 1 : k \in 1 .. Len(rs)
    BY <1>1
  <2>3. \A k \in 1 .. n - 1 : count(rs[k]) \in Nat
    BY <1>1, <2>2, Counts
  <2>4. QED
    BY <1>5, <2>1, <2>3 DEF Size
<1> HIDE DEF l, rest, h
<1>9. CASE rest.single \/ empty(rest)
  <2>1. count(h) = 1
    BY <1>5, <1>7, <1>9 DEF empty
  <2>2. m = cut(l, n - 1) /\ n - 1 \in 0 .. Len(l.hr)
    BY <1>1, <1>3, <1>4, <1>9
  <2>3. m \in HostLists /\ m.hr = SubSeq(rs, 1, n - 1)
        /\ m.ilist[i].idx = it.idx /\ m.ilist[i].depth = it.depth
    <3> HIDE DEF m, n
    <3>1. cut(l, n - 1) \in HostLists /\ cut(l, n - 1).hr = SubSeq(l.hr, 1, n - 1)
      BY <1>4, <2>2, CutIs
    <3>2. /\ cut(l, n - 1).ilist[i].idx = l.ilist[i].idx
          /\ cut(l, n - 1).ilist[i].depth = l.ilist[i].depth
      BY <1>4, CutIter
    <3>3. QED
      BY <1>4, <2>2, <3>1, <3>2
  <2> HIDE DEF m, lost, it
  <2>4. track[i] = "name" /\ i \notin lost /\ X = m.ilist[i] /\ hl'.hr = m.hr
    BY <1>2, <2>3, ThenIter
  <2>5. ~(place(i) >= Size(rs) - 1)
    BY <2>4 DEF lost
  <2>6. /\ it.idx \in Nat \ {0} /\ it.depth \in Int /\ it.depth >= -1 /\ place(i) = Spot(it, rs)
        /\ CountBefore(rs, it.idx) \in 0 .. Size(rs)
        /\ it.idx > n => it.depth >= 0 /\ CountBefore(rs, it.idx) = Size(rs)
    BY <2>4, SpotIs DEF it
  <2>7. it.idx \in 1 .. n - 1
    <3>1. it.idx # n
      BY <1>1, <1>8, <2>1, <2>5, <2>6 DEF Spot
    <3>2. ~(it.idx > n)
      BY <1>1, <2>5, <2>6 DEF Spot
    <3>3. QED
      BY <1>1, <2>6, <3>1, <3>2
  <2> DEFINE ts == SubSeq(rs, 1, n - 1)
  <2>8. /\ Len(ts) = n - 1 /\ ts[it.idx] = rs[it.idx]
        /\ CountBefore(ts, it.idx) = CountBefore(rs, it.idx)
    <3>1. 1 \in 1 .. Len(rs) + 1 /\ n - 1 \in 1 - 1 .. Len(rs)
          /\ it.idx \in 1 .. (n - 1) - 1 + 1 /\ it.idx \in 1 .. (n - 1) - 1 + 2
          /\ 1 + it.idx - 1 = it.idx /\ (n - 1) - 1 + 1 = n - 1
      BY <1>1, <1>3, <2>7
    <3>2. /\ Len(ts) = (n - 1) - 1 + 1 /\ ts[it.idx] = rs[1 + it.idx - 1]
          /\ CountBefore(ts, it.idx) = CountBefore(rs, 1 + it.idx - 1) - CountBefore(rs, 1)
      BY <1>1, <3>1, PartSize
    <3>3. CountBefore(rs, 1) = 0
      BY <1>1, Counts
    <3>4. QED
      BY <1>1, <2>6, <3>1, <3>2, <3>3
  <2> HIDE DEF ts
  <2>9. hl'.hr = ts /\ X.idx = it.idx /\ X.depth = it.depth
    BY <2>3, <2>4 DEF ts
  <2>10. place(i)' = CountBefore(ts, it.idx) + it.depth + 1
    BY <2>9 DEF place
  <2>11. it.depth < count(rs[it.idx])
    <3>1. Inside(it, rs)
      BY <2>4 DEF HlSpots, it
    <3>2. it.idx <= n
      BY <1>1, <2>7
    <3>3. QED
      BY <3>1, <3>2 DEF Inside
  <2>12. Inside(X, ts)
    BY <2>8, <2>9, <2>11 DEF Inside
  <2>13. QED
    BY <2>6, <2>8, <2>9, <2>10, <2>12 DEF Spot
<1>10. CASE ~(rest.single \/ empty(rest))
  <2>1. rest \in HostRange /\ count(rest) = count(h) - 1
    <3>1. ~h.single /\ h.hi - 1 \in Nat /\ h.lo <= h.hi - 1
      BY <1>5, <1>7, <1>10 DEF empty
    <3>2. rest \in HostRange /\ count(rest) = (h.hi - 1) - h.lo + 1
      BY <1>3, <1>5, <1>6, <3>1, BoundedIs
    <3>3. QED
      BY <1>5, <3>2
  <2>2. m \in HostLists /\ m.hr = [rs EXCEPT ![n] = rest] /\ m.ilist = hl.ilist
    <3>1. n \in 1 .. Len(l.hr) /\ m = [l EXCEPT !.hr[n] = rest]
      BY <1>3, <1>4, <1>10
    <3> HIDE DEF m, n
    <3>2. m \in HostLists /\ m.hr = [l.hr EXCEPT ![n] = rest] /\ m.ilist = l.ilist
      BY <1>4, <2>1, <3>1, WithRange
    <3>3. QED
      BY <1>4, <3>2
  <2> HIDE DEF m, lost, it
  <2>3. track[i] = "name" /\ i \notin lost /\ X = m.ilist[i] /\ hl'.hr = m.hr
    BY <1>2, <2>2, ThenIter
  <2>4. ~(place(i) >= Size(rs) - 1)
    BY <2>3 DEF lost
  <2>5. /\ it.idx \in Nat \ {0} /\ it.depth \in Int /\ it.depth >= -1 /\ place(i) = Spot(it, rs)
        /\ CountBefore(rs, it.idx) \in 0 .. Size(rs)
        /\ it.idx > n => it.depth >= 0 /\ CountBefore(rs, it.idx) = Size(rs)
    BY <2>3, SpotIs DEF it
  <2>6. it.idx \in 1 .. n /\ (it.idx = n => it.depth < count(h) - 1)
    <3>1. ~(it.idx > n)
      BY <1>1, <2>4, <2>5 DEF Spot
    <3>2. it.idx = n => it.depth < count(h) - 1
      BY <1>1, <1>5, <1>8, <2>4, <2>5, SMTT(30) DEF Spot
    <3>3. QED
      BY <1>1, <2>5, <3>1, <3>2
  <2> DEFINE ts == [rs EXCEPT ![n] = rest]
             P(k, f, us) ==
               /\ Len(us) = Len(rs)
               /\ \A j \in 1 .. Len(rs) : us[j] = IF j = k THEN f ELSE rs[j]
               /\ \A j \in 1 .. k : CountBefore(us, j) = CountBefore(rs, j)
  <2>7. ASSUME NEW k \in 1 .. Len(rs), NEW f \in HostRange PROVE P(k, f, [rs EXCEPT ![k] = f])
    <3> HIDE DEF rs
    <3>1. rs \in Lists
      BY <1>1
    <3>2. QED
      BY <3>1, ReplacedSize
  <2> HIDE DEF P
  <2>8. P(n, rest, ts)
    BY <1>3, <2>1, <2>7
  <2> HIDE DEF ts
  <2>9. /\ Len(ts) = n /\ CountBefore(ts, it.idx) = CountBefore(rs, it.idx)
        /\ ts[it.idx] = IF it.idx = n THEN rest ELSE rs[it.idx]
    BY <1>1, <2>6, <2>8 DEF P
  <2>10. hl'.hr = ts /\ X = it
    BY <2>2, <2>3 DEF ts, it
  <2>11. place(i)' = Spot(it, ts)
    BY <2>10 DEF place, Spot
  <2>12. it.depth < count(rs[it.idx])
    <3>1. Inside(it, rs)
      BY <2>3 DEF HlSpots, it
    <3>2. it.idx <= n
      BY <1>1, <2>6
    <3>3. QED
      BY <3>1, <3>2 DEF Inside
  <2>13. it.depth < count(ts[it.idx])
    BY <2>1, <2>6, <2>9, <2>12
  <2>14. Inside(X, ts)
    BY <2>10, <2>13 DEF Inside
  <2>15. QED
    BY <2>5, <2>9, <2>10, <2>11, <2>14 DEF Spot
<1>11. QED
  BY <1>9, <1>10

(* Where hostlist_delete_range puts an iterator behind the range.          *)
LEMMA RangeGone ==
  ASSUME NEW l \in HostLists, NEW k \in 1 .. Len(l.hr), NEW i \in Iter,
         l.ilist[i].idx >= k
  PROVE  LET x == delete_range(l, k).ilist[i]
             it == l.ilist[i]
         IN  /\ it.idx = 1 => x.idx = 1 /\ x.depth = -1
             /\ it.idx # 1 => x.idx = it.idx - 1 /\ x.depth = it.depth
<1> DEFINE rs == RemoveAt(l.hr, k)
           new(e) == IF e.idx < k THEN e
                     ELSE IF e.idx = 1 THEN Begin(rs) ELSE At(rs, e, e.idx - 1)
           its == [j \in Iter |-> new(l.ilist[j])]
           d == delete_range(l, k)
           it == l.ilist[i]
<1>1. l \in [hr : Lists, nhosts : Int, ilist : [Iter -> Iterator]] /\ it \in Iterator
  BY DEF HostLists
<1>2. d = [l EXCEPT !.hr = rs, !.ilist = its]
  BY DEF delete_range
<1>3. its[i] = new(it)
  OBVIOUS
<1>4. it.idx \in Nat /\ k \in Nat /\ k >= 1
  BY <1>1 DEF Iterator
<1>5. it.idx = 1 => new(it) = Begin(rs)
  BY <1>4
<1>6. it.idx # 1 => new(it) = At(rs, it, it.idx - 1) /\ it.idx - 1 \in Nat
  BY <1>4
<1> HIDE DEF new, its, rs, d, it
<1>7. d.ilist = its
  <2>1. d = [hr |-> rs, nhosts |-> l.nhosts, ilist |-> its]
    BY <1>1, <1>2
  <2>2. QED
    BY <2>1
<1>8. it.idx = 1 => d.ilist[i].idx = 1 /\ d.ilist[i].depth = -1
  BY <1>3, <1>5, <1>7, Begun
<1>9. it.idx # 1 => d.ilist[i].idx = it.idx - 1 /\ d.ilist[i].depth = it.depth
  <2>1. SUFFICES ASSUME it.idx # 1
                 PROVE  d.ilist[i].idx = it.idx - 1 /\ d.ilist[i].depth = it.depth
    OBVIOUS
  <2> DEFINE n == it.idx - 1
  <2>2. n \in Nat /\ d.ilist[i] = At(rs, it, n)
    BY <1>3, <1>6, <1>7, <2>1
  <2> HIDE DEF n
  <2>3. At(rs, it, n).idx = n /\ At(rs, it, n).depth = it.depth
    BY <1>1, <2>2, Moved, ZenonT(60)
  <2>4. QED
    BY <2>2, <2>3 DEF n
<1>10. QED
  BY <1>8, <1>9 DEF it, d

(* The names before a range, wherever one asks.                            *)
LEMMA FirstGone ==
  ASSUME NEW rs \in Lists, Len(rs) # 0, NEW j \in Nat, j >= 2
  PROVE  LET ts == SubSeq(rs, 2, Len(rs)) IN
         /\ ts \in Lists /\ Len(ts) = Len(rs) - 1
         /\ CountBefore(ts, j - 1) = CountBefore(rs, j) - count(rs[1])
         /\ CountBefore(ts, j - 1) \in Nat
         /\ j <= Len(rs) => ts[j - 1] = rs[j]
<1> DEFINE n == Len(rs)
           ts == SubSeq(rs, 2, n)
<1>1. n \in Nat /\ 2 \in 1 .. n + 1 /\ n \in 2 - 1 .. n /\ 1 \in 1 .. n
  BY ListIs
<1>2. /\ ts \in Lists /\ Len(ts) = n - 2 + 1
      /\ \A k \in 1 .. n - 2 + 1 : ts[k] = rs[2 + k - 1]
      /\ Size(ts) = CountBefore(rs, n + 1) - CountBefore(rs, 2)
      /\ \A k \in 1 .. n - 2 + 2 : CountBefore(ts, k) = CountBefore(rs, 2 + k - 1) - CountBefore(rs, 2)
  BY <1>1, PartSize
<1>3. CountBefore(rs, 2) = count(rs[1])
  <2>1. CountBefore(rs, 1 + 1) = CountBefore(rs, 1) + count(rs[1]) /\ CountBefore(rs, 1) = 0
        /\ count(rs[1]) \in Nat /\ 1 + 1 = 2
    BY <1>1, Counts
  <2>2. QED
    BY <2>1
<1> HIDE DEF ts
<1>4. CountBefore(ts, j - 1) \in Nat
  <2>1. j - 1 \in Nat \ {0}
    OBVIOUS
  <2>2. CountBefore(ts, j - 1) \in 0 .. Size(ts) /\ Size(ts) \in Nat
    BY <1>2, <2>1, CountInside, SizeIs
  <2>3. QED
    BY <2>2
<1>5. CASE j <= n
  <2>1. j - 1 \in 1 .. n - 2 + 1 /\ j - 1 \in 1 .. n - 2 + 2 /\ 2 + (j - 1) - 1 = j
    BY <1>1, <1>5
  <2>2. ts[j - 1] = rs[j] /\ CountBefore(ts, j - 1) = CountBefore(rs, j) - CountBefore(rs, 2)
    BY <1>2, <2>1
  <2>3. Len(ts) = n - 1
    BY <1>1, <1>2
  <2>4. QED
    BY <1>2, <1>3, <1>4, <2>2, <2>3 DEF ts
<1>6. CASE ~(j <= n)
  <2>1. j - 1 \in Nat \ {0} /\ j \in Nat \ {0} /\ j > n /\ Len(ts) = n - 1 /\ j - 1 > Len(ts)
    BY <1>1, <1>2, <1>6
  <2>2. CountBefore(ts, j - 1) = Size(ts) /\ CountBefore(rs, j) = Size(rs)
    BY <1>2, <2>1, CountInside
  <2>3. CountBefore(ts, j - 1) = CountBefore(rs, j) - count(rs[1])
    BY <1>2, <1>3, <2>2 DEF Size
  <2>4. QED
    BY <1>2, <1>4, <1>6, <2>1, <2>3 DEF ts
<1>7. QED
  BY <1>5, <1>6

(* The same where the first range got another end.                         *)
LEMMA FirstChanged ==
  ASSUME NEW rs \in Lists, Len(rs) # 0, NEW g \in HostRange, NEW j \in Nat, j >= 2
  PROVE  LET ts == [rs EXCEPT ![1] = g] IN
         /\ ts \in Lists /\ Len(ts) = Len(rs) /\ ts[1] = g /\ CountBefore(ts, 1) = 0
         /\ CountBefore(ts, j) = CountBefore(rs, j) + count(g) - count(rs[1])
         /\ CountBefore(ts, j) \in Nat
         /\ j <= Len(rs) => ts[j] = rs[j]
<1> DEFINE n == Len(rs)
           ts == [rs EXCEPT ![1] = g]
<1>1. n \in Nat /\ 1 \in 1 .. n
  BY ListIs
<1> DEFINE P(k, us) == us \in Lists /\ Len(us) = Len(rs)
           Q(k, us) == \A m \in 1 .. Len(rs) : us[m] = IF m = k THEN g ELSE rs[m]
           R(k, us) == \A m \in k + 1 .. Len(rs) + 1 :
                          CountBefore(us, m) = CountBefore(rs, m) + count(g) - count(rs[k])
           S(k, us) == Size(us) = Size(rs) + count(g) - count(rs[k])
<1>2a. ASSUME NEW k \in 1 .. Len(rs)
       PROVE  LET us == [rs EXCEPT ![k] = g] IN P(k, us) /\ Q(k, us) /\ R(k, us) /\ S(k, us)
  <2> DEFINE us == [rs EXCEPT ![k] = g]
  <2>1. P(k, us)
    BY ReplacedSize
  <2>2. Q(k, us)
    BY ReplacedSize
  <2>3. R(k, us)
    BY ReplacedSize
  <2>4. S(k, us)
    BY ReplacedSize
  <2> HIDE DEF P, Q, R, S, us
  <2>5. QED
    BY <2>1, <2>2, <2>3, <2>4 DEF us
<1> HIDE DEF P, Q, R, S
<1>2b. P(1, ts) /\ Q(1, ts) /\ R(1, ts) /\ S(1, ts)
  BY <1>1, <1>2a
<1> HIDE DEF ts
<1>2. /\ ts \in Lists /\ Len(ts) = n
      /\ \A m \in 1 .. n : ts[m] = IF m = 1 THEN g ELSE rs[m]
      /\ \A m \in 1 + 1 .. n + 1 : CountBefore(ts, m) = CountBefore(rs, m) + count(g) - count(rs[1])
      /\ Size(ts) = Size(rs) + count(g) - count(rs[1])
  BY <1>2b DEF P, Q, R, S
<1>3. ts[1] = g /\ CountBefore(ts, 1) = 0
  BY <1>1, <1>2, Counts
<1> HIDE DEF ts
<1>4. CountBefore(ts, j) \in Nat
  <2>1. j \in Nat \ {0}
    OBVIOUS
  <2>2. CountBefore(ts, j) \in 0 .. Size(ts) /\ Size(ts) \in Nat
    BY <1>2, <2>1, CountInside, SizeIs
  <2>3. QED
    BY <2>2
<1>5. CASE j <= n
  <2>1. j \in 1 .. n /\ j \in 1 + 1 .. n + 1 /\ j # 1
    BY <1>1, <1>5
  <2>2. QED
    BY <1>2, <1>3, <1>4, <2>1 DEF ts
<1>6. CASE ~(j <= n)
  <2>1. j \in Nat \ {0} /\ j > n
    BY <1>1, <1>6
  <2>2. CountBefore(ts, j) = Size(ts) /\ CountBefore(rs, j) = Size(rs)
    BY <1>2, <2>1, CountInside
  <2>3. QED
    BY <1>2, <1>3, <1>4, <1>6, <2>2 DEF ts
<1>7. QED
  BY <1>5, <1>6

(* One less, and not below 0.                                              *)
LEMMA MaxZero ==
  ASSUME NEW a \in Int
  PROVE  Max({a, 0}) = IF a >= 0 THEN a ELSE 0
<1> DEFINE m == IF a >= 0 THEN a ELSE 0
           lo == IF a >= 0 THEN 0 ELSE a
<1>1. {a, 0} \in SUBSET (lo .. m) /\ {a, 0} # {} /\ lo \in Int /\ m \in Int
  OBVIOUS
<1>2. Max({a, 0}) \in {a, 0} /\ \A y \in {a, 0} : Max({a, 0}) >= y
  BY <1>1, MaxIs
<1>3. QED
  BY <1>2

(* hostlist_shift takes one from the names an iterator returned, if it     *)
(* returned any.                                                           *)
LEMMA ShiftPlace ==
  ASSUME HlInv, HlSpots, hostlist_shift, NEW i \in Iter, track'[i] = "name"
  PROVE  place(i)' = Max({place(i) - 1, 0}) /\ Inside(hl'.ilist[i], hl'.hr)
<1> DEFINE n == Len(hl.hr)
           rs == hl.hr
           h == hl.hr[1]
           rest == [hl.hr[1] EXCEPT !.lo = @ + 1]
           l == [hl EXCEPT !.nhosts = @ - 1]
           back(it) == IF it.idx = 1 /\ it.depth >= 0 THEN [it EXCEPT !.depth = @ - 1] ELSE it
           m == IF rest.single \/ empty(rest) THEN delete_range(l, 1)
                ELSE [l EXCEPT !.hr[1] = rest, !.ilist = [j \in Iter |-> back(@[j])]]
           it == hl.ilist[i]
           X == hl'.ilist[i]
<1>1. hl \in HostLists /\ rs \in Lists /\ hl.nhosts = Size(rs) - short /\ hl.nhosts \in Int /\ short \in {0, 1}
      /\ n \in Nat /\ Size(rs) \in Nat /\ hl.ilist \in [Iter -> Iterator]
  BY ListHas
<1>2. hl.nhosts > 0 /\ Then(m, Ranged)
  BY DEF hostlist_shift
<1>3. n # 0 /\ 1 \in 1 .. n /\ h \in HostRange
  <2>1. n # 0
    BY <1>1, <1>2, SizeIs, NotEmpty
  <2>2. QED
    BY <1>1, <2>1, ListIs
<1>4. l \in HostLists /\ l.hr = rs /\ l.ilist = hl.ilist
  <2>1. hl.nhosts - 1 \in Int
    BY <1>1
  <2>2. QED
    BY <1>1, <2>1, WithCount
<1>5. /\ h.lo \in Nat /\ h.hi \in Nat /\ h.lo <= h.hi /\ h.single \in BOOLEAN
      /\ (h.single => h.lo = 0 /\ h.hi = 0) /\ count(h) = h.hi - h.lo + 1
  BY <1>3, RangeIs
<1>6. rest = Bounded(h, h.lo + 1, h.hi)
  BY <1>3, OtherEnd
<1>7. rest.single = h.single /\ rest.lo = h.lo + 1 /\ rest.hi = h.hi
  <2> HIDE DEF rest, h
  <2>1. QED
    BY <1>6 DEF Bounded
<1>8. CountBefore(rs, 1) = 0
  BY <1>1, Counts
<1>9. ASSUME track[i] = "name"
      PROVE  /\ it \in Iterator /\ it.idx \in Nat \ {0} /\ it.depth \in Int /\ it.depth >= -1
             /\ place(i) = CountBefore(rs, it.idx) + it.depth + 1
             /\ it.idx <= Len(rs) => it.depth < count(rs[it.idx])
  <2>1. /\ it \in Iterator /\ it.idx \in Nat \ {0} /\ it.depth \in Int /\ it.depth >= -1
        /\ place(i) = Spot(it, rs)
    BY <1>9, SpotIs
  <2>2. Inside(it, rs)
    BY <1>9 DEF HlSpots
  <2> HIDE DEF it
  <2>3. QED
    BY <2>1, <2>2 DEF Spot, Inside
<1> HIDE DEF l, rest, h
<1>10. CASE rest.single \/ empty(rest)
  <2>1. count(h) = 1
    BY <1>5, <1>7, <1>10 DEF empty
  <2>2. m = delete_range(l, 1) /\ 1 \in 1 .. Len(l.hr)
    BY <1>3, <1>4, <1>10
  <2> DEFINE ts == SubSeq(rs, 2, Len(rs))
             x == m.ilist[i]
  <2>3. m \in HostLists /\ m.hr = ts
    <3> HIDE DEF m
    <3>1. m \in HostLists /\ m.hr = RemoveAt(rs, 1)
      BY <1>4, <2>2, DeleteRange
    <3>2. RemoveAt(rs, 1) = SubSeq(rs, 1, 0) \o SubSeq(rs, 2, Len(rs))
      BY DEF RemoveAt
    <3>3. SubSeq(rs, 1, 0) = <<>>
      BY NothingOf
    <3>4. ts \in Lists
      <4>1. 2 \in 1 .. Len(rs) + 1 /\ Len(rs) \in 2 - 1 .. Len(rs)
        BY <1>1, <1>3
      <4>2. QED
        BY <1>1, <4>1, PartSize
    <3> HIDE DEF ts
    <3>5. <<>> \o ts = ts
      BY <3>4 DEF Lists
    <3>6. QED
      BY <3>1, <3>2, <3>3, <3>5 DEF ts
  <2> HIDE DEF m
  <2>4. track[i] = "name" /\ X = x /\ hl'.hr = ts
    BY <1>2, <2>3, ThenIter
  <2>5. /\ it.idx = 1 => x.idx = 1 /\ x.depth = -1
        /\ it.idx # 1 => x.idx = it.idx - 1 /\ x.depth = it.depth
    <3>1. it.idx >= 1
      BY <1>9, <2>4
    <3>2. l.ilist[i] = it
      BY <1>4
    <3> HIDE DEF it
    <3>3. QED
      BY <1>4, <2>2, <3>1, <3>2, RangeGone
  <2> HIDE DEF x
  <2>6. place(i)' = CountBefore(ts, x.idx) + x.depth + 1
    BY <2>4 DEF place
  <2> HIDE DEF it, X, ts
  <2>7. CASE it.idx = 1
    <3>1. it.depth < 1
      BY <1>1, <1>3, <1>9, <2>1, <2>4, <2>7 DEF h
    <3>2. place(i) - 1 \in Int /\ ~(place(i) - 1 > 0)
      BY <1>8, <1>9, <2>4, <2>7, <3>1
    <3>3. Max({place(i) - 1, 0}) = 0
      BY <3>2, MaxZero
    <3>4. ts \in Lists
      BY <2>3 DEF HostLists
    <3>5. CountBefore(ts, 1) = 0 /\ (1 <= Len(ts) => count(ts[1]) \in Nat)
      <4>1. Len(ts) \in Nat /\ (1 <= Len(ts) => 1 \in 1 .. Len(ts))
        BY <3>4, ListIs
      <4>2. QED
        BY <3>4, <4>1, Counts
    <3>6. place(i)' = 0
      BY <2>5, <2>6, <2>7, <3>5
    <3>7. Inside(x, ts)
      BY <2>5, <2>7, <3>5 DEF Inside
    <3>8. QED
      BY <2>4, <3>3, <3>6, <3>7 DEF X
  <2>8. CASE it.idx # 1
    <3> DEFINE j == it.idx
    <3>1. j \in Nat /\ j >= 2
      BY <1>9, <2>4, <2>8
    <3> HIDE DEF j
    <3>2. /\ Len(ts) = n - 1 /\ CountBefore(ts, j - 1) = CountBefore(rs, j) - count(rs[1])
          /\ CountBefore(ts, j - 1) \in Nat /\ (j <= Len(rs) => ts[j - 1] = rs[j])
      BY <1>1, <1>3, <3>1, FirstGone DEF ts
    <3> DEFINE c == CountBefore(ts, j - 1)
               b == CountBefore(rs, j)
    <3>3. c = b - 1 /\ c \in Nat /\ b \in Int
      <4>1. b \in 0 .. Size(rs)
        BY <1>1, <3>1, CountInside
      <4>2. QED
        BY <1>1, <2>1, <3>2, <4>1 DEF h
    <3>4. place(i)' = c + it.depth + 1 /\ place(i) = b + it.depth + 1
      BY <1>9, <2>4, <2>5, <2>6, <2>8 DEF j
    <3> HIDE DEF c, b
    <3>5. place(i) - 1 = place(i)' /\ place(i)' \in Int /\ place(i)' >= 0
      BY <1>9, <2>4, <3>3, <3>4
    <3>6. Max({place(i) - 1, 0}) = place(i)'
      BY <3>5, MaxZero
    <3>7. Inside(x, ts)
      <4>1. SUFFICES ASSUME x.idx <= Len(ts) PROVE x.depth < count(ts[x.idx])
        BY DEF Inside
      <4>2. x.idx = j - 1 /\ x.depth = it.depth
        BY <2>5, <2>8 DEF j
      <4>3. j <= Len(rs)
        BY <1>1, <3>1, <3>2, <4>1, <4>2
      <4>4. ts[x.idx] = rs[j]
        BY <3>2, <4>2, <4>3
      <4>5. QED
        BY <1>9, <2>4, <4>2, <4>3, <4>4 DEF j
    <3>8. QED
      BY <2>4, <3>6, <3>7 DEF X
  <2>9. QED
    BY <2>7, <2>8
<1>11. CASE ~(rest.single \/ empty(rest))
  <2>1. rest \in HostRange /\ count(rest) = count(h) - 1
    <3>1. ~h.single /\ h.lo + 1 \in Nat /\ h.lo + 1 <= h.hi
      BY <1>5, <1>7, <1>11 DEF empty
    <3>2. rest \in HostRange /\ count(rest) = h.hi - (h.lo + 1) + 1
      BY <1>3, <1>5, <1>6, <3>1, BoundedIs
    <3>3. QED
      BY <1>5, <3>2
  <2> DEFINE k == [l EXCEPT !.hr[1] = rest]
             its == [j \in Iter |-> back(hl.ilist[j])]
             ts == [rs EXCEPT ![1] = rest]
             x == back(it)
  <2>2. k \in HostLists /\ k.hr = ts
    <3>1. 1 \in 1 .. Len(l.hr)
      BY <1>3, <1>4
    <3> HIDE DEF k
    <3>2. k \in HostLists /\ k.hr = [l.hr EXCEPT ![1] = rest]
      BY <1>4, <2>1, <3>1, WithRange DEF k
    <3>3. QED
      BY <1>4, <3>2
  <2>3. m = [k EXCEPT !.ilist = its]
    BY <1>4, <1>11
  <2>4. ASSUME NEW e \in Iterator
        PROVE  /\ back(e) \in Iterator /\ back(e).idx = e.idx
               /\ e.idx = 1 /\ e.depth >= 0 => back(e).depth = e.depth - 1
               /\ ~(e.idx = 1 /\ e.depth >= 0) => back(e).depth = e.depth
    <3> DEFINE d == e.depth - 1
    <3>1. d \in Int
      BY DEF Iterator
    <3>2. e.idx = 1 /\ e.depth >= 0 => back(e) = [e EXCEPT !.depth = d]
      OBVIOUS
    <3>3. ~(e.idx = 1 /\ e.depth >= 0) => back(e) = e
      OBVIOUS
    <3> HIDE DEF back, d
    <3>4. /\ [e EXCEPT !.depth = d] \in Iterator /\ [e EXCEPT !.depth = d].idx = e.idx
          /\ [e EXCEPT !.depth = d].depth = d
      BY <3>1, AtDepth
    <3>5. QED
      BY <3>2, <3>3, <3>4 DEF d
  <2>5. its \in [Iter -> Iterator] /\ its[i] = x
    <3> HIDE DEF back
    <3>1. QED
      BY <1>1, <2>4
  <2> HIDE DEF back, its, k, m, it
  <2>6. m \in HostLists /\ m.hr = ts /\ m.ilist = its
    <3>1. k \in [hr : Lists, nhosts : Int, ilist : [Iter -> Iterator]]
      BY <2>2 DEF HostLists
    <3>2. m = [hr |-> k.hr, nhosts |-> k.nhosts, ilist |-> its]
      BY <2>3, <3>1
    <3>3. QED
      BY <2>2, <2>5, <3>1, <3>2 DEF HostLists
  <2>7. track[i] = "name" /\ X = x /\ hl'.hr = ts
    BY <1>2, <2>5, <2>6, ThenIter
  <2>8. /\ x.idx = it.idx
        /\ it.idx = 1 /\ it.depth >= 0 => x.depth = it.depth - 1
        /\ ~(it.idx = 1 /\ it.depth >= 0) => x.depth = it.depth
    BY <1>9, <2>4, <2>7
  <2> HIDE DEF x
  <2>9. place(i)' = CountBefore(ts, x.idx) + x.depth + 1
    BY <2>7 DEF place
  <2>10. CASE it.idx = 1
    <3>1. it.depth < count(h) /\ count(h) \in Int
      BY <1>1, <1>3, <1>5, <1>9, <2>7, <2>10 DEF h
    <3>2. ts[1] = rest /\ CountBefore(ts, 1) = 0
      <4>1. 2 \in Nat /\ 2 >= 2
        OBVIOUS
      <4>2. QED
        BY <1>1, <1>3, <2>1, <4>1, FirstChanged, SMTT(30)
    <3> HIDE DEF ts, X
    <3>3. place(i)' = x.depth + 1 /\ place(i) = it.depth + 1 /\ it.depth \in Int /\ it.depth >= -1
      BY <1>8, <1>9, <2>7, <2>8, <2>9, <2>10, <3>2
    <3>4. CASE it.depth >= 0
      <4>1. x.depth = it.depth - 1
        BY <2>8, <2>10, <3>4
      <4>2. place(i) - 1 \in Int /\ place(i) - 1 >= 0 /\ place(i) - 1 = place(i)'
        BY <3>3, <3>4, <4>1
      <4>3. place(i)' = Max({place(i) - 1, 0})
        BY <4>2, MaxZero
      <4>4. Inside(x, ts)
        BY <2>1, <2>8, <2>10, <3>1, <3>2, <3>3, <4>1 DEF Inside
      <4>5. QED
        BY <2>7, <4>3, <4>4 DEF X
    <3>5. CASE ~(it.depth >= 0)
      <4>1. x.depth = -1
        BY <2>8, <2>10, <3>3, <3>5
      <4>2. place(i) - 1 \in Int /\ ~(place(i) - 1 >= 0) /\ place(i)' = 0
        BY <3>3, <3>5, <4>1
      <4>3. place(i)' = Max({place(i) - 1, 0})
        BY <4>2, MaxZero
      <4>4. count(rest) \in Nat
        BY <2>1, HostsAre
      <4>5. Inside(x, ts)
        BY <2>8, <2>10, <3>2, <4>1, <4>4 DEF Inside
      <4>6. QED
        BY <2>7, <4>3, <4>5 DEF X
    <3>6. QED
      BY <3>4, <3>5
  <2>11. CASE it.idx # 1
    <3> DEFINE j == it.idx
    <3>1. j \in Nat /\ j >= 2
      BY <1>9, <2>7, <2>11
    <3>2. x.idx = j /\ x.depth = it.depth
      BY <2>8, <2>11
    <3> HIDE DEF j
    <3>3. /\ Len(ts) = Len(rs) /\ CountBefore(ts, j) = CountBefore(rs, j) + count(rest) - count(rs[1])
          /\ CountBefore(ts, j) \in Nat /\ (j <= Len(rs) => ts[j] = rs[j])
      BY <1>1, <1>3, <2>1, <3>1, FirstChanged
    <3> HIDE DEF ts, X
    <3> DEFINE c == CountBefore(ts, j)
               b == CountBefore(rs, j)
    <3>4. c = b - 1 /\ c \in Nat /\ b \in Int
      <4>1. b \in 0 .. Size(rs)
        BY <1>1, <3>1, CountInside
      <4>2. count(h) \in Int /\ rs[1] = h
        BY <1>5 DEF h
      <4>3. c = b + count(rest) - count(h) /\ c \in Nat
        BY <3>3, <4>2
      <4> HIDE DEF c, b
      <4>4. QED
        BY <1>1, <2>1, <4>1, <4>2, <4>3
    <3>5. place(i)' = c + it.depth + 1 /\ place(i) = b + it.depth + 1
      BY <1>9, <2>7, <2>9, <3>2 DEF j
    <3> HIDE DEF c, b
    <3>6. place(i) - 1 = place(i)' /\ place(i)' \in Int /\ place(i)' >= 0
      BY <1>9, <2>7, <3>4, <3>5
    <3>7. Max({place(i) - 1, 0}) = place(i)'
      BY <3>6, MaxZero
    <3>8. Inside(x, ts)
      BY <1>9, <2>7, <3>2, <3>3 DEF Inside, j
    <3>9. QED
      BY <2>7, <3>7, <3>8 DEF X
  <2>12. QED
    BY <2>10, <2>11
<1>12. QED
  BY <1>10, <1>11

(* How many ranges of one range hostrange_delete_host leaves, and how many *)
(* names they have.                                                        *)
LEMMA BesidesLen ==
  ASSUME NEW h \in HostRange, NEW num \in h.lo .. h.hi
  PROVE  LET low == Below(h, num)
             up == Above(h, num)
         IN  /\ Len(low) = IF num = h.lo THEN 0 ELSE 1
             /\ Len(up) = IF num = h.hi THEN 0 ELSE 1
             /\ num # h.lo => count(low[1]) = num - h.lo
             /\ num # h.hi => count(up[1]) = h.hi - num
<1>1. /\ h.lo \in Nat /\ h.hi \in Nat /\ h.lo <= h.hi /\ h.single \in BOOLEAN
      /\ h.single => h.lo = 0 /\ h.hi = 0
      /\ num \in Nat /\ h.lo <= num /\ num <= h.hi
  BY RangeIs
<1>2. Len(<<>>) = 0
  OBVIOUS
<1>3. ASSUME num # h.lo
      PROVE  Len(Below(h, num)) = 1 /\ count(Below(h, num)[1]) = num - h.lo
  <2> DEFINE g == Bounded(h, h.lo, num - 1)
  <2>1. ~h.single /\ num - 1 \in Nat /\ h.lo <= num - 1
    BY <1>1, <1>3
  <2>2. count(g) = (num - 1) - h.lo + 1
    BY <1>1, <2>1, BoundedIs
  <2>3. Below(h, num) = <<g>>
    BY <1>3 DEF Below
  <2> HIDE DEF g
  <2>4. QED
    BY <1>1, <2>2, <2>3
<1>4. ASSUME num # h.hi
      PROVE  Len(Above(h, num)) = 1 /\ count(Above(h, num)[1]) = h.hi - num
  <2> DEFINE g == Bounded(h, num + 1, h.hi)
  <2>1. ~h.single /\ num + 1 \in Nat /\ num + 1 <= h.hi
    BY <1>1, <1>4
  <2>2. count(g) = h.hi - (num + 1) + 1
    BY <1>1, <2>1, BoundedIs
  <2>3. Above(h, num) = <<g>>
    BY <1>4 DEF Above
  <2> HIDE DEF g
  <2>4. QED
    BY <1>1, <2>2, <2>3
<1>5. num = h.lo => Below(h, num) = <<>>
  BY DEF Below
<1>6. num = h.hi => Above(h, num) = <<>>
  BY DEF Above
<1>7. QED
  BY <1>2, <1>3, <1>4, <1>5, <1>6

(* What is before the name that hostrange_delete_host takes away.          *)
LEMMA DeletedPlace ==
  ASSUME NEW l \in HostLists, NEW k \in 1 .. Len(l.hr), NEW num \in l.hr[k].lo .. l.hr[k].hi
  PROVE  LET ts == delete_host(l, k, num).hr
             c == num - l.hr[k].lo
         IN  /\ Len(ts) > Len(l.hr) => /\ CountBefore(ts, k + 1) = CountBefore(l.hr, k) + c
                                       /\ k + 1 \in 1 .. Len(ts)
             /\ Len(ts) = Len(l.hr) => /\ CountBefore(ts, k) = CountBefore(l.hr, k)
                                       /\ c - 1 < count(ts[k])
             /\ Len(ts) < Len(l.hr) => /\ c = 0 /\ count(l.hr[k]) = 1
                                       /\ k > 1 => /\ ts[k - 1] = l.hr[k - 1]
                                                   /\ CountBefore(ts, k - 1) = CountBefore(l.hr, k - 1)
<1> DEFINE rs == l.hr
           h == rs[k]
           A == SubSeq(rs, 1, k - 1)
           B == SubSeq(rs, k + 1, Len(rs))
           L == Below(h, num)
           U == Above(h, num)
           E == A \o L
           F == E \o U
           ts == delete_host(l, k, num).hr
           c == num - h.lo
<1>1. rs \in Lists /\ Len(rs) \in Nat /\ h \in HostRange
  BY ListIs DEF HostLists
<1>2. ts = F \o B
  BY DeleteHostList
<1>3. /\ h.lo \in Nat /\ h.hi \in Nat /\ h.lo <= h.hi /\ count(h) = h.hi - h.lo + 1
      /\ num \in Nat /\ h.lo <= num /\ num <= h.hi /\ c \in Nat
  BY <1>1, RangeIs, SMTT(30)
<1>4. /\ L \in Lists /\ U \in Lists /\ Size(L) = c
      /\ Len(L) = IF num = h.lo THEN 0 ELSE 1
      /\ Len(U) = IF num = h.hi THEN 0 ELSE 1
      /\ num # h.lo => count(L[1]) = c
      /\ num # h.hi => count(U[1]) = h.hi - num
  <2>1. num \in h.lo .. h.hi
    OBVIOUS
  <2> HIDE DEF h
  <2>2. QED
    BY <1>1, <2>1, BesidesIs, BesidesLen
<1>5. /\ A \in Lists /\ Len(A) = k - 1 /\ Size(A) = CountBefore(rs, k)
      /\ \A j \in 1 .. k - 1 : A[j] = rs[j] /\ CountBefore(A, j) = CountBefore(rs, j)
      /\ CountBefore(A, k) = CountBefore(rs, k)
  <2>1. 1 \in 1 .. Len(rs) + 1 /\ k - 1 \in 1 - 1 .. Len(rs) /\ k \in Nat
        /\ (k - 1) - 1 + 1 = k - 1 /\ (k - 1) - 1 + 2 = k /\ (k - 1) + 1 = k
    BY <1>1
  <2>2. /\ A \in Lists /\ Len(A) = k - 1
        /\ \A j \in 1 .. k - 1 : A[j] = rs[1 + j - 1]
        /\ Size(A) = CountBefore(rs, k) - CountBefore(rs, 1)
        /\ \A j \in 1 .. k : CountBefore(A, j) = CountBefore(rs, 1 + j - 1) - CountBefore(rs, 1)
    <3>1. /\ A \in Lists /\ Len(A) = (k - 1) - 1 + 1
          /\ \A j \in 1 .. (k - 1) - 1 + 1 : A[j] = rs[1 + j - 1]
          /\ Size(A) = CountBefore(rs, (k - 1) + 1) - CountBefore(rs, 1)
          /\ \A j \in 1 .. (k - 1) - 1 + 2 : CountBefore(A, j) = CountBefore(rs, 1 + j - 1) - CountBefore(rs, 1)
      BY <1>1, <2>1, PartSize
    <3>2. QED
      BY <2>1, <3>1
  <2>3. CountBefore(rs, 1) = 0 /\ \A j \in 1 .. k : CountBefore(rs, j) \in Nat
    <3>1. \A j \in 1 .. k : j \in 1 .. Len(rs) + 1
      BY <1>1
    <3>2. QED
      BY <1>1, <3>1, Counts
  <2>4. \A j \in 1 .. k : 1 + j - 1 = j
    OBVIOUS
  <2>5. k \in 1 .. k /\ \A j \in 1 .. k - 1 : j \in 1 .. k
    BY <2>1
  <2> HIDE DEF A
  <2>6. QED
    BY <2>2, <2>3, <2>4, <2>5
<1>6. B \in Lists
  <2>1. k + 1 \in 1 .. Len(rs) + 1 /\ Len(rs) \in (k + 1) - 1 .. Len(rs)
    BY <1>1
  <2>2. QED
    BY <1>1, <2>1, PartSize
<1>6a. Len(B) = Len(rs) - k
  <2>1. k + 1 \in 1 .. Len(rs) + 1 /\ Len(rs) \in (k + 1) - 1 .. Len(rs)
    BY <1>1
  <2>2. Len(B) = Len(rs) - (k + 1) + 1
    BY <1>1, <2>1, PartSize
  <2>3. QED
    BY <1>1, <2>2
<1>6b. k \in Nat /\ k >= 1 /\ k <= Len(rs)
  BY <1>1
<1> HIDE DEF L, U, A, B, h, ts, c, rs
<1>7. /\ E \in Lists /\ Len(E) = Len(A) + Len(L) /\ Size(E) = Size(A) + Size(L)
      /\ \A j \in 1 .. Len(A) + 1 : CountBefore(E, j) = CountBefore(A, j)
  BY <1>4, <1>5, JoinedSize
<1>8. /\ \A j \in 1 .. Len(A) : E[j] = A[j]
      /\ \A j \in 1 .. Len(L) : E[Len(A) + j] = L[j]
  BY <1>4, <1>5, Joining DEF Lists
<1> HIDE DEF E
<1>9. /\ F \in Lists /\ Len(F) = Len(E) + Len(U)
      /\ \A j \in 1 .. Len(E) + 1 : CountBefore(F, j) = CountBefore(E, j)
  BY <1>4, <1>7, JoinedSize
<1>10. /\ \A j \in 1 .. Len(E) : F[j] = E[j]
       /\ \A j \in 1 .. Len(U) : F[Len(E) + j] = U[j]
  BY <1>4, <1>7, Joining DEF Lists
<1> HIDE DEF F
<1>11. /\ ts \in Lists /\ Len(ts) = Len(F) + Len(B)
       /\ \A j \in 1 .. Len(F) + 1 : CountBefore(ts, j) = CountBefore(F, j)
  BY <1>2, <1>6, <1>9, JoinedSize
<1>12. \A j \in 1 .. Len(F) : ts[j] = F[j]
  BY <1>2, <1>6, <1>9, Joining DEF Lists
<1>13. CASE num # h.lo /\ num # h.hi
  <2>1. Len(E) = k /\ Len(F) = k + 1 /\ Len(ts) = Len(rs) + 1
    BY <1>1, <1>4, <1>5, <1>6a, <1>6b, <1>7, <1>9, <1>11, <1>13
  <2>2. CountBefore(ts, k + 1) = Size(E)
    <3>1. k + 1 \in 1 .. Len(F) + 1 /\ k + 1 \in 1 .. Len(E) + 1 /\ k + 1 = Len(E) + 1
      BY <1>6b, <2>1
    <3>2. CountBefore(ts, k + 1) = CountBefore(E, Len(E) + 1)
      BY <1>9, <1>11, <3>1
    <3>3. QED
      BY <3>2 DEF Size
  <2>3. Size(E) = CountBefore(rs, k) + c
    BY <1>4, <1>5, <1>7
  <2>4. k + 1 \in 1 .. Len(ts) /\ ~(Len(ts) = Len(rs)) /\ ~(Len(ts) < Len(rs))
    BY <1>1, <1>6b, <2>1
  <2>5. QED
    BY <2>2, <2>3, <2>4 DEF ts, rs, c, h
<1>14. CASE num # h.lo /\ num = h.hi
  <2>1. Len(E) = k /\ Len(F) = k /\ Len(ts) = Len(rs) /\ Len(A) + 1 = k
    BY <1>1, <1>4, <1>5, <1>6a, <1>6b, <1>7, <1>9, <1>11, <1>14
  <2>2. k \in 1 .. Len(F) + 1 /\ k \in 1 .. Len(E) + 1 /\ k \in 1 .. Len(A) + 1
        /\ k \in 1 .. Len(F) /\ k \in 1 .. Len(E) /\ 1 \in 1 .. Len(L)
    BY <1>4, <1>6b, <1>14, <2>1
  <2>3. CountBefore(ts, k) = CountBefore(rs, k)
    BY <1>5, <1>7, <1>9, <1>11, <2>2
  <2>4. ts[k] = L[1]
    <3>1. ts[k] = E[k]
      BY <1>10, <1>12, <2>2
    <3>2. E[Len(A) + 1] = L[1]
      BY <1>8, <2>2
    <3>3. QED
      BY <2>1, <3>1, <3>2
  <2>5. c - 1 < count(ts[k])
    BY <1>3, <1>4, <1>14, <2>4
  <2>6. ~(Len(ts) > Len(rs)) /\ ~(Len(ts) < Len(rs))
    BY <1>1, <2>1
  <2>7. QED
    BY <2>3, <2>5, <2>6 DEF ts, rs, c, h
<1>15. CASE num = h.lo /\ num # h.hi
  <2>1. Len(E) + 1 = k /\ Len(F) = k /\ Len(ts) = Len(rs) /\ Len(A) + 1 = k /\ Len(E) \in Nat
    BY <1>1, <1>4, <1>5, <1>6a, <1>6b, <1>7, <1>9, <1>11, <1>15
  <2>2. k \in 1 .. Len(F) + 1 /\ k \in 1 .. Len(E) + 1 /\ k \in 1 .. Len(A) + 1
        /\ k \in 1 .. Len(F) /\ 1 \in 1 .. Len(U)
    BY <1>4, <1>6b, <1>15, <2>1
  <2>3. CountBefore(ts, k) = CountBefore(rs, k)
    BY <1>5, <1>7, <1>9, <1>11, <2>2
  <2>4. ts[k] = U[1]
    <3>1. ts[k] = F[k]
      BY <1>12, <2>2
    <3>2. F[Len(E) + 1] = U[1]
      BY <1>10, <2>2
    <3>3. QED
      BY <2>1, <3>1, <3>2
  <2>5. c = 0
    BY <1>3, <1>15 DEF c
  <2>5a. c - 1 < count(ts[k])
    BY <1>3, <1>4, <1>15, <2>4, <2>5
  <2>6. ~(Len(ts) > Len(rs)) /\ ~(Len(ts) < Len(rs))
    BY <1>1, <2>1
  <2>7. QED
    BY <2>3, <2>5a, <2>6 DEF ts, rs, c, h
<1>16. CASE num = h.lo /\ num = h.hi
  <2>1. Len(E) + 1 = k /\ Len(F) + 1 = k /\ Len(ts) = Len(rs) - 1 /\ Len(A) + 1 = k
        /\ Len(E) \in Nat
    BY <1>1, <1>4, <1>5, <1>6a, <1>6b, <1>7, <1>9, <1>11, <1>16
  <2>2. c = 0 /\ count(h) = 1
    BY <1>3, <1>16 DEF c
  <2>3. ASSUME k > 1
        PROVE  ts[k - 1] = rs[k - 1] /\ CountBefore(ts, k - 1) = CountBefore(rs, k - 1)
    <3>1. /\ k - 1 \in 1 .. Len(F) + 1 /\ k - 1 \in 1 .. Len(E) + 1 /\ k - 1 \in 1 .. Len(A) + 1
          /\ k - 1 \in 1 .. Len(F) /\ k - 1 \in 1 .. Len(E) /\ k - 1 \in 1 .. Len(A)
          /\ k - 1 \in 1 .. k - 1
      BY <1>6b, <2>1, <2>3
    <3>2. QED
      BY <1>5, <1>7, <1>8, <1>9, <1>10, <1>11, <1>12, <3>1
  <2>4. ~(Len(ts) > Len(rs)) /\ ~(Len(ts) = Len(rs))
    BY <1>1, <2>1
  <2>5. QED
    BY <2>2, <2>3, <2>4 DEF ts, rs, c, h
<1>17. QED
  BY <1>13, <1>14, <1>15, <1>16

(* hostlist_remove leaves its iterator before the next name.               *)
LEMMA RemovePlace ==
  ASSUME HlInv, HlSpots, NEW i \in Iter, hostlist_remove(i), track'[i] = "name"
  PROVE  place(i)' = place(i) - 1 /\ Inside(hl'.ilist[i], hl'.hr)
<1> DEFINE it == hl.ilist[i]
           k == it.idx
           h == hl.hr[k]
           d == delete_host(hl, k, h.lo + it.depth)
           l == [d EXCEPT !.nhosts = @ - 1]
           split == Len(l.hr) > Len(hl.hr)
           gone == Len(l.hr) < Len(hl.hr)
           new == IF split THEN [At(l.hr, it, k + 1) EXCEPT !.depth = -1]
                  ELSE IF gone THEN l.ilist[i] ELSE [it EXCEPT !.depth = @ - 1]
           again == gone /\ k > 1 /\ count(hl.hr[k - 1]) > 1
           m == [l EXCEPT !.ilist[i] = new]
           lost == IF again THEN Iter ELSE Iter \ {i}
           rs == hl.hr
           ts == d.hr
           X == hl'.ilist[i]
<1>1. track[i] = "name" /\ ~AtEnd(it) /\ it.depth \in 0 .. count(h) - 1 /\ Then(m, lost)
  BY DEF hostlist_remove
<1>1a. track[i] = "name" /\ ~(k > Len(rs)) /\ it.depth \in 0 .. count(h) - 1
  <2>1. track[i] = "name" /\ ~AtEnd(it) /\ it.depth \in 0 .. count(h) - 1
    <3> HIDE DEF m, lost
    <3>1. QED
      BY <1>1
  <2>2. QED
    BY <2>1 DEF AtEnd
<1>2. /\ it \in Iterator /\ k \in Nat \ {0} /\ it.depth \in Int
      /\ hl.hr \in Lists /\ Len(hl.hr) \in Nat \ {0} /\ hl \in HostLists
  BY <1>1a, InPlaceIs, ListHas
<1>3. k \in 1 .. Len(hl.hr) /\ h \in HostRange
  <2> DEFINE n == Len(hl.hr)
  <2>1. ~(k > n)
    BY <1>1a
  <2>2. k \in Nat \ {0} /\ n \in Nat
    BY <1>2
  <2>3. k \in 1 .. n
    <3> HIDE DEF k, n
    <3>1. QED
      BY <2>1, <2>2
  <2>4. QED
    BY <1>2, <2>3, ListIs
<1> DEFINE num == h.lo + it.depth
<1>4. num \in hl.hr[k].lo .. hl.hr[k].hi /\ num - h.lo = it.depth
  <2> DEFINE c == it.depth
  <2>1. h.lo \in Nat /\ h.hi \in Nat /\ count(h) = h.hi - h.lo + 1
    BY <1>3, RangeIs
  <2>2. c \in Int /\ c \in 0 .. count(h) - 1
    BY <1>1a, <1>2
  <2>3. h.lo + c \in h.lo .. h.hi /\ (h.lo + c) - h.lo = c
    <3> HIDE DEF c, h
    <3>1. QED
      BY <2>1, <2>2, SMTT(30)
  <2>4. QED
    BY <2>3
<1>5. /\ d \in HostLists /\ d.nhosts = hl.nhosts
      /\ Len(d.hr) < Len(hl.hr) => d = delete_range(hl, k)
      /\ Len(ts) > Len(rs) => /\ CountBefore(ts, k + 1) = CountBefore(rs, k) + it.depth
                              /\ k + 1 \in 1 .. Len(ts)
      /\ Len(ts) = Len(rs) => /\ CountBefore(ts, k) = CountBefore(rs, k)
                              /\ it.depth - 1 < count(ts[k])
      /\ Len(ts) < Len(rs) => /\ it.depth = 0 /\ count(rs[k]) = 1
                              /\ k > 1 => /\ ts[k - 1] = rs[k - 1]
                                          /\ CountBefore(ts, k - 1) = CountBefore(rs, k - 1)
  <2>1. k \in 1 .. Len(hl.hr) /\ num \in hl.hr[k].lo .. hl.hr[k].hi
    BY <1>3, <1>4
  <2>2. num - hl.hr[k].lo = it.depth
    BY <1>4
  <2> DEFINE c == it.depth
             e == delete_host(hl, k, num)
             us == e.hr
  <2>3. d = e
    OBVIOUS
  <2> HIDE DEF c, k, num
  <2>4. e \in HostLists /\ e.nhosts = hl.nhosts /\ (Len(e.hr) < Len(hl.hr) => e = delete_range(hl, k))
    BY <1>2, <2>1, DeleteHost
  <2>5. /\ Len(us) > Len(hl.hr) => /\ CountBefore(us, k + 1) = CountBefore(hl.hr, k) + (num - hl.hr[k].lo)
                                   /\ k + 1 \in 1 .. Len(us)
        /\ Len(us) = Len(hl.hr) => /\ CountBefore(us, k) = CountBefore(hl.hr, k)
                                   /\ (num - hl.hr[k].lo) - 1 < count(us[k])
        /\ Len(us) < Len(hl.hr) => /\ (num - hl.hr[k].lo) = 0 /\ count(hl.hr[k]) = 1
                                   /\ k > 1 => /\ us[k - 1] = hl.hr[k - 1]
                                               /\ CountBefore(us, k - 1) = CountBefore(hl.hr, k - 1)
    BY <1>2, <2>1, DeletedPlace
  <2> HIDE DEF e
  <2>6. num - hl.hr[k].lo = c
    BY <2>2 DEF c, k
  <2>7. QED
    BY <2>3, <2>4, <2>5, <2>6 DEF c, k
<1> HIDE DEF d
<1>6. l \in HostLists /\ l.hr = ts /\ l.ilist = d.ilist
  <2>1. d.nhosts - 1 \in Int
    <3>1. d.nhosts \in Int
      BY <1>5 DEF HostLists
    <3>2. QED
      BY <3>1
  <2>2. QED
    BY <1>5, <2>1, WithCount
<1> HIDE DEF l
<1>7. ts \in Lists /\ l.ilist \in [Iter -> Iterator] /\ Len(ts) \in Nat
  BY <1>6, ListIs DEF HostLists
<1>8. place(i) = CountBefore(rs, k) + it.depth + 1 /\ CountBefore(rs, k) \in Nat
  <2>1. k \in 1 .. Len(rs) + 1
    BY <1>2, <1>3
  <2>2. CountBefore(rs, k) \in Nat
    <3> HIDE DEF k
    <3>1. QED
      BY <1>2, <2>1, Counts
  <2>3. QED
    BY <2>2 DEF place
<1>9. CASE split
  <2> DEFINE a == At(l.hr, it, k + 1)
             x == [a EXCEPT !.depth = -1]
  <2>1. k + 1 \in Nat /\ k + 1 \in 1 .. Len(ts) /\ Len(ts) > Len(rs)
        /\ CountBefore(ts, k + 1) = CountBefore(rs, k) + it.depth
    BY <1>2, <1>5, <1>6, <1>9
  <2>2. a \in Iterator /\ a.idx = k + 1
    BY <1>2, <2>1, Moved, ZenonT(60)
  <2>3. -1 \in Int
    OBVIOUS
  <2> HIDE DEF a
  <2>4. x \in Iterator /\ x.idx = a.idx /\ x.depth = -1
    BY <2>2, <2>3, AtDepth
  <2>5. new = x
    BY <1>9 DEF a
  <2> HIDE DEF x, new, k, lost, ts, rs
  <2>6. m \in HostLists /\ m.hr = ts /\ m.ilist[i] = x
    BY <1>6, <1>7, <2>4, <2>5 DEF HostLists
  <2> HIDE DEF m, it, X
  <2>7. X = x /\ hl'.hr = ts
    BY <1>1, <2>6, ThenIter DEF X
  <2>8. place(i)' = CountBefore(ts, x.idx) + x.depth + 1
    BY <2>7 DEF place, X
  <2>9. place(i)' = place(i) - 1
    BY <1>2, <1>8, <2>1, <2>2, <2>4, <2>8
  <2>10. Inside(x, ts)
    <3>1. count(ts[k + 1]) \in Nat
      BY <1>7, <2>1, Counts
    <3>2. QED
      BY <2>2, <2>4, <3>1 DEF Inside
  <2>11. QED
    BY <2>7, <2>9, <2>10 DEF X
<1>10. CASE ~split /\ gone
  <2> DEFINE x == l.ilist[i]
  <2>1. /\ new = x /\ d = delete_range(hl, k) /\ it.depth = 0 /\ count(rs[k]) = 1
        /\ k > 1 => ts[k - 1] = rs[k - 1] /\ CountBefore(ts, k - 1) = CountBefore(rs, k - 1)
    BY <1>5, <1>6, <1>10
  <2>2. x \in Iterator
    BY <1>7
  <2>3. /\ k = 1 => x.idx = 1 /\ x.depth = -1
        /\ k # 1 => x.idx = k - 1 /\ x.depth = it.depth
    <3>1. hl.ilist[i].idx >= k
      BY <1>2
    <3>2. d.ilist[i] = x
      BY <1>6
    <3>3. hl \in HostLists /\ k \in 1 .. Len(hl.hr) /\ hl.ilist[i].idx = k
      BY <1>2, <1>3
    <3> HIDE DEF x, k
    <3>4. /\ k = 1 => d.ilist[i].idx = 1 /\ d.ilist[i].depth = -1
          /\ k # 1 => d.ilist[i].idx = k - 1 /\ d.ilist[i].depth = hl.ilist[i].depth
      BY <2>1, <3>1, <3>3, RangeGone
    <3>5. QED
      BY <3>2, <3>4
  <2>4. m \in HostLists /\ m.hr = ts /\ m.ilist[i] = x
    <3> HIDE DEF x, new
    <3>1. QED
      BY <1>6, <1>7, <2>1, <2>2 DEF HostLists
  <2> HIDE DEF m, X, x
  <2>5. i \notin lost /\ X = x /\ hl'.hr = ts
    <3>1. i \notin lost /\ hl'.ilist[i] = m.ilist[i] /\ hl'.hr = m.hr
      <4> HIDE DEF lost
      <4>1. QED
        BY <1>1, <2>4, ThenIter
    <3>2. QED
      BY <2>4, <3>1 DEF X
  <2>6. ~again
    <3> HIDE DEF again
    <3>1. QED
      BY <2>5
  <2>7. place(i)' = CountBefore(ts, x.idx) + x.depth + 1
    BY <2>5 DEF place, X
  <2>8. CASE k = 1
    <3>1. CountBefore(ts, 1) = 0 /\ CountBefore(rs, 1) = 0
      BY <1>2, <1>7, Counts
    <3>2. 1 <= Len(ts) => count(ts[1]) \in Nat
      <4>1. 1 <= Len(ts) => 1 \in 1 .. Len(ts)
        BY <1>7
      <4>2. QED
        BY <1>7, <4>1, Counts
    <3>3. x.idx = 1 /\ x.depth = -1
      BY <2>3, <2>8
    <3>4. place(i) = 1
      BY <1>8, <2>1, <2>8, <3>1
    <3>5. place(i)' = 0
      BY <2>7, <3>1, <3>3
    <3>6. Inside(x, ts)
      BY <3>2, <3>3 DEF Inside
    <3>7. QED
      BY <2>5, <3>4, <3>5, <3>6 DEF X
  <2>9. CASE k # 1
    <3>1. k > 1 /\ k - 1 \in 1 .. Len(rs)
      BY <1>2, <1>3, <2>9
    <3>2. ~(count(rs[k - 1]) > 1)
      BY <1>10, <2>6, <3>1
    <3>3. count(rs[k - 1]) \in Nat \ {0}
          /\ CountBefore(rs, (k - 1) + 1) = CountBefore(rs, k - 1) + count(rs[k - 1])
      <4> DEFINE j == k - 1
      <4>1. j \in 1 .. Len(rs)
        BY <3>1
      <4> HIDE DEF j
      <4>2. count(rs[j]) \in Nat \ {0} /\ CountBefore(rs, j + 1) = CountBefore(rs, j) + count(rs[j])
        BY <1>2, <4>1, Counts
      <4>3. QED
        BY <4>2 DEF j
    <3>4. count(rs[k - 1]) = 1 /\ (k - 1) + 1 = k
      BY <1>2, <3>2, <3>3
    <3>5. x.idx = k - 1 /\ x.depth = 0
      BY <2>1, <2>3, <2>9
    <3>6. CountBefore(ts, x.idx) = CountBefore(rs, k - 1) /\ count(ts[x.idx]) = 1
      BY <2>1, <3>1, <3>4, <3>5
    <3>7. CountBefore(rs, k) = CountBefore(rs, k - 1) + 1
      BY <3>3, <3>4
    <3>7a. CountBefore(rs, k - 1) \in Nat
      <4> DEFINE j == k - 1
      <4>1. j \in 1 .. Len(rs) + 1
        BY <1>2, <3>1
      <4> HIDE DEF j
      <4>2. CountBefore(rs, j) \in Nat
        BY <1>2, <4>1, Counts
      <4>3. QED
        BY <4>2 DEF j
    <3>8. Inside(x, ts)
      BY <3>5, <3>6 DEF Inside
    <3> DEFINE a == CountBefore(rs, k - 1)
               b == CountBefore(rs, k)
    <3>9. b = a + 1 /\ a \in Nat /\ place(i) = b + 0 + 1 /\ place(i)' = a + 0 + 1
      BY <1>8, <2>1, <2>7, <3>5, <3>6, <3>7, <3>7a
    <3> HIDE DEF a, b
    <3>10. place(i)' = place(i) - 1
      BY <3>9
    <3>11. QED
      BY <2>5, <3>8, <3>10 DEF X
  <2>10. QED
    BY <2>8, <2>9
<1>11. CASE ~split /\ ~gone
  <2> DEFINE e == it.depth - 1
             x == [it EXCEPT !.depth = e]
  <2>1. Len(ts) = Len(rs) /\ e \in Int
    BY <1>2, <1>6, <1>7, <1>11
  <2>2. CountBefore(ts, k) = CountBefore(rs, k) /\ e < count(ts[k])
    BY <1>5, <2>1
  <2>3. new = x
    BY <1>11
  <2>4. x \in Iterator /\ x.idx = k /\ x.depth = e
    BY <1>2, <2>1, AtDepth
  <2> HIDE DEF x, new
  <2>5. m \in HostLists /\ m.hr = ts /\ m.ilist[i] = x
    BY <1>6, <1>7, <2>3, <2>4 DEF HostLists
  <2> HIDE DEF m, lost, it, X
  <2>6. X = x /\ hl'.hr = ts
    BY <1>1, <2>5, ThenIter DEF X
  <2>7. place(i)' = CountBefore(ts, x.idx) + x.depth + 1
    BY <2>6 DEF place, X
  <2>8. place(i)' = place(i) - 1
    BY <1>2, <1>8, <2>2, <2>4, <2>7
  <2>9. Inside(x, ts)
    BY <2>2, <2>4 DEF Inside
  <2>10. QED
    BY <2>6, <2>8, <2>9 DEF X
<1>12. QED
  BY <1>9, <1>10, <1>11, SMTT(30)

(* A step that sets one iterator.                                          *)
LEMMA SetPlace ==
  ASSUME HlInv, NEW i \in Iter, NEW it, hl' = [hl EXCEPT !.ilist[i] = it]
  PROVE  /\ hl'.hr = hl.hr /\ hl'.ilist[i] = it
         /\ \A j \in Iter \ {i} : hl'.ilist[j] = hl.ilist[j]
<1> DEFINE its == [hl.ilist EXCEPT ![i] = it]
<1>1. hl \in [hr : Lists, nhosts : Int, ilist : [Iter -> Iterator]]
  BY DEF HlInv, Counted, HostLists
<1>2. its[i] = it /\ \A j \in Iter \ {i} : its[j] = hl.ilist[j]
  BY <1>1
<1>3. hl' = [hr |-> hl.hr, nhosts |-> hl.nhosts, ilist |-> its]
  BY <1>1
<1> HIDE DEF its
<1>4. hl'.hr = hl.hr /\ hl'.ilist = its
  BY <1>3
<1>5. QED
  BY <1>2, <1>4

(* The name at a depth of a range.                                         *)
LEMMA NameThere ==
  ASSUME NEW rs \in Lists, NEW k \in 1 .. Len(rs), NEW d \in 0 .. count(rs[k]) - 1
  PROVE  /\ CountBefore(rs, k) + d \in Nat /\ CountBefore(rs, k) + d < Len(NamesOf(rs))
         /\ NamesOf(rs)[CountBefore(rs, k) + d + 1] = Host(rs[k], d)
<1>1. Named(NamesOf(rs), rs)
  BY NamesIs
<1>2. Len(rs) \in Nat /\ count(rs[k]) \in Nat /\ CountBefore(rs, k) \in Nat
      /\ CountBefore(rs, k + 1) = CountBefore(rs, k) + count(rs[k])
  <2>1. k \in 1 .. Len(rs) + 1
    BY ListIs
  <2>2. QED
    BY <2>1, ListIs, Counts
<1>3. CountBefore(rs, k + 1) \in 0 .. Size(rs) /\ Size(rs) \in Nat
  <2>1. k + 1 \in Nat \ {0}
    BY <1>2
  <2>2. QED
    BY <2>1, CountInside, SizeIs
<1>4. Len(NamesOf(rs)) = Size(rs)
  BY <1>1 DEF Named
<1>5. CountBefore(rs, k) + d \in Nat /\ CountBefore(rs, k) + d < Len(NamesOf(rs))
  BY <1>2, <1>3, <1>4
<1>6. NamesOf(rs)[CountBefore(rs, k) + d + 1] = Host(rs[k], d)
  BY <1>1 DEF Named
<1>7. QED
  BY <1>5, <1>6

(* hostlist_next returns the name after those that it returned before, and *)
(* NULL after the last.                                                    *)
LEMMA NextPlace ==
  ASSUME HlInv, HlSpots, NEW i \in Iter, hostlist_next(i)
  PROVE  /\ IF place(i) < Len(names)
            THEN out' = <<names[place(i) + 1]>> /\ place(i)' = place(i) + 1
            ELSE out' = <<>> /\ place(i)' > Len(names)
         /\ Inside(hl'.ilist[i], hl'.hr)
<1> DEFINE it == hl.ilist[i]
           new == iterator_advance(it)
           rs == hl.hr
<1>1. /\ hl' = [hl EXCEPT !.ilist[i] = new] /\ track[i] = "name"
      /\ out' = IF AtEnd(new) THEN <<>> ELSE <<Host(rs[new.idx], new.depth)>>
  BY DEF hostlist_next
<1>2. /\ it \in Iterator /\ it.idx \in Nat \ {0} /\ it.depth \in Int /\ it.depth >= -1
      /\ place(i) = CountBefore(rs, it.idx) + it.depth + 1
      /\ it.idx <= Len(rs) => it.depth < count(rs[it.idx])
      /\ rs \in Lists /\ Len(rs) \in Nat /\ Size(rs) \in Nat
      /\ it.idx > Len(rs) => it.depth >= 0 /\ CountBefore(rs, it.idx) = Size(rs)
      /\ CountBefore(rs, it.idx) \in 0 .. Size(rs)
  <2>1. /\ it \in Iterator /\ it.idx \in Nat \ {0} /\ it.depth \in Int /\ it.depth >= -1
        /\ place(i) = Spot(it, rs) /\ rs \in Lists /\ Len(rs) \in Nat \ {0}
        /\ CountBefore(rs, it.idx) \in 0 .. Size(rs) /\ Size(rs) \in Nat
        /\ it.idx > Len(rs) => it.depth >= 0 /\ CountBefore(rs, it.idx) = Size(rs)
    BY <1>1, SpotIs
  <2>2. Inside(it, rs)
    BY <1>1 DEF HlSpots
  <2> HIDE DEF it, rs
  <2>3. QED
    BY <2>1, <2>2 DEF Spot, Inside
<1>3. Len(names) = Size(rs)
  BY <1>2, NamesIs DEF Named, names
<1> DEFINE Done == /\ IF place(i) < Len(names)
                      THEN out' = <<names[place(i) + 1]>> /\ place(i)' = place(i) + 1
                      ELSE out' = <<>> /\ place(i)' > Len(names)
                   /\ Inside(hl'.ilist[i], hl'.hr)
<1> HIDE DEF it
<1>4. ASSUME new \in Iterator
      PROVE  hl'.hr = rs /\ hl'.ilist[i] = new
             /\ place(i)' = CountBefore(rs, new.idx) + new.depth + 1
  <2> HIDE DEF new
  <2>1. hl'.hr = rs /\ hl'.ilist[i] = new
    BY <1>1, <1>4, SetPlace
  <2>2. QED
    BY <2>1 DEF place
<1> HIDE DEF new
<1>5. ASSUME new \in Iterator, new.idx \in 1 .. Len(rs), new.depth \in 0 .. count(rs[new.idx]) - 1,
             place(i) = CountBefore(rs, new.idx) + new.depth
      PROVE  Done
  <2> DEFINE k == new.idx
             d == new.depth
  <2>1. /\ CountBefore(rs, k) + d \in Nat /\ CountBefore(rs, k) + d < Len(NamesOf(rs))
        /\ NamesOf(rs)[CountBefore(rs, k) + d + 1] = Host(rs[k], d)
    <3> HIDE DEF k, d, rs
    <3>1. k \in 1 .. Len(rs) /\ d \in 0 .. count(rs[k]) - 1
      BY <1>5 DEF k, d
    <3>2. QED
      BY <1>2, <3>1, NameThere
  <2>2. out' = <<Host(rs[k], d)>>
    <3>1. ~AtEnd(new)
      BY <1>2, <1>5 DEF AtEnd
    <3>2. QED
      BY <1>1, <3>1
  <2>3. place(i) < Len(names) /\ names[place(i) + 1] = Host(rs[k], d)
    BY <1>5, <2>1 DEF names
  <2>4. place(i)' = place(i) + 1
    BY <1>4, <1>5
  <2>5. Inside(hl'.ilist[i], hl'.hr)
    <3>1. count(rs[k]) \in Nat
      BY <1>2, <1>5, Counts
    <3>2. d < count(rs[k])
      BY <1>5, <3>1
    <3>3. QED
      BY <1>4, <1>5, <3>2 DEF Inside
  <2>6. QED
    BY <2>2, <2>3, <2>4, <2>5
<1>6. ASSUME new \in Iterator, new.idx > Len(rs), ~(place(i) < Len(names)),
             CountBefore(rs, new.idx) + new.depth + 1 > Len(names)
      PROVE  Done
  <2>1. out' = <<>>
    BY <1>1, <1>6 DEF AtEnd
  <2>2. place(i)' > Len(names)
    BY <1>4, <1>6
  <2>3. Inside(hl'.ilist[i], hl'.hr)
    <3>1. new.idx \in Nat /\ ~(new.idx <= Len(rs))
      BY <1>2, <1>6 DEF Iterator
    <3>2. QED
      BY <1>4, <1>6, <3>1 DEF Inside
  <2>4. QED
    BY <1>6, <2>1, <2>2, <2>3
<1>7. CASE AtEnd(it)
  <2>1. new = it /\ it.idx > Len(rs)
    BY <1>7 DEF iterator_advance, AtEnd, new
  <2>2. CountBefore(rs, it.idx) + it.depth + 1 > Len(names) /\ ~(place(i) < Len(names))
    BY <1>2, <1>3, <2>1
  <2> HIDE DEF Done
  <2>3. Done
    BY <1>2, <1>6, <2>1, <2>2
  <2>4. QED
    BY <2>3 DEF Done
<1>8. CASE ~AtEnd(it)
  <2> DEFINE k == it.idx
  <2>1. k \in 1 .. Len(rs) /\ k \in Nat /\ ~(k > Len(rs)) /\ k <= Len(rs)
    BY <1>2, <1>8 DEF AtEnd
  <2>2. /\ CountBefore(rs, k + 1) = CountBefore(rs, k) + count(rs[k])
        /\ count(rs[k]) \in Nat \ {0}
    BY <1>2, <2>1, Counts
  <2>3. CASE it.depth + 1 >= count(rs[k])
    <3> DEFINE a == At(rs, it, k + 1)
    <3>1. new = [a EXCEPT !.depth = 0] /\ k + 1 \in Nat
      BY <1>8, <2>1, <2>3 DEF iterator_advance, new
    <3>2. a \in Iterator /\ a.idx = k + 1
      BY <1>2, <3>1, Moved, ZenonT(60)
    <3> HIDE DEF a
    <3>3. new \in Iterator /\ new.idx = k + 1 /\ new.depth = 0
      <4>1. 0 \in Int
        OBVIOUS
      <4>2. QED
        BY <3>1, <3>2, <4>1, AtDepth
    <3>4. place(i) = CountBefore(rs, new.idx) + new.depth
      <4>1. it.depth + 1 = count(rs[k])
        BY <1>2, <2>1, <2>2, <2>3, SMTT(30)
      <4>2. CountBefore(rs, k) \in Nat
        BY <1>2
      <4>3. QED
        BY <1>2, <2>2, <3>3, <4>1, <4>2
    <3> HIDE DEF Done, k
    <3>5. CASE k + 1 <= Len(rs)
      <4>1. k + 1 \in 1 .. Len(rs)
        BY <1>2, <2>1, <3>5
      <4>2. count(rs[k + 1]) \in Nat \ {0}
        BY <1>2, <4>1, Counts
      <4>3. new.depth \in 0 .. count(rs[new.idx]) - 1
        BY <3>3, <4>2
      <4>4. Done
        BY <1>5, <3>3, <3>4, <4>1, <4>3
      <4>5. QED
        BY <4>4 DEF Done
    <3>6. CASE ~(k + 1 <= Len(rs))
      <4>1. k + 1 > Len(rs) /\ k + 1 \in Nat \ {0}
        BY <1>2, <2>1, <3>6
      <4>2. CountBefore(rs, k + 1) = Size(rs)
        BY <1>2, <4>1, CountInside
      <4>3. ~(place(i) < Len(names)) /\ CountBefore(rs, new.idx) + new.depth + 1 > Len(names)
        BY <1>2, <1>3, <3>3, <3>4, <4>2
      <4>4. Done
        BY <1>6, <3>3, <4>1, <4>3
      <4>5. QED
        BY <4>4 DEF Done
    <3>7. QED
      BY <3>5, <3>6
  <2>4. CASE ~(it.depth + 1 >= count(rs[k]))
    <3> DEFINE d == it.depth + 1
    <3>1. d \in Int /\ d \in 0 .. count(rs[k]) - 1
      BY <1>2, <2>2, <2>4, SMTT(30)
    <3>2. new = [it EXCEPT !.depth = d]
      BY <1>8, <2>4 DEF iterator_advance, new
    <3>3. place(i) = CountBefore(rs, k) + d
      BY <1>2
    <3> HIDE DEF d
    <3>4. new \in Iterator /\ new.idx = k /\ new.depth = d
      BY <1>2, <3>1, <3>2, AtDepth
    <3> HIDE DEF Done
    <3>5. Done
      BY <1>5, <2>1, <3>1, <3>3, <3>4
    <3>6. QED
      BY <3>5 DEF Done
  <2>5. QED
    BY <2>3, <2>4
<1>9. QED
  BY <1>7, <1>8

(* An iterator at the start.                                               *)
LEMMA InsideBegun ==
  ASSUME NEW rs \in Lists
  PROVE  Inside(Begin(rs), rs)
<1> DEFINE x == Begin(rs)
<1>1. x.idx = 1 /\ x.depth = -1
  BY Begun
<1>2. 1 <= Len(rs) => count(rs[1]) \in Nat
  <2>1. 1 <= Len(rs) => 1 \in 1 .. Len(rs)
    BY ListIs
  <2>2. QED
    BY <2>1, Counts
<1> HIDE DEF x
<1>3. Inside(x, rs)
  BY <1>1, <1>2 DEF Inside
<1>4. QED
  BY <1>3 DEF x

(* A step that changes neither list nor iterators keeps HlSpots.           *)
LEMMA SpotsStay ==
  ASSUME HlSpots, UNCHANGED <<hl, track>>
  PROVE  HlSpots'
  BY DEF HlSpots

(* So does one that sets one iterator,                                     *)
LEMMA SpotsSet ==
  ASSUME HlInv, HlSpots, NEW i \in Iter, NEW it \in Iterator, NEW t,
         hl' = [hl EXCEPT !.ilist[i] = it], track' = [track EXCEPT ![i] = t],
         t = "name" => Inside(it, hl.hr)
  PROVE  HlSpots'
<1>1. /\ hl'.hr = hl.hr /\ hl'.ilist[i] = it
      /\ \A j \in Iter \ {i} : hl'.ilist[j] = hl.ilist[j]
  BY SetPlace
<1>2. track \in [Iter -> Tracks]
  BY DEF HlInv
<1>3. \A j \in Iter : track'[j] = IF j = i THEN t ELSE track[j]
  BY <1>2
<1>4. ASSUME NEW j \in Iter, track'[j] = "name" PROVE Inside(hl'.ilist[j], hl'.hr)
  <2>1. CASE j = i
    BY <1>1, <1>3, <1>4, <2>1
  <2>2. CASE j # i
    BY <1>1, <1>3, <1>4, <2>2 DEF HlSpots
  <2>3. QED
    BY <2>1, <2>2
<1>5. QED
  BY <1>4 DEF HlSpots

(* one that leaves behind all others,                                      *)
LEMMA NotLost ==
  ASSUME NEW l, NEW lost, Then(l, lost), NEW i \in Iter, track'[i] = "name"
  PROVE  i \notin lost
<1> DEFINE gone == {j \in Iter : track[j] # "none" /\ (j \in lost \/ l.hr = <<>>)}
<1>1. track' = [j \in Iter |-> IF j \in gone THEN "lost" ELSE track[j]]
  BY DEF Then
<1>2. i \notin gone /\ track[i] = "name"
  BY <1>1
<1>3. QED
  BY <1>2

(* and one that puts all at the start of another list.                     *)
LEMMA ReorderedSpots ==
  ASSUME HlSpots, HlInv', NEW rs, NEW twice, Reordered(rs, twice)
  PROVE  HlSpots'
<1>1. CASE broken'
  BY <1>1, SpotsStay DEF Reordered
<1>2. CASE ~broken'
  <2> DEFINE its == [i \in Iter |-> IF track[i] = "none" THEN NoIter ELSE Begin(rs)]
             n == hl.nhosts - twice
  <2>1. /\ hl' = [hr |-> rs, nhosts |-> n, ilist |-> its]
        /\ track' = [i \in Iter |-> IF track[i] = "none" THEN "none" ELSE "name"]
    BY <1>2 DEF Reordered
  <2>2. \A i \in Iter : track[i] # "none" => its[i] = Begin(rs)
    OBVIOUS
  <2> HIDE DEF its, n
  <2>3. hl'.hr = rs /\ hl'.ilist = its
    BY <2>1
  <2>4. rs \in Lists
    BY <2>3 DEF HlInv, Counted, HostLists
  <2>5. ASSUME NEW i \in Iter, track'[i] = "name" PROVE Inside(hl'.ilist[i], hl'.hr)
    <3>1. hl'.ilist[i] = Begin(rs)
      BY <2>1, <2>2, <2>3, <2>5
    <3>2. QED
      BY <2>3, <2>4, <3>1, InsideBegun
  <2>6. QED
    BY <2>5 DEF HlSpots
<1>3. QED
  BY <1>1, <1>2

(* hostlist_iterator_create and hostlist_iterator_reset keep it.           *)
LEMMA StartsSpots ==
  ASSUME HlInv, HlSpots, NEW i \in Iter, Starts(i)
  PROVE  HlSpots'
<1>1. hl.hr \in Lists
  BY ListHas
<1>2. CASE hl.hr = <<>>
  <2>1. hl' = [hl EXCEPT !.ilist[i] = NoIter] /\ track' = [track EXCEPT ![i] = "lost"]
    BY <1>2 DEF Starts
  <2>2. NoIter \in Iterator
    BY DEF NoIter, Iterator
  <2>3. QED
    BY <2>1, <2>2, SpotsSet
<1>3. CASE hl.hr # <<>>
  <2> DEFINE x == Begin(hl.hr)
  <2>1. hl' = [hl EXCEPT !.ilist[i] = x] /\ track' = [track EXCEPT ![i] = "name"]
    BY <1>3 DEF Starts
  <2>2. x \in Iterator /\ Inside(x, hl.hr)
    BY <1>1, Begun, InsideBegun
  <2> HIDE DEF x
  <2>3. QED
    BY <2>1, <2>2, SpotsSet
<1>4. QED
  BY <1>2, <1>3

(* hostlist_delete, when it finds none of the names.                       *)
LEMMA DeleteSpots ==
  ASSUME HlInv, HlSpots, NEW rs \in Lists, hostlist_delete(rs)
  PROVE  HlSpots'
<1> DEFINE l == Deleted(hl, NamesOf(rs))
           lost == IF l.nhosts < hl.nhosts THEN Iter ELSE {}
<1>1. Then(l, lost)
  BY DEF hostlist_delete, Deleted
<1>2. l \in Counted(short) /\ (l = hl \/ l.nhosts < hl.nhosts)
  BY NamesAre, DeleteAll, ListHas DEF HlInv
<1> HIDE DEF l
<1>3. ASSUME NEW i \in Iter, track'[i] = "name" PROVE Inside(hl'.ilist[i], hl'.hr)
  <2>1. i \notin lost
    <3> HIDE DEF lost
    <3>1. QED
      BY <1>1, <1>3, NotLost
  <2>2. l = hl
    BY <1>2, <2>1
  <2>3. track[i] = "name" /\ hl'.ilist[i] = l.ilist[i] /\ hl'.hr = l.hr
    <3> HIDE DEF lost
    <3>1. l \in HostLists
      BY <1>2 DEF Counted
    <3>2. QED
      BY <1>1, <1>3, <3>1, ThenIter
  <2>4. QED
    BY <2>2, <2>3 DEF HlSpots
<1>4. QED
  BY <1>3 DEF HlSpots

(* hostlist_pop_range and hostlist_shift_range leave all behind.           *)
LEMMA TakenSpots ==
  ASSUME NEW rs, NEW ranges, Taken(rs, ranges)
  PROVE  HlSpots'
<1> DEFINE m == [hl EXCEPT !.hr = rs, !.nhosts = @ - Size(ranges)]
<1>1. Then(m, Iter)
  BY DEF Taken
<1> HIDE DEF m
<1>2. \A i \in Iter : track'[i] # "name"
  BY <1>1, NotLost
<1>3. QED
  BY <1>2 DEF HlSpots

(* hostlist_remove leaves all behind but the iterator it is called for.    *)
LEMMA RemoveSpots ==
  ASSUME HlInv, HlSpots, NEW i \in Iter, hostlist_remove(i)
  PROVE  HlSpots'
<1> DEFINE it == hl.ilist[i]
           k == it.idx
           h == hl.hr[k]
           d == delete_host(hl, k, h.lo + it.depth)
           l == [d EXCEPT !.nhosts = @ - 1]
           split == Len(l.hr) > Len(hl.hr)
           gone == Len(l.hr) < Len(hl.hr)
           new == IF split THEN [At(l.hr, it, k + 1) EXCEPT !.depth = -1]
                  ELSE IF gone THEN l.ilist[i] ELSE [it EXCEPT !.depth = @ - 1]
           again == gone /\ k > 1 /\ count(hl.hr[k - 1]) > 1
           m == [l EXCEPT !.ilist[i] = new]
           lost == IF again THEN Iter ELSE Iter \ {i}
<1>1. Then(m, lost)
  BY DEF hostlist_remove
<1>2. ASSUME NEW j \in Iter, track'[j] = "name" PROVE Inside(hl'.ilist[j], hl'.hr)
  <2>1. j \notin lost
    <3> HIDE DEF m, lost
    <3>1. QED
      BY <1>1, <1>2, NotLost
  <2>2. j = i
    <3> HIDE DEF again
    <3>1. QED
      BY <2>1
  <2>3. QED
    BY <1>2, <2>2, RemovePlace
<1>3. QED
  BY <1>2, SMTT(30) DEF HlSpots

(* No iterator is in use at first.                                         *)
LEMMA InitSpots == Init => HlSpots
<1>1. ASSUME Init PROVE \A i \in Iter : track[i] # "name"
  BY <1>1 DEF Init
<1>2. QED
  BY <1>1 DEF HlSpots

(* Every call keeps HlSpots.                                               *)
LEMMA SpotsStep == HlInv /\ HlSpots /\ [Next]_vars /\ ~broken' => HlSpots'
<1>1. SUFFICES ASSUME HlInv, HlSpots, [Next]_vars, ~broken' PROVE HlSpots'
  OBVIOUS
<1>2. ASSUME NEW rs \in Made, hostlist_push(rs) PROVE HlSpots'
  <2>1. rs \in Lists
    BY MadeAre
  <2>2. \A i \in Iter : track'[i] = "name" => Inside(hl'.ilist[i], hl'.hr)
    BY <1>1, <1>2, <2>1, PushPlace
  <2>3. QED
    BY <2>2 DEF HlSpots
<1>3. ASSUME NEW rs \in Made, hostlist_delete(rs) PROVE HlSpots'
  <2>1. rs \in Lists
    BY MadeAre
  <2>2. QED
    BY <1>1, <1>3, <2>1, DeleteSpots
<1>4. CASE hostlist_pop
  <2>1. \A i \in Iter : track'[i] = "name" => Inside(hl'.ilist[i], hl'.hr)
    BY <1>1, <1>4, PopPlace
  <2>2. QED
    BY <2>1 DEF HlSpots
<1>5. CASE hostlist_shift
  <2>1. \A i \in Iter : track'[i] = "name" => Inside(hl'.ilist[i], hl'.hr)
    BY <1>1, <1>5, ShiftPlace
  <2>2. QED
    BY <2>1 DEF HlSpots
<1>6. CASE hostlist_pop_range
  BY <1>6, TakenSpots DEF hostlist_pop_range
<1>7. CASE hostlist_shift_range
  BY <1>7, TakenSpots DEF hostlist_shift_range
<1>8. ASSUME NEW n \in 0 .. MaxHosts, hostlist_delete_nth(n) PROVE HlSpots'
  <2>1. CASE n < Size(hl.hr)
    <3> DEFINE l == delete_nth(hl, n)
    <3>1. Then(l, Iter)
      BY <1>8, <2>1 DEF hostlist_delete_nth
    <3> HIDE DEF l
    <3>2. \A i \in Iter : track'[i] # "name"
      BY <3>1, NotLost
    <3>3. QED
      BY <3>2 DEF HlSpots
  <2>2. CASE ~(n < Size(hl.hr))
    <3> DEFINE c == hl.nhosts - 1
    <3>1. hl \in HostLists /\ hl.nhosts \in Int
      BY <1>1, ListHas
    <3>2. hl' = [hl EXCEPT !.nhosts = c] /\ UNCHANGED track /\ c \in Int
      BY <1>8, <2>2, <3>1 DEF hostlist_delete_nth
    <3> HIDE DEF c
    <3>3. hl'.hr = hl.hr /\ hl'.ilist = hl.ilist
      BY <3>1, <3>2, WithCount
    <3>4. QED
      BY <1>1, <3>2, <3>3 DEF HlSpots
  <2>3. QED
    BY <2>1, <2>2
<1>9. HlInv'
  BY <1>1, NextStep
<1>10. CASE hostlist_sort
  <2>1. CASE Len(hl.hr) <= 1
    BY <1>1, <1>10, <2>1, SpotsStay DEF hostlist_sort
  <2>2. CASE ~(Len(hl.hr) <= 1)
    <3>1. PICK s \in Sorted(hl.hr) : Reordered(coalesced(s), 0)
      BY <1>10, <2>2 DEF hostlist_sort
    <3> DEFINE rs == coalesced(s)
    <3>2. Reordered(rs, 0)
      BY <3>1
    <3> HIDE DEF rs
    <3>3. QED
      BY <1>1, <1>9, <3>2, ReorderedSpots
  <2>3. QED
    BY <2>1, <2>2
<1>11. CASE hostlist_uniq
  <2>1. CASE Len(hl.hr) <= 1
    BY <1>1, <1>11, <2>1, SpotsStay DEF hostlist_uniq
  <2>2. CASE ~(Len(hl.hr) <= 1)
    <3>1. PICK s \in Sorted(hl.hr) : Reordered(join_all(s), Size(s) - Size(join_all(s)))
      BY <1>11, <2>2 DEF hostlist_uniq
    <3> DEFINE rs == join_all(s)
               twice == Size(s) - Size(rs)
    <3>2. Reordered(rs, twice)
      BY <3>1
    <3> HIDE DEF rs, twice
    <3>3. QED
      BY <1>1, <1>9, <3>2, ReorderedSpots
  <2>3. QED
    BY <2>1, <2>2
<1>12. ASSUME NEW i \in Iter, hostlist_iterator_create(i) \/ hostlist_iterator_reset(i)
       PROVE  HlSpots'
  <2>1. Starts(i)
    BY <1>12 DEF hostlist_iterator_create, hostlist_iterator_reset
  <2>2. QED
    BY <1>1, <2>1, StartsSpots
<1>13. ASSUME NEW i \in Iter, hostlist_iterator_destroy(i) PROVE HlSpots'
  <2>1. hl' = [hl EXCEPT !.ilist[i] = NoIter] /\ track' = [track EXCEPT ![i] = "none"]
    BY <1>13 DEF hostlist_iterator_destroy
  <2>2. NoIter \in Iterator
    BY DEF NoIter, Iterator
  <2>3. QED
    BY <1>1, <2>1, <2>2, SpotsSet
<1>14. ASSUME NEW i \in Iter, hostlist_next(i) PROVE HlSpots'
  <2>1. Inside(hl'.ilist[i], hl'.hr)
    BY <1>1, <1>14, NextPlace
  <2> DEFINE new == iterator_advance(hl.ilist[i])
  <2>2. hl' = [hl EXCEPT !.ilist[i] = new] /\ track' = track
    BY <1>14 DEF hostlist_next
  <2>3. hl'.hr = hl.hr /\ \A j \in Iter \ {i} : hl'.ilist[j] = hl.ilist[j]
    <3> HIDE DEF new
    <3>1. QED
      BY <1>1, <2>2, SetPlace
  <2>4. ASSUME NEW j \in Iter, track'[j] = "name" PROVE Inside(hl'.ilist[j], hl'.hr)
    <3>1. CASE j = i
      BY <2>1, <3>1
    <3>2. CASE j # i
      BY <1>1, <2>2, <2>3, <2>4, <3>2 DEF HlSpots
    <3>3. QED
      BY <3>1, <3>2
  <2>5. QED
    BY <2>4 DEF HlSpots
<1>15. ASSUME NEW i \in Iter, hostlist_next_range(i) PROVE HlSpots'
  <2> DEFINE new == iterator_advance_range(hl.ilist[i])
  <2>1. hl' = [hl EXCEPT !.ilist[i] = new] /\ track' = [track EXCEPT ![i] = "range"]
    BY <1>15 DEF hostlist_next_range
  <2> HIDE DEF new
  <2>2. hl'.hr = hl.hr /\ \A j \in Iter \ {i} : hl'.ilist[j] = hl.ilist[j]
    BY <1>1, <2>1, SetPlace
  <2>3. ASSUME NEW j \in Iter, track'[j] = "name"
        PROVE  j # i /\ track[j] = "name"
    BY <1>1, <2>1, <2>3 DEF HlInv
  <2>4. QED
    BY <1>1, <2>2, <2>3 DEF HlSpots
<1>16. ASSUME NEW i \in Iter, hostlist_remove(i) PROVE HlSpots'
  BY <1>1, <1>16, RemoveSpots
<1>17. CASE UNCHANGED vars
  BY <1>1, <1>17, SpotsStay DEF vars
<1>18. QED
  BY <1>1, <1>2, <1>3, <1>4, <1>5, <1>6, <1>7, <1>8, <1>10, <1>11, <1>12, <1>13, <1>14, <1>15,
     <1>16, <1>17 DEF Next

(* What the places rest on, as long as no freed range is in the list.      *)
InvOrBroken == broken \/ (HlInv /\ HlSpots)

(* An iterator of names that no call left behind returns one name after    *)
(* the other, whatever is pushed, popped, shifted, or removed at it        *)
(* between, for any strings, iterators and order of calls.                 *)
THEOREM HostlistPlacesKept == Spec => PlacesKept
<1> DEFINE Moves == \A i \in Iter : track[i] = "name" /\ track'[i] = "name" => PlaceMoves(i)
<1>1. HlInv /\ HlSpots => Moves
  <2> SUFFICES ASSUME HlInv, HlSpots, NEW i \in Iter, track[i] = "name", track'[i] = "name"
               PROVE  PlaceMoves(i)
    OBVIOUS
  <2>1. ASSUME NEW rs \in Made, hostlist_push(rs) PROVE place(i)' = place(i)
    <3>1. rs \in Lists
      BY MadeAre
    <3>2. QED
      BY <2>1, <3>1, PushPlace
  <2>2. hostlist_pop => place(i)' = place(i)
    BY PopPlace
  <2>3. hostlist_shift => place(i)' = Max({place(i) - 1, 0})
    BY ShiftPlace
  <2>4. hostlist_remove(i) => place(i)' = place(i) - 1
    BY RemovePlace
  <2>5. hostlist_next(i) => IF place(i) < Len(names)
                            THEN out' = <<names[place(i) + 1]>> /\ place(i)' = place(i) + 1
                            ELSE out' = <<>> /\ place(i)' > Len(names)
    BY NextPlace
  <2>6. QED
    BY <2>1, <2>2, <2>3, <2>4, <2>5 DEF PlaceMoves
<1>2. InvOrBroken /\ [Next]_vars => InvOrBroken'
  <2>1. SUFFICES ASSUME InvOrBroken, [Next]_vars, ~broken' PROVE HlInv' /\ HlSpots'
    BY DEF InvOrBroken
  <2>2. ~broken
    BY <2>1 DEF Next, vars
  <2>3. QED
    BY <2>1, <2>2, NextStep, SpotsStep DEF InvOrBroken
<1>3. Init => InvOrBroken
  BY InitKeeps, InitSpots DEF InvOrBroken
<1>4. InvOrBroken /\ [Next]_vars => [Moves]_vars
  BY <1>1 DEF InvOrBroken, Next
<1>5. PlacesKept <=> [][Moves]_vars
  BY DEF PlacesKept
<1> HIDE DEF Moves
<1>6. QED
  BY <1>2, <1>3, <1>4, <1>5, PTL DEF Spec
==============================================================================
