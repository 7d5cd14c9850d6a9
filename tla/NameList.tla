------------------------------ MODULE NameList ------------------------------
(***************************************************************************)
(* What src/liblsd/hostlist.h promises of a list of names: it is a         *)
(* sequence, however it is stored, and an iterator is a place in it.       *)
(***************************************************************************)
EXTENDS Naturals, Sequences, FiniteSets

CONSTANTS
    Iter,       \* iterators
    Given       \* sequences of names that strings given to the list stand for

VARIABLES
    names,      \* the list
    at,         \* [Iter -> how far it got]
    out         \* names returned by the last call, <<>> for NULL

listVars == <<names, at, out>>

(* A place: n names were returned, one by one or a bracketed list at a     *)
(* time.  "lost": nothing is said of what comes next.                      *)
None == [by |-> "none", n |-> 0]
Lost == [by |-> "lost", n |-> 0]
Start == IF names = <<>> THEN Lost ELSE [by |-> "name", n |-> 0]
ByName(i) == at[i].by = "name"

(* Iterators that keep their place, when the list changes; none has one in *)
(* an empty list.                                                          *)
Keep(places) ==
    at' = [i \in Iter |-> IF at[i].by = "none" THEN None
                          ELSE IF ByName(i) /\ i \in DOMAIN places /\ names' # <<>>
                          THEN [at[i] EXCEPT !.n = places[i]] ELSE Lost]

Occurrences(s, x) == Cardinality({k \in DOMAIN s : s[k] = x})
Rearranged(s, t) ==
    Len(s) = Len(t) /\ \A k \in DOMAIN s : Occurrences(s, s[k]) = Occurrences(t, s[k])
Thinned(s, t) ==
    /\ \A k \in DOMAIN t : Occurrences(s, t[k]) > 0
    /\ \A k \in DOMAIN s : Occurrences(t, s[k]) \in 1 .. Occurrences(s, s[k])

Without(s, K) == LET Kept[n \in 0 .. Len(s)] ==
                         IF n = 0 THEN <<>>
                         ELSE IF n \in K THEN Kept[n - 1] ELSE Append(Kept[n - 1], s[n])
                 IN  Kept[Len(s)]

(* The list changes so.                                                    *)
Changed(By(_, _)) == \E s \in {names}, t \in {names'} : By(s, t)
Appended(s, t) == \E new \in Given : t = s \o new
WithoutOne(s, t) == \E n \in DOMAIN s : t = Without(s, {n})

(* As many as were asked for or are there go of each name, of those of     *)
(* unfound that or less.                                                   *)
Deleted(s, t, unfound) == \E K \in SUBSET DOMAIN s :
    /\ Cardinality(K) = Len(s) - Len(t) /\ t = Without(s, K)
    /\ \E asked \in Given : \A k \in DOMAIN s :
          LET x == s[k]
              gone == Cardinality({j \in K : s[j] = x})
              all == IF Occurrences(asked, x) < Occurrences(s, x) THEN Occurrences(asked, x)
                     ELSE Occurrences(s, x)
          IN  IF x \in unfound THEN gone <= all ELSE gone = all

Init ==
    /\ names \in Given \cup {<<>>}
    /\ at = [i \in Iter |-> None]
    /\ out = <<>>

-----------------------------------------------------------------------------
(* An iterator that was told that there is nothing left stays so.          *)
Push ==
    /\ out' = <<>>
    /\ Changed(Appended)
    /\ Keep([i \in {j \in Iter : at[j].n <= Len(names)} |-> at[i].n])

(* Nothing is said of iterators that have returned all that is left.       *)
Pop ==
    /\ names # <<>>
    /\ out' = <<names[Len(names)]>>
    /\ names' = SubSeq(names, 1, Len(names) - 1)
    /\ Keep([i \in {j \in Iter : at[j].n < Len(names')} |-> at[i].n])

(* Iterators still have the same names before them.                        *)
Shift ==
    /\ names # <<>>
    /\ out' = <<Head(names)>>
    /\ names' = Tail(names)
    /\ Keep([i \in Iter |-> IF at[i].n = 0 THEN 0 ELSE at[i].n - 1])

TakeSome ==
    /\ out' # <<>>
    /\ names = names' \o out' \/ names = out' \o names'
    /\ Keep(<<>>)

DeleteNth == out' = <<>> /\ Changed(WithoutOne) /\ Keep(<<>>)

DeleteBut(unfound) ==
    /\ out' = <<>>
    /\ Changed(LAMBDA s, t : Deleted(s, t, unfound))
    /\ IF UNCHANGED names THEN UNCHANGED at ELSE Keep(<<>>)
Delete == DeleteBut({})

Restart ==
    \/ UNCHANGED <<names, at>>
    \/ /\ names # <<>>
       /\ at' = [i \in Iter |-> IF at[i].by = "none" THEN None ELSE Start]

Sort == out' = <<>> /\ Changed(Rearranged) /\ Restart
Uniq == out' = <<>> /\ Changed(Thinned) /\ Restart

-----------------------------------------------------------------------------
Create(i) ==
    /\ at' = [at EXCEPT ![i] = Start]
    /\ out' = <<>>

Destroy(i) ==
    /\ at' = [at EXCEPT ![i] = None]
    /\ out' = <<>>

NextName(i) ==
    /\ ByName(i)
    /\ IF at[i].n < Len(names)
       THEN /\ at' = [at EXCEPT ![i].n = @ + 1]
            /\ out' = <<names[at[i].n + 1]>>
       ELSE /\ at' = [at EXCEPT ![i].n = Len(names) + 1]
            /\ out' = <<>>

NextSome(i) ==
    /\ at[i].by = "range" \/ (ByName(i) /\ at[i].n = 0)
    /\ \E to \in at[i].n .. Len(names) :
         /\ at[i].n < Len(names) => to > at[i].n
         /\ at' = [at EXCEPT ![i] = [by |-> "range", n |-> to]]
         /\ out' = SubSeq(names, at[i].n + 1, to)

(* The name before it goes; the next one is still the next.                *)
Remove(i) ==
    /\ out' = <<>>
    /\ ByName(i) /\ at[i].n \in DOMAIN names
    /\ Changed(LAMBDA s, t : t = Without(s, {at[i].n}))
    /\ \/ Keep([j \in {i} |-> at[i].n - 1])
       \/ Keep(<<>>)

Next ==
    \/ UNCHANGED names /\ \E i \in Iter : Create(i) \/ Destroy(i) \/ NextName(i) \/ NextSome(i)
    \/ Delete \/ DeleteNth \/ Push \/ Pop \/ Shift \/ TakeSome \/ Sort \/ Uniq
    \/ \E i \in Iter : Remove(i)

NameListSpec == Init /\ [][Next]_listVars
==============================================================================
