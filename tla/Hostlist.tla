------------------------------ MODULE Hostlist ------------------------------
(***************************************************************************)
(* src/liblsd/hostlist.c, built with WANT_RECKLESS_HOSTRANGE_EXPANSION and *)
(* without threads: a list of names held as ranges of numbers, the strings *)
(* it is made from, and iterators.  Implements NameList.                   *)
(*                                                                         *)
(* A name is a sequence of characters: a digit is itself, Dash is '-',     *)
(* greater numbers are letters; they compare as strcmp compares them.  A   *)
(* string is a sequence of tokens: "2[00-02,5]x" is                        *)
(* [pre |-> "2", items |-> <<"00-02", "5">>, suf |-> "x"], and a word has  *)
(* no items.  Indices are those of the code plus one.                      *)
(***************************************************************************)
EXTENDS Integers, SequencesExt, FiniteSetsExt

CONSTANTS
    Iter,       \* iterators a program has
    Strings,    \* strings a program gives to the list
    Asked,      \* names it looks for
    Given,      \* sequences of names that hostlist.h says Strings stand for
    MaxHosts,   \* bound: names in the list
    NULL

(* What _next_tok finds; a word is not empty.                              *)
Token ==
    {tok \in [pre : Seq(Int), items : Seq(Seq(Int)), suf : Seq(Int)] :
        tok.items = <<>> => tok.pre # <<>>}

ASSUME HostlistAssumption ==
    Strings \subseteq Seq(Token) /\ Asked \subseteq Seq(Int) /\ MaxHosts \in Nat

VARIABLES
    hl,         \* the struct hostlist
    track,      \* [Iter -> what the calls on it were], a history variable
    out,        \* names the last call returned, <<>> for NULL
    short,      \* 1 once delete_nth was asked for the name behind the last,
                \* else 0; a history variable
    broken      \* the list holds a range that was freed, one that is not the
                \* iterator's is used, or an assertion failed: what follows is
                \* undefined

vars == <<hl, track, out, short, broken>>

Dash == -1
MaxSuffix == 33554432
MaxRange == 16384
isdigit(c) == c \in 0 .. 9

-----------------------------------------------------------------------------
(* Numbers as they are written and read.                                   *)
Digits[n \in Nat] == IF n < 10 THEN <<n>> ELSE Append(Digits[n \div 10], n % 10)
zero_padded(n, w) == IF w > Len(Digits[n]) THEN w - Len(Digits[n]) ELSE 0
Printed(n, w) == [k \in 1 .. zero_padded(n, w) |-> 0] \o Digits[n]
strtoul(s) == FoldLeft(LAMBDA n, d : 10 * n + d, 0, s)

(* How long s is before the first place in K; digits in front, the rest.   *)
Span(s, K) == Min(K \cup {Len(s) + 1}) - 1
digits(s) == {k \in DOMAIN s : isdigit(s[k])}
LeadDigits(s) == SubSeq(s, 1, Span(s, DOMAIN s \ digits(s)))
AfterDigits(s) == SubSeq(s, Len(LeadDigits(s)) + 1, Len(s))

strless(s, t) ==
    \/ IsStrictPrefix(s, t)
    \/ \E k \in 1 .. Min({Len(s), Len(t)}) :
          SubSeq(s, 1, k - 1) = SubSeq(t, 1, k - 1) /\ s[k] < t[k]

(* Either width pads one of the two numbers alike.  The code makes the two *)
(* widths equal where this holds, which changes what neither range prints, *)
(* nor any later comparison; the model leaves them as they are.            *)
width_equiv(n, wn, m, wm) ==
    zero_padded(n, wn) = zero_padded(n, wm) \/ zero_padded(m, wm) = zero_padded(m, wn)

(* hostname_create: all digits at the end are the number.                  *)
hostname_create(s) ==
    LET idx == Len(s) - Len(LeadDigits(Reverse(s)))
        suffix == SubSeq(s, idx + 1, Len(s))
        valid == suffix # <<>> /\ strtoul(suffix) <= MaxSuffix
    IN  [hostname |-> s, pfx |-> IF valid THEN SubSeq(s, 1, idx) ELSE s,
         num |-> IF valid THEN strtoul(suffix) ELSE 0, width |-> Len(suffix), valid |-> valid]

-----------------------------------------------------------------------------
(* hostrange_t, of which a list never holds an empty one.                  *)
HostRange ==
    {h \in [pfx : Seq(Int), lo : Nat, hi : Nat, width : Nat, single : BOOLEAN] :
        h.lo <= h.hi /\ (h.single => h.hi = 0)}
ASSUME NoList == NULL \notin Seq(HostRange)

create_single(s) == [pfx |-> s, lo |-> 0, hi |-> 0, width |-> 0, single |-> TRUE]
hostrange_create(s, lo, hi, w) == [pfx |-> s, lo |-> lo, hi |-> hi, width |-> w, single |-> FALSE]

count(h) == IF h.single THEN 1 ELSE h.hi - h.lo + 1
empty(h) == h.hi < h.lo
Host(h, depth) == IF h.single THEN h.pfx ELSE h.pfx \o Printed(h.lo + depth, h.width)
Hosts(h) == [k \in 1 .. count(h) |-> Host(h, k - 1)]
NamesOf(rs) == FlattenSeq([k \in DOMAIN rs |-> Hosts(rs[k])])
CountBefore(rs, k) ==
    LET Sum[j \in 0 .. Len(rs)] == IF j = 0 THEN 0 ELSE Sum[j - 1] + count(rs[j])
    IN  Sum[IF k > Len(rs) THEN Len(rs) ELSE IF k < 1 THEN 0 ELSE k - 1]

prefix_eq(g, h) == g.pfx = h.pfx /\ g.single = h.single
width_combine(g, h) == width_equiv(g.lo, g.width, h.lo, h.width)
within_range(g, h) == prefix_eq(g, h) /\ ~g.single

(* hostrange_cmp(g, h) < 0.                                                *)
cmp_less(g, h) ==
    IF g.pfx # h.pfx THEN strless(g.pfx, h.pfx)
    ELSE IF g.single # h.single THEN g.single
    ELSE IF width_combine(g, h) THEN g.lo < h.lo ELSE g.width < h.width

Follows(g, h) == prefix_eq(g, h) /\ g.hi = h.lo - 1 /\ width_combine(g, h)

(* hostrange_join, for g <= h: there is something to join when h begins in *)
(* g or right after; the names of both are counted once.                   *)
JoinsOnlyNext(g, h) ==                                      \* mutant of Joins
    prefix_eq(g, h) /\ width_combine(g, h) /\ g.hi = h.lo - 1
Joins(g, h) == prefix_eq(g, h) /\ width_combine(g, h) /\ g.hi >= h.lo - 1
Join(g, h) == [g EXCEPT !.hi = Max({g.hi, h.hi})]

hn_within_any_width(h, hn) ==                               \* mutant of hn_within
    \/ h.single /\ h.pfx = hn.hostname
    \/ h.pfx = hn.pfx /\ IF hn.valid THEN hn.num \in h.lo .. h.hi ELSE h.single
hn_within(h, hn) ==
    \/ h.single /\ h.pfx = hn.hostname
    \/ /\ h.pfx = hn.pfx
       /\ IF hn.valid THEN hn.num \in h.lo .. h.hi /\ width_equiv(h.lo, h.width, hn.num, hn.width)
          ELSE h.single

-----------------------------------------------------------------------------
(* Lists of ranges that have no iterators yet.                             *)
push_range(rs, h) ==
    IF rs # <<>> /\ Follows(Last(rs), h) THEN [rs EXCEPT ![Len(rs)].hi = h.hi]
    ELSE Append(rs, h)

push_ranges(rs, new) == FoldLeft(push_range, rs, new)

push_host(rs, s) ==
    LET hn == hostname_create(s)
    IN  push_range(rs, IF hn.valid THEN hostrange_create(hn.pfx, hn.num, hn.num, hn.width)
                       ELSE create_single(s))

(* _hostlist_create, one token: a range "tux0-5" or "tux0-tux5", or a      *)
(* number that takes prefix and width from the token before.  Whatever is  *)
(* not understood is one host, but leaves its prefix behind.               *)
reckless_token(st, tok) ==
    LET end   == IF Dash \in Range(tok) THEN Max({k \in DOMAIN tok : tok[k] = Dash}) ELSE Len(tok)
        back  == Min({k \in 1 .. end : \A j \in k .. end - 1 : isdigit(tok[j])})
        pos   == IF isdigit(tok[back]) THEN back ELSE Len(tok)
        reuse == pos = 1 /\ st.pfx # <<>>
        rest  == SubSeq(tok, pos, Len(tok))
        pfx   == IF reuse THEN st.pfx ELSE SubSeq(tok, 1, pos - 1)
        fmt   == IF reuse THEN st.fmt ELSE Len(LeadDigits(rest))
        low   == strtoul(LeadDigits(rest))
        range == AfterDigits(rest) # <<>> /\ AfterDigits(rest)[1] = Dash
        upper == Tail(AfterDigits(rest))
        alpha == Span(upper, digits(upper))
        upnum == SubSeq(upper, alpha + 1, Len(upper))
        high  == strtoul(LeadDigits(upnum))
        wrong == \/ ~reuse /\ fmt = 0
                 \/ range /\ \/ alpha > 0 /\ SubSeq(upper, 1, alpha) # pfx
                             \/ LeadDigits(upnum) = <<>> \/ high - low \notin 1 .. MaxRange
                             \/ AfterDigits(upnum) # <<>>
                 \/ ~range /\ (low = 0 \/ AfterDigits(rest) # <<>>)
    IN  [pfx |-> pfx, fmt |-> fmt,
         rs |-> IF wrong THEN push_host(st.rs, tok)
                ELSE push_range(st.rs, hostrange_create(pfx, low, IF range THEN high ELSE low, fmt))]

(* _parse_single_range: "5", "5-7", "5-".                                  *)
parse_single_range(s) ==
    LET dash == Span(s, {k \in DOMAIN s : s[k] = Dash})
        lows == SubSeq(s, 1, dash)
        ups  == SubSeq(s, dash + 2, Len(s))
        lo   == strtoul(LeadDigits(lows))
        hi   == IF ups = <<>> THEN lo ELSE strtoul(LeadDigits(ups))
    IN  IF \/ LeadDigits(lows) = <<>> \/ hi - lo \notin 0 .. MaxRange - 1
           \/ AfterDigits(IF ups = <<>> THEN lows ELSE ups) # <<>>
        THEN NULL ELSE [lo |-> lo, hi |-> hi, width |-> Len(lows)]

(* A token of _hostlist_create_bracketed: with a suffix, every name is     *)
(* held on its own.                                                        *)
bracketed_token(rs, tok) ==
    LET held(item) ==
            LET r == parse_single_range(item)
                h == hostrange_create(tok.pre, r.lo, r.hi, r.width)
            IN  IF tok.suf = <<>> THEN <<h>>
                ELSE [k \in 1 .. count(h) |-> create_single(Host(h, k - 1) \o tok.suf)]
    IN  IF tok.items = <<>> THEN push_host(rs, tok.pre)
        ELSE push_ranges(rs, FlattenSeq([k \in DOMAIN tok.items |-> held(tok.items[k])]))

hostlist_create(str) ==
    IF \A k \in DOMAIN str : str[k].items = <<>>
    THEN FoldLeft(reckless_token, [pfx |-> <<>>, fmt |-> 0, rs |-> <<>>],
                  [k \in DOMAIN str |-> str[k].pre]).rs
    ELSE IF \E k \in DOMAIN str : NULL \in {parse_single_range(s) : s \in Range(str[k].items)}
    THEN NULL
    ELSE FoldLeft(bracketed_token, <<>>, str)

(* _get_bracketed_list from the range at k: ranges of one prefix.          *)
numstr_unpadded(h) ==                                       \* mutant of numstr
    Digits[h.lo] \o IF h.lo < h.hi THEN <<Dash>> \o Digits[h.hi] ELSE <<>>
numstr(h) == Printed(h.lo, h.width) \o IF h.lo < h.hi THEN <<Dash>> \o Printed(h.hi, h.width) ELSE <<>>
GroupEnd(rs, k) == Max({j \in k .. Len(rs) : \A m \in k + 1 .. j : within_range(rs[m], rs[m - 1])})
bracketed_list(rs, k) ==
    LET to == GroupEnd(rs, k)
        nums == [j \in 1 .. to - k + 1 |-> numstr(rs[k + j - 1])]
    IN  IF count(rs[k]) > 1 \/ to > k THEN [pre |-> rs[k].pfx, items |-> nums, suf |-> <<>>]
        ELSE [pre |-> Host(rs[k], 0), items |-> <<>>, suf |-> <<>>]

ranged_string(rs) ==
    LET Groups == {k \in DOMAIN rs : k = 1 \/ ~within_range(rs[k], rs[k - 1])}
    IN  [j \in DOMAIN SetToSortSeq(Groups, <) |-> bracketed_list(rs, SetToSortSeq(Groups, <)[j])]

-----------------------------------------------------------------------------
(* The list and its iterators.  fresh: hr of the iterator is the range at  *)
(* its idx.  NoIter: there is none, or the model no longer follows it.     *)
NoIter == [idx |-> 0, depth |-> -1, fresh |-> FALSE]
Begin(rs) == [idx |-> 1, depth |-> -1, fresh |-> rs # <<>>]
At(rs, i, idx) == [i EXCEPT !.idx = idx, !.fresh = idx <= Len(rs)]

insert_range(l, h, n) ==
    LET rs == InsertAt(l.hr, n, h)
    IN  [l EXCEPT !.hr = rs,
                  !.ilist = [i \in Iter |-> IF @[i].idx >= n THEN At(rs, @[i], @[i].idx + 1) ELSE @[i]]]

delete_range(l, n) ==
    LET rs == RemoveAt(l.hr, n)
    IN  [l EXCEPT !.hr = rs,
                  !.ilist = [i \in Iter |-> IF @[i].idx < n THEN @[i]
                                            ELSE IF @[i].idx = 1 THEN Begin(rs)
                                            ELSE At(rs, @[i], @[i].idx - 1)]]

(* Ranges after the first n are gone and freed.                            *)
cut(l, n) ==
    LET left(it) == [it EXCEPT !.fresh = it.fresh /\ it.idx <= n]
    IN  [l EXCEPT !.hr = SubSeq(l.hr, 1, n), !.ilist = [i \in Iter |-> left(@[i])]]

(* hostrange_delete_host in the range at k, and what its callers do then.  *)
delete_host(l, k, num) ==
    LET h == l.hr[k]
        rest == IF num = h.lo THEN [h EXCEPT !.lo = @ + 1]
                ELSE IF num = h.hi THEN [h EXCEPT !.hi = @ - 1] ELSE [h EXCEPT !.hi = num - 1]
    IN  IF h.single \/ empty(rest) THEN delete_range(l, k)
        ELSE IF num \in {h.lo, h.hi} THEN [l EXCEPT !.hr[k] = rest]
        ELSE insert_range([l EXCEPT !.hr[k] = rest], [h EXCEPT !.lo = num + 1], k + 1)

(* n counts from 0.                                                        *)
RangeOf(rs, n) == CHOOSE k \in DOMAIN rs : n < CountBefore(rs, k + 1) /\ n >= CountBefore(rs, k)
hostlist_nth(rs, n) == Host(rs[RangeOf(rs, n)], n - CountBefore(rs, RangeOf(rs, n)))

delete_nth_uncounted(l, n) ==                               \* mutant of delete_nth
    LET k == RangeOf(l.hr, n)
    IN  delete_host(l, k, l.hr[k].lo + n - CountBefore(l.hr, k))
delete_nth(l, n) ==
    LET k == RangeOf(l.hr, n)
    IN  [delete_host(l, k, l.hr[k].lo + n - CountBefore(l.hr, k)) EXCEPT !.nhosts = @ - 1]

hostlist_find(rs, hn) ==
    LET hits == {k \in DOMAIN rs : hn_within(rs[k], hn)}
        k == Min(hits)
    IN  IF hits = {} THEN -1
        ELSE CountBefore(rs, k) + IF hn.valid /\ ~rs[k].single THEN hn.num - rs[k].lo ELSE 0

delete_found(l, hn) ==
    IF hostlist_find(l.hr, hn) < 0 THEN l ELSE delete_nth(l, hostlist_find(l.hr, hn))

(* qsort: any order that hostrange_cmp allows.                             *)
Sorted(rs) == {s \in {[k \in DOMAIN rs |-> rs[p[k]]] : p \in Bijection(DOMAIN rs, DOMAIN rs)} :
                  \A k \in 2 .. Len(s) : ~cmp_less(s[k], s[k - 1])}

(* hostlist_coalesce: from the end, the first two ranges that intersect    *)
(* are made into a lower one, the names of both one by one, and an upper   *)
(* one; then from the end again.  NULL where hostrange_intersect asserts.  *)
Intersects(g, h) == within_range(g, h) /\ g.hi > h.lo /\ width_combine(g, h)

Split(g, h) ==
    LET lo == h.lo
        hi == Min({g.hi, h.hi})
        one(n) == hostrange_create(g.pfx, n, n, g.width)
        twice(n) == (IF n > lo THEN <<one(n)>> ELSE <<>>) \o (IF n < hi THEN <<one(n)>> ELSE <<>>)
    IN  <<[g EXCEPT !.hi = lo]>> \o FlattenSeq([k \in 1 .. hi - lo + 1 |-> twice(lo + k - 1)])
        \o <<[h EXCEPT !.lo = hi, !.hi = Max({g.hi, h.hi})]>>

coalesce[rs \in Seq(HostRange)] ==
    LET pairs == {k \in 2 .. Len(rs) : ~rs[k].single /\ ~rs[k - 1].single}
        wrong == {k \in pairs : cmp_less(rs[k], rs[k - 1])}
        hits  == {k \in pairs : Intersects(rs[k - 1], rs[k])}
        k     == Max(hits \cup {0})
    IN  IF \E j \in wrong : j >= k THEN NULL
        ELSE IF hits = {} THEN rs
        ELSE coalesce[SubSeq(rs, 1, k - 2) \o Split(rs[k - 1], rs[k]) \o SubSeq(rs, k + 1, Len(rs))]

(* hostlist_collapse, from the end.                                        *)
collapse(rs) ==
    FoldRight(LAMBDA h, acc : IF acc # <<>> /\ Follows(h, acc[1])
                              THEN <<[h EXCEPT !.hi = acc[1].hi]>> \o Tail(acc)
                              ELSE <<h>> \o acc, rs, <<>>)

(* _attempt_range_join from the start; NULL where hostrange_join asserts.  *)
join_all(rs) ==
    FoldLeft(LAMBDA acc, h : IF acc = NULL \/ cmp_less(h, Last(acc)) THEN NULL
                             ELSE IF Joins(Last(acc), h)
                             THEN Append(Front(acc), Join(Last(acc), h))
                             ELSE Append(acc, h), <<rs[1]>>, Tail(rs))
-----------------------------------------------------------------------------
(* The calls.  names is the list as a user sees it.                        *)
names == NamesOf(hl.hr)
Size(rs) == CountBefore(rs, Len(rs) + 1)

(* What the strings are made into; one that cannot be read changes nothing.*)
Made == {hostlist_create(str) : str \in Strings} \ {NULL}

(* Where an iterator is: how many names it has returned.  Then is what a   *)
(* call leaves; the iterators of lost have no place in it that means       *)
(* anything, and a program only resets or destroys them.                   *)
place(i) == CountBefore(hl.hr, hl.ilist[i].idx) + hl.ilist[i].depth + 1
Ranged == {i \in Iter : track[i] = "range"}
Sound == broken' = FALSE /\ UNCHANGED short
Then(l, lost) ==
    LET gone == {i \in Iter : track[i] # "none" /\ (i \in lost \/ l.hr = <<>>)} IN
    /\ hl' = [l EXCEPT !.ilist = [i \in Iter |-> IF i \in gone THEN NoIter ELSE @[i]]]
    /\ track' = [i \in Iter |-> IF i \in gone THEN "lost" ELSE track[i]]

Init ==
    /\ \E rs \in Made \cup {<<>>} :
          /\ Size(rs) <= MaxHosts
          /\ hl = [hr |-> rs, nhosts |-> Size(rs), ilist |-> [i \in Iter |-> NoIter]]
    /\ track = [i \in Iter |-> "none"]
    /\ out = <<>> /\ short = 0 /\ broken = FALSE

(* hostlist_push, which makes a list of the string first; its hosts are    *)
(* appended to a range of this one where they follow it.                   *)
hostlist_push(rs) ==
    /\ Size(hl.hr) + Size(rs) <= MaxHosts
    /\ Then([hl EXCEPT !.hr = push_ranges(@, rs), !.nhosts = @ + Size(rs)],
            {i \in Iter : place(i) > Size(hl.hr)} \cup Ranged)
    /\ out' = <<>> /\ Sound

hostlist_pop ==
    LET n == Len(hl.hr)
        rest == [Last(hl.hr) EXCEPT !.hi = @ - 1]
        l == [hl EXCEPT !.nhosts = @ - 1]
    IN  /\ hl.nhosts > 0
        /\ Then(IF rest.single \/ empty(rest) THEN cut(l, n - 1) ELSE [l EXCEPT !.hr[n] = rest],
                {i \in Iter : place(i) >= Size(hl.hr) - 1} \cup Ranged)
        /\ out' = <<Last(Hosts(hl.hr[n]))>> /\ Sound

hostlist_shift ==
    LET rest == [hl.hr[1] EXCEPT !.lo = @ + 1]
        l == [hl EXCEPT !.nhosts = @ - 1]
        back(i) == IF i.idx = 1 /\ i.depth >= 0 THEN [i EXCEPT !.depth = @ - 1] ELSE i
    IN  /\ hl.nhosts > 0
        /\ Then(IF rest.single \/ empty(rest) THEN delete_range(l, 1)
                ELSE [l EXCEPT !.hr[1] = rest, !.ilist = [i \in Iter |-> back(@[i])]], Ranged)
        /\ out' = <<Host(hl.hr[1], 0)>> /\ Sound

(* Both collect the ranges in another list, where two may become one, and  *)
(* then take as many places from this one as that has: if two did become   *)
(* one, so many places are left that hold NULL or a range that was freed.  *)
Left(ranges) == [j \in 1 .. Len(ranges) - Len(push_ranges(<<>>, ranges)) |-> NULL]
Taken(rs, ranges) ==
    /\ Then([hl EXCEPT !.hr = rs, !.nhosts = @ - Size(ranges)], Iter)
    /\ out' = NamesOf(ranges)
    /\ broken' = (Left(ranges) # <<>>) /\ UNCHANGED short

hostlist_pop_range ==
    LET n == Len(hl.hr)
        k == Min({j \in 1 .. n : \A m \in j .. n - 1 : within_range(hl.hr[n], hl.hr[m])})
        tail == SubSeq(hl.hr, k, n)
    IN  hl.hr # <<>> /\ Taken(SubSeq(hl.hr, 1, k - 1) \o Left(tail), tail)

hostlist_shift_range ==
    LET k == GroupEnd(hl.hr, 1)
        group == SubSeq(hl.hr, 1, k)
    IN  hl.hr # <<>> /\ Taken(Left(group) \o SubSeq(hl.hr, k + 1, Len(hl.hr)), group)

(* The names of a string that can be read, from the last.                  *)
hostlist_delete(rs) ==
    LET l == FoldRight(LAMBDA s, acc : delete_found(acc, hostname_create(s)), NamesOf(rs), hl)
    IN  /\ Then(l, IF l.nhosts < hl.nhosts THEN Iter ELSE {})
        /\ out' = <<>> /\ Sound

(* n is asserted not to be above nhosts, which is the place behind the     *)
(* last name: nothing is deleted there, and it is counted.                 *)
hostlist_delete_nth(n) ==
    /\ n <= hl.nhosts
    /\ IF n < Size(hl.hr) THEN Then(delete_nth(hl, n), Iter) /\ UNCHANGED short
       ELSE hl' = [hl EXCEPT !.nhosts = @ - 1] /\ short' = 1 /\ UNCHANGED track
    /\ out' = <<>> /\ broken' = FALSE

coalesced(rs) == IF coalesce[rs] = NULL THEN NULL ELSE collapse(coalesce[rs])

(* All iterators go back to the start.  twice: names that were found twice.*)
Reordered(rs, twice) ==
    /\ broken' = (rs = NULL) /\ UNCHANGED short
    /\ IF broken' THEN UNCHANGED <<hl, track>>
       ELSE /\ hl' = [hr |-> rs, nhosts |-> hl.nhosts - twice,
                      ilist |-> [i \in Iter |-> IF track[i] = "none" THEN NoIter ELSE Begin(rs)]]
            /\ track' = [i \in Iter |-> IF track[i] = "none" THEN "none" ELSE "name"]

hostlist_sort ==
    /\ out' = <<>>
    /\ IF Len(hl.hr) <= 1 THEN UNCHANGED <<hl, track>> /\ Sound
       ELSE \E s \in Sorted(hl.hr) : Reordered(coalesced(s), 0)

hostlist_uniq ==
    /\ out' = <<>>
    /\ IF Len(hl.hr) <= 1 THEN UNCHANGED <<hl, track>> /\ Sound
       ELSE \E s \in Sorted(hl.hr) : Reordered(join_all(s), Size(s) - Size(join_all(s)))

-----------------------------------------------------------------------------
(* An iterator of an empty list is lost: what is pushed is not found at it.*)
Starts(i) ==
    /\ hl' = [hl EXCEPT !.ilist[i] = IF hl.hr = <<>> THEN NoIter ELSE Begin(hl.hr)]
    /\ track' = [track EXCEPT ![i] = IF hl.hr = <<>> THEN "lost" ELSE "name"]
    /\ out' = <<>> /\ Sound

hostlist_iterator_create(i) == track[i] = "none" /\ Starts(i)
hostlist_iterator_reset(i) == track[i] # "none" /\ Starts(i)

hostlist_iterator_destroy(i) ==
    /\ track[i] # "none"
    /\ hl' = [hl EXCEPT !.ilist[i] = NoIter]
    /\ track' = [track EXCEPT ![i] = "none"]
    /\ out' = <<>> /\ Sound

AtEnd(it) == it.idx > Len(hl.hr)
iterator_advance_too_far(it) ==                             \* mutant of iterator_advance
    IF AtEnd(it) THEN it
    ELSE IF it.depth >= count(hl.hr[it.idx]) THEN [At(hl.hr, it, it.idx + 1) EXCEPT !.depth = 0]
    ELSE [it EXCEPT !.depth = @ + 1]
iterator_advance(it) ==
    IF AtEnd(it) THEN it
    ELSE IF it.depth + 1 >= count(hl.hr[it.idx]) THEN [At(hl.hr, it, it.idx + 1) EXCEPT !.depth = 0]
    ELSE [it EXCEPT !.depth = @ + 1]

(* Broken where the range it was at is no longer the one at its idx.       *)
hostlist_next(i) ==
    LET it == hl.ilist[i]
        new == iterator_advance(it)
    IN  /\ track[i] = "name"
        /\ hl' = [hl EXCEPT !.ilist[i] = new]
        /\ broken' = (~AtEnd(it) /\ ~it.fresh)
        /\ out' = IF AtEnd(new) THEN <<>> ELSE <<Host(hl.hr[new.idx], new.depth)>>
        /\ UNCHANGED <<track, short>>

(* At the end idx goes on; the bound is for that.                          *)
iterator_advance_range(it) ==
    LET nr == Len(hl.hr)
        j == IF AtEnd(it) THEN it.idx + 1
             ELSE Min({k \in it.idx + 1 .. nr + 1 : k > nr \/ ~within_range(hl.hr[it.idx], hl.hr[k])})
    IN  IF it.depth < 0 THEN [it EXCEPT !.depth = 0] ELSE [At(hl.hr, it, j) EXCEPT !.depth = 0]

hostlist_next_range(i) ==
    LET it == hl.ilist[i]
        new == iterator_advance_range(it)
    IN  /\ track[i] = "range" \/ (track[i] = "name" /\ place(i) = 0)
        /\ new.idx <= MaxHosts + 1
        /\ hl' = [hl EXCEPT !.ilist[i] = new]
        /\ track' = [track EXCEPT ![i] = "range"]
        /\ broken' = (it.depth >= 0 /\ it.idx < Len(hl.hr) /\ ~it.fresh) /\ UNCHANGED short
        /\ out' = IF AtEnd(new) THEN <<>>
                  ELSE NamesOf(SubSeq(hl.hr, new.idx, GroupEnd(hl.hr, new.idx)))

(* Legal after a name was returned.  When the last host of a range goes,   *)
(* the iterator is put on the range before, at the depth it had: on its    *)
(* first host, though its last was returned.                               *)
hostlist_remove(i) ==
    LET it == hl.ilist[i]
        h == hl.hr[it.idx]
        l == [delete_host(hl, it.idx, h.lo + it.depth) EXCEPT !.nhosts = @ - 1]
        split == Len(l.hr) > Len(hl.hr)
        gone == Len(l.hr) < Len(hl.hr)
        new == IF split THEN [At(l.hr, it, it.idx + 1) EXCEPT !.depth = -1]
               ELSE IF gone THEN l.ilist[i] ELSE [it EXCEPT !.depth = @ - 1]
        again == gone /\ it.idx > 1 /\ count(hl.hr[it.idx - 1]) > 1
    IN  /\ track[i] = "name" /\ ~AtEnd(it) /\ it.depth \in 0 .. count(h) - 1
        /\ Then([l EXCEPT !.ilist[i] = new], IF again THEN Iter ELSE Iter \ {i})
        /\ out' = <<>> /\ Sound

-----------------------------------------------------------------------------
Next ==
    /\ ~broken
    /\ \/ \E rs \in Made : hostlist_push(rs) \/ hostlist_delete(rs)
       \/ hostlist_pop \/ hostlist_shift \/ hostlist_pop_range \/ hostlist_shift_range
       \/ \E n \in 0 .. MaxHosts : hostlist_delete_nth(n)
       \/ hostlist_sort \/ hostlist_uniq
       \/ \E i \in Iter :
             \/ hostlist_iterator_create(i) \/ hostlist_iterator_reset(i)
             \/ hostlist_iterator_destroy(i)
             \/ hostlist_next(i) \/ hostlist_next_range(i) \/ hostlist_remove(i)

Spec == Init /\ [][Next]_vars
-----------------------------------------------------------------------------
At_(i) ==
    [by |-> track[i],
     n |-> CASE track[i] \in {"none", "lost"} -> 0
             [] track[i] = "name" -> place(i)
             [] track[i] = "range" ->
                  LET k == hl.ilist[i].idx IN
                  IF k > Len(hl.hr) THEN Size(hl.hr) ELSE CountBefore(hl.hr, GroupEnd(hl.hr, k) + 1)]

at == [i \in Iter |-> At_(i)]
List == INSTANCE NameList

(* What the calls do that hostlist.h does not say: pop_range and           *)
(* shift_range may leave ranges in the list that they have returned;       *)
(* delete_nth returns 1 for the place behind the last name; delete finds   *)
(* no name in a bracketed list with a digit before it, 0[9] asked as 09.   *)
RangesStay ==
    /\ broken' /\ (hostlist_pop_range \/ hostlist_shift_range)
    /\ IsSuffix(out', names) \/ IsPrefix(out', names)
DeletesNone == hostlist_delete_nth(Len(names)) /\ UNCHANGED <<names, at>>
Unfound == UNION {Range(Hosts(h)) : h \in
                  {g \in Range(hl.hr) : ~g.single /\ g.pfx # <<>> /\ isdigit(Last(g.pfx))}}
DeletesFewer == (\E rs \in Made : hostlist_delete(rs)) /\ List!DeleteBut(Unfound)

(* Each call does to the names what hostlist.h promises, which NameList    *)
(* says, but for these three, and no more than these is lost or kept: an   *)
(* iterator that nothing led astray returns every name once, in order, and *)
(* then NULL; what is taken is returned; delete leaves no name it was      *)
(* asked for and can find, and takes no other.                             *)
NameListSpec ==
    List!Init /\ [][RangesStay \/ List!Next \/ DeletesNone \/ DeletesFewer]_(List!listVars)

(* A call does that to the names it is given or asked for, wherever the    *)
(* ranges begin and end: what is pushed comes last, what is popped or      *)
(* shifted was at that end, and of the others the one at the place asked   *)
(* for is deleted.                                                         *)
NamesMove ==
    /\ \A rs \in Made : hostlist_push(rs) => names' = names \o NamesOf(rs)
    /\ hostlist_pop => names = names' \o out' /\ Len(out') = 1
    /\ hostlist_shift => names = out' \o names' /\ Len(out') = 1
    /\ hostlist_pop_range /\ ~broken' => names = names' \o out' /\ out' # <<>>
    /\ hostlist_shift_range /\ ~broken' => names = out' \o names' /\ out' # <<>>
    /\ \A n \in 0 .. MaxHosts : hostlist_delete_nth(n) =>
          names' = IF n < Len(names) THEN RemoveAt(names, n + 1) ELSE names
    /\ \A i \in Iter : hostlist_remove(i) => names' = RemoveAt(names, place(i))
NamesKept == [][NamesMove]_vars

(* An iterator that is not lost returns the next name, however many were   *)
(* popped, shifted, pushed or removed since the last.                      *)
PlaceMoves(i) ==
    /\ (\E rs \in Made : hostlist_push(rs)) \/ hostlist_pop => place(i)' = place(i)
    /\ hostlist_shift => place(i)' = Max({place(i) - 1, 0})
    /\ hostlist_remove(i) => place(i)' = place(i) - 1
    /\ hostlist_next(i) => IF place(i) < Len(names)
                           THEN out' = <<names[place(i) + 1]>> /\ place(i)' = place(i) + 1
                           ELSE out' = <<>> /\ place(i)' > Len(names)
PlacesKept == [][\A i \in Iter : track[i] = "name" /\ track'[i] = "name" => PlaceMoves(i)]_vars

(* nhosts, which pop, shift and delete rely on, is the number of names, or *)
(* one less from when delete_nth was asked for the name behind the last,   *)
(* however often; no range is empty; an iterator that keeps its place has  *)
(* the range at it.  All of it as long as no freed range is in the list.   *)
Consistent == ~broken =>
    /\ hl.nhosts = Size(hl.hr) - short
    /\ \A k \in DOMAIN hl.hr : count(hl.hr[k]) > 0
    /\ \A i \in Iter : track[i] \in {"name", "range"} =>
          hl.ilist[i].fresh # (hl.ilist[i].idx > Len(hl.hr))

(* hostlist_find returns a position at which the name is, whatever the     *)
(* padding of range and name; only a host without a number is also found   *)
(* with a 0 behind it.                                                     *)
Looked == {hostname_create(s) : s \in Asked}
FoundIsThere == ~broken =>
    \A hn \in Looked : LET n == hostlist_find(hl.hr, hn) IN
        n >= 0 => hostlist_nth(hl.hr, n) = hn.hostname \/ hl.hr[RangeOf(hl.hr, n)].single

(* What hostlist_ranged_string writes is read back as the same names, for  *)
(* names that are numbers, as slots and channels are, and whenever there   *)
(* is a bracket in it.                                                     *)
RoundTrip == ~broken =>
    LET str == ranged_string(hl.hr)
        numbers == \A s \in Range(names) : \A c \in Range(s) : isdigit(c)
        bracket == \E tok \in Range(str) : tok.items # <<>>
    IN  numbers \/ bracket => NamesOf(hostlist_create(str)) = names

(* Whatever order qsort leaves, no assertion of uniq fails.  Unless numbers *)
(* of one prefix are padded differently, none of sort does, and they come  *)
(* out in order, and of uniq once each.                                    *)
Alike(rs) == \A g, h \in Range(rs) : prefix_eq(g, h) => width_combine(g, h)
Apart(rs, gap) ==
    \A j, k \in DOMAIN rs : j < k /\ prefix_eq(rs[j], rs[k]) /\ ~(gap = 0 /\ rs[j].single)
                            => rs[j].hi + gap <= rs[k].lo
SortRight == ~broken /\ Len(hl.hr) > 1 => \A s \in Sorted(hl.hr) :
    LET sorted == coalesced(s)
        uniq == join_all(s)
    IN  /\ uniq # NULL
        /\ Alike(hl.hr) => sorted # NULL /\ Apart(sorted, 0) /\ Apart(uniq, 1)

(* hostlist.c:889 asserts that of two ranges it looks at, none is out of   *)
(* order.  It fails: padding is compared by the first number of a range,   *)
(* and a split makes that greater.                                         *)
IntersectAsserts == ~broken /\ Len(hl.hr) > 1 => \A s \in Sorted(hl.hr) : coalesce[s] # NULL
==============================================================================
