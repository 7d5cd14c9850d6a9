----------------------------- MODULE MCHostlist -----------------------------
(* Numbers around a carry, with and without padding, in brackets and out;   *)
(* a letter, x = 10.                                                        *)
EXTENDS Hostlist

W(s) == [pre |-> s, items |-> <<>>, suf |-> <<>>]
B(pre, items, suf) == [pre |-> pre, items |-> items, suf |-> suf]

MCStrings == {
    <<W(<<8, -1, 9>>)>>,                                \* 8-9
    <<B(<<>>, << <<0, 8, -1, 1, 0>> >>, <<>>)>>,        \* [08-10]
    <<B(<<0>>, << <<9, -1, 1, 0>> >>, <<>>)>>,          \* 0[9-10]
    <<W(<<10, 1>>), W(<<2>>), W(<<10>>)>>,              \* x1,2,x
    <<B(<<>>, << <<1, -1, 2>> >>, <<10>>)>> }           \* [1-2]x

(* By hostlist.h.                                                           *)
MCGiven == {
    << <<8>>, <<9>> >>, << <<0, 8>>, <<0, 9>>, <<1, 0>> >>, << <<0, 9>>, <<0, 1, 0>> >>,
    << <<10, 1>>, <<10, 2>>, <<10>> >>, << <<1, 10>>, <<2, 10>> >> }

(* Numbers that lie in each other, padded and not.                          *)
MCPadded == { <<W(<<9, -1, 1, 0>>)>>, <<W(<<0, 9>>)>> }     \* 9-10  09

MCAsked == UNION {Range(g) : g \in MCGiven} \cup { <<0, 1, 0>>, <<10, 0>> }
(* No step depends on what the last call returned.                          *)
WithoutResult == <<hl, track, short, broken>>
Symmetry == Permutations(Iter)

==============================================================================
