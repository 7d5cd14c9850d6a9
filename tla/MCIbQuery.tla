------------------------------ MODULE MCIbQuery ------------------------------
(* Addresses of every form, four files, two programs.                       *)
EXTENDS IbQuery, TLC

CONSTANTS p1, p2

F(board, pad, sad, dev, colon, sfx) ==
    [board |-> board, pad |-> pad, sad |-> sad, dev |-> dev, colon |-> colon, sfx |-> sfx]

MCFields ==
    "1:9" :> F(1, 9, None, NoDev, FALSE, <<>>) @@
    "9,6" :> F(None, 9, 6, NoDev, FALSE, <<>>) @@
    "9" :> F(None, 9, None, NoDev, FALSE, <<>>) @@
    "gw:inst0" :> F(None, None, None, "gw", TRUE, <<>>) @@
    "tty" :> F(None, None, None, "tty", FALSE, <<>>) @@
    "tty:1200,7E2,X" :> F(None, None, None, "tty", TRUE, <<1200, 7, "E", 2, "X">>) @@
    "tty:9600,8N1,H" :> F(None, None, None, "tty", TRUE, <<9600, 8, "N", 1, "H">>) @@
    "tty:1201" :> F(None, None, None, "tty", TRUE, <<1201>>) @@
    "gw:5025" :> F(None, None, None, "gw", TRUE, <<5025>>) @@
    "gw" :> F(None, None, None, "gw", FALSE, <<>>) @@
    "null" :> F(None, None, None, "null", FALSE, <<>>) @@
    "1:9,6" :> F(1, 9, 6, NoDev, FALSE, <<>>) @@
    "" :> F(None, None, None, NoDev, FALSE, <<>>)

(* With what the code opens wrongly: a board and a secondary address.       *)
SadFields == "1:9,6" :> F(1, 9, 6, NoDev, FALSE, <<>>)

Line(kind, name, value) == [kind |-> kind, name |-> name, value |-> value]
S(name) == Line("section", name, "")
A(name, value) == Line("attr", name, value)

Fallback == <<S("a"), A("address", "tty")>>
File == {
    <<S("a"), A("address", "9"), A("model", "m"), S("b"), A("address", "9,6")>>,
    <<S("a"), A("flags", "reos"), A("address", "tty:1200,7E2,X"), S("b"), A("address", "gw:inst0"),
      S("a"), A("address", "gw"), Line("indented", "", "tty")>>,
    <<S("a"), A("address", "tty:9600,8N1,H"), S("b"), A("flags", ""), A("address", "tty:1201"),
      Line("garbled", "", "")>>,
    <<S("a"), A("address", "tty:9600,8N1,H"), S("b"), A("address", "tty:1201")>>,
    <<S("a"), A("flags", "xeos"), A("address", "1:9"), S("b"), A("address", "1:9")>>,
    <<S("a"), A("address", "1:9"), A("address", "gw:5025"), S("b"), A("flags", "reos"),
      A("address", "null")>>,
    <<S("a"), A("address", "1:9"), S("b"), Line("indented", "", "9")>>,
    <<S("b"), A("address", "1:9"), A("flags", "reos")>>,
    <<S("a"), A("address", "1:9,6"), S("b"), A("model", "m")>> }

(* A file in each of the three places, with another behind it or none, the  *)
(* variable being set or not.                                               *)
MCFiles == {<<f, NoFile, Fallback>> : f \in File} \cup {<<Unset, f, Fallback>> : f \in File}
           \cup {<<Unset, NoFile, f>> : f \in File}

SadFiles == {<<<<S("a"), A("address", "1:9,6")>>, NoFile, NoFile>>}

MCArgv == { <<>>, <<"query", "clear", "local">>, <<"write", "write", "x?">>,
            <<"delay", "read", "?", "write">>, <<"clear", "status", "0">> }
MCTyped == { <<>>, <<"write", "query">>, <<"v">>, <<"status", "0">>, <<"quit">> }
MCAsking == {"x?", "?"}

Symmetry == Permutations({p1, p2})
==============================================================================
