--------------------------- MODULE MCVxi11Device ----------------------------
(* Two handles on one server: the case in which they share a connection.    *)
EXTENDS Vxi11Device, TLC

CONSTANTS h1, h2, gateway, c1, c2, l1, l2

MCHandle == {h1, h2}
MCHost == {gateway}
TwoClients == {c1, c2}
MCLid == {l1, l2}
OneTmo == {DfltTmo}
NoLocking == {FALSE}
ErrNone == {NOLID}
ErrAny == MCLid \cup {NOLID}

Symmetry == Permutations(MCHandle) \cup Permutations(Client) \cup Permutations(MCLid)
=============================================================================
