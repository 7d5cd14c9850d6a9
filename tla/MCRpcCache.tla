----------------------------- MODULE MCRpcCache -----------------------------
(* Four places that hold a connection, four CLIENT addresses, two hosts and *)
(* an abort address asked for by port number or through the port mapper.    *)
EXTENDS RpcCache, TLC

CONSTANTS s1, s2, s3, s4, c1, c2, c3, c4, scope, gateway, port0, port1

MCSlot == {s1, s2, s3, s4}
MCClient == {c1, c2, c3, c4}
MCHostKey == {scope, gateway}
MCAddrKey == {port0, port1}
MCResolve == (scope :> scope) @@ (gateway :> gateway)
             @@ (port0 :> port1) @@ (port1 :> port1)

(* The initial contents of what is read only once a slot is filled do not   *)
(* matter: one choice stands for all.                                       *)
MCInit ==
    /\ Init
    /\ asked = [s \in Slot |-> scope]
    /\ peer = [c \in Client |-> scope]

MCSpec == MCInit /\ [][Next]_vars

Symmetry == Permutations(MCSlot) \cup Permutations(MCClient)
=============================================================================
