----------------------------- MODULE ClientPool -----------------------------
(***************************************************************************)
(* What libvxi11's RPC connection cache promises to its callers, without   *)
(* the list that keeps the promise: a caller that asks for an endpoint     *)
(* gets a live connection to it, perhaps one another caller already holds, *)
(* and a connection dies exactly when its last holder gives it back.       *)
(*                                                                         *)
(* A Slot is a place in the calling program that can hold one connection   *)
(* (the vxi11_core or vxi11_abrt field of a device handle).                *)
(***************************************************************************)
CONSTANTS
    Slot,       \* places that hold at most one connection each
    Client,     \* addresses of CLIENT objects; one may be reused once freed
    Endpoint,   \* what a caller can ask a connection to
    Resolve,    \* [Endpoint -> Endpoint]: the endpoint a request ends up at
    NoClient    \* the NULL pointer

VARIABLES
    slot,       \* [Slot -> Client \cup {NoClient}]
    asked,      \* [Slot -> Endpoint]: what the slot's holder last asked for
    peer,       \* [Client -> Endpoint]: where a connection leads
    live        \* the connections that exist

vars == <<slot, asked, peer, live>>

Init ==
    /\ slot = [s \in Slot |-> NoClient]
    /\ asked \in [Slot -> Endpoint]
    /\ peer \in [Client -> Endpoint]
    /\ live = {}

(* A caller is given an existing connection or a new one, never one to     *)
(* another endpoint.                                                       *)
Acquire(s, k) ==
    /\ slot[s] = NoClient
    /\ \E c \in Client :
        /\ slot' = [slot EXCEPT ![s] = c]
        /\ \/ c \in live /\ peer[c] = Resolve[k] /\ UNCHANGED <<live, peer>>
           \/ /\ c \notin live
              /\ live' = live \cup {c}
              /\ peer' = [peer EXCEPT ![c] = Resolve[k]]
    /\ asked' = [asked EXCEPT ![s] = k]

(* The connection survives exactly as long as somebody else holds it.      *)
Release(s) ==
    /\ slot[s] # NoClient
    /\ slot' = [slot EXCEPT ![s] = NoClient]
    /\ live' = IF \E t \in Slot \ {s} : slot[t] = slot[s]
               THEN live ELSE live \ {slot[s]}
    /\ UNCHANGED <<asked, peer>>

Next == \E s \in Slot : Release(s) \/ \E k \in Endpoint : Acquire(s, k)

Spec == Init /\ [][Next]_vars
=============================================================================
