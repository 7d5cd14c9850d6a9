------------------------------ MODULE RpcCache ------------------------------
(***************************************************************************)
(* libvxi11/rpccache.c: ONC RPC connections, cached for reuse.             *)
(*                                                                         *)
(* clnt_cache is a singly linked list of entries, each a key, a CLIENT and *)
(* the number of callers that hold it.  Keys of the two create functions   *)
(* never match each other (the entry's "type").  A caller of               *)
(* clnttcp_create_cached may ask for port 0: clnttcp_create then asks the  *)
(* port mapper and writes the port it found into the caller's address, and *)
(* it is that address the entry records.                                   *)
(***************************************************************************)
EXTENDS Integers, Sequences, FiniteSets

CONSTANTS
    Slot,       \* where callers keep a CLIENT pointer: one field each
    Client,     \* addresses of CLIENT objects
    HostKey,    \* (host, prog, vers, proto) of clnt_create_cached
    AddrKey,    \* (address, prog, vers, sock, sizes) of clnttcp_create_cached
    Resolve,    \* [Key -> Key]: the key recorded for a request
    NoClient

Key == HostKey \cup AddrKey

ASSUME RpcCacheAssumption ==
    /\ IsFiniteSet(Slot)
    /\ NoClient \notin Client
    /\ HostKey \cap AddrKey = {}
    /\ Resolve \in [Key -> Key]
    /\ \A k \in HostKey : Resolve[k] = k
    /\ \A k \in AddrKey : Resolve[k] \in AddrKey
    /\ \A k \in Key : Resolve[Resolve[k]] = Resolve[k]

VARIABLES
    cache,      \* clnt_cache, first entry first
    slot,       \* [Slot -> Client \cup {NoClient}]: the callers' pointers
    asked,      \* [Slot -> Key]: the arguments of the call that filled the slot
    live,       \* CLIENT objects clnt_create made and clnt_destroy did not free
    peer        \* [Client -> Key]: the server a CLIENT is connected to

vars == <<cache, slot, asked, live, peer>>

Entry == [key : Key, clnt : Client, usecount : Int]

(* The walks of the list stop at the first entry that matches.             *)
First(S) == {i \in S : \A j \in S : i <= j}

AnyOfItsType(k) ==                                         \* mutants of WithKey
    {i \in DOMAIN cache : cache[i].key \in HostKey <=> k \in HostKey}
OnlyTheHead(k) == {i \in DOMAIN cache : i = 1 /\ cache[i].key = k}
WithKey(k) == {i \in DOMAIN cache : cache[i].key = k}
WithClient(c) == {i \in DOMAIN cache : cache[i].clnt = c}

(* The entry at i leaves the list; those behind it move up.                *)
Unlink(i) ==
    [j \in 1 .. Len(cache) - 1 |-> IF j < i THEN cache[j] ELSE cache[j + 1]]

PushFrontNull(e) ==                                        \* mutant of PushFront
    [j \in 1 .. Len(cache) + 1 |->
        IF j = 1 THEN [e EXCEPT !.clnt = NoClient] ELSE cache[j - 1]]

PushFront(e) ==
    [j \in 1 .. Len(cache) + 1 |-> IF j = 1 THEN e ELSE cache[j - 1]]

-----------------------------------------------------------------------------
Init ==
    /\ cache = <<>>
    /\ slot = [s \in Slot |-> NoClient]
    /\ asked \in [Slot -> Key]
    /\ live = {}
    /\ peer \in [Client -> Key]

(* The first entry with the caller's key is shared.                        *)
ReuseUncounted(s, k) ==                                    \* mutant of Reuse
    /\ \E i \in First(WithKey(k)) : slot' = [slot EXCEPT ![s] = cache[i].clnt]
    /\ UNCHANGED <<cache, live, peer>>

Reuse(s, k) ==
    /\ \E i \in First(WithKey(k)) :
        /\ cache' = [cache EXCEPT ![i].usecount = @ + 1]
        /\ slot' = [slot EXCEPT ![s] = cache[i].clnt]
    /\ UNCHANGED <<live, peer>>

(* A new connection; it stays out of the list when malloc fails.           *)
Connect(s, k) ==
    /\ WithKey(k) = {}
    /\ \E c \in Client \ live :
        /\ live' = live \cup {c}
        /\ peer' = [peer EXCEPT ![c] = Resolve[k]]
        /\ slot' = [slot EXCEPT ![s] = c]
        /\ \/ cache' = PushFront([key |-> Resolve[k], clnt |-> c, usecount |-> 1])
           \/ cache' = cache

(* The server cannot be reached: the caller is told NULL.                  *)
Unreachable(k) == WithKey(k) = {} /\ UNCHANGED <<cache, slot, live, peer>>

(* Callers only ask with an empty field to put the answer in.              *)
Obtain(s, k) ==
    /\ slot[s] = NoClient
    /\ Reuse(s, k) \/ Connect(s, k)
    /\ asked' = [asked EXCEPT ![s] = k]

clnt_create_cached(s, k) == k \in HostKey /\ Obtain(s, k)

clnttcp_create_cached(s, k) == k \in AddrKey /\ Obtain(s, k)

clnt_create_fails(s, k) ==
    /\ slot[s] = NoClient
    /\ Unreachable(k)
    /\ UNCHANGED asked

(* The three ways out of the walk of clnt_destroy_cached.                  *)
LastUseUnchecked(c) ==                                     \* mutant of LastUse
    /\ \E i \in First(WithClient(c)) : cache' = Unlink(i)
    /\ live' = live \ {c}

LastUse(c) ==
    /\ \E i \in First(WithClient(c)) :
        /\ cache[i].usecount - 1 = 0
        /\ cache' = Unlink(i)
    /\ live' = live \ {c}

StillUsedFreed(c) ==                                       \* mutant of StillUsed
    /\ \E i \in First(WithClient(c)) :
        /\ cache[i].usecount - 1 # 0
        /\ cache' = [cache EXCEPT ![i].usecount = @ - 1]
    /\ live' = live \ {c}

StillUsed(c) ==
    /\ \E i \in First(WithClient(c)) :
        /\ cache[i].usecount - 1 # 0
        /\ cache' = [cache EXCEPT ![i].usecount = @ - 1]
    /\ live' = live

NonCachedKept(c) ==                                        \* mutant of NonCached
    /\ WithClient(c) = {}
    /\ UNCHANGED <<cache, live>>

NonCached(c) ==
    /\ WithClient(c) = {}
    /\ live' = live \ {c}
    /\ cache' = cache

(* A caller hands its CLIENT back and clears its pointer.                  *)
clnt_destroy_cached(s) ==
    /\ slot[s] # NoClient
    /\ LastUse(slot[s]) \/ StillUsed(slot[s]) \/ NonCached(slot[s])
    /\ slot' = [slot EXCEPT ![s] = NoClient]
    /\ UNCHANGED <<asked, peer>>

Next ==
    \E s \in Slot :
        \/ \E k \in Key :
            \/ clnt_create_cached(s, k)
            \/ clnttcp_create_cached(s, k)
            \/ clnt_create_fails(s, k)
        \/ clnt_destroy_cached(s)

Spec == Init /\ [][Next]_vars

-----------------------------------------------------------------------------
Holders(c) == {s \in Slot : slot[s] = c}

(* The list holds well-formed entries and callers hold CLIENTs or NULL.    *)
TypeOK ==
    /\ cache \in Seq(Entry)
    /\ slot \in [Slot -> Client \cup {NoClient}]
    /\ asked \in [Slot -> Key]
    /\ live \subseteq Client
    /\ peer \in [Client -> Key]

(* Every entry counts its holders exactly: a count too high leaks the      *)
(* connection, a count too low frees it under a handle that still uses it. *)
UseCountExact ==
    \A i \in DOMAIN cache :
        /\ cache[i].usecount = Cardinality(Holders(cache[i].clnt))
        /\ cache[i].usecount > 0

(* No caller is left holding a CLIENT that clnt_destroy has freed.         *)
HeldIsLive == \A s \in Slot : slot[s] # NoClient => slot[s] \in live

(* No connection outlives its last holder, cached or not.                  *)
NoLeak == \A c \in live : Holders(c) # {}

(* A CLIENT is entered at most once, so that the first match of the walk   *)
(* in clnt_destroy_cached is the only one.                                 *)
EntriesDistinct ==
    \A i, j \in DOMAIN cache : cache[i].clnt = cache[j].clnt => i = j

(* A caller's CLIENT leads to the server it asked for, whatever entry the  *)
(* walk stopped at and however often addresses were freed and reused.      *)
LeadsWhereAsked ==
    \A s \in Slot : slot[s] # NoClient => peer[slot[s]] = Resolve[asked[s]]

(* At most one cached connection per host: all handles on a host that were *)
(* entered in the list share one CLIENT.                                   *)
OneEntryPerHost ==
    \A i, j \in DOMAIN cache :
        cache[i].key = cache[j].key /\ cache[i].key \in HostKey => i = j

(* The list implements the pool of ClientPool.                             *)
Pool == INSTANCE ClientPool WITH Endpoint <- Key
PoolSpec == Pool!Spec
=============================================================================
