--------------------------- MODULE RpcCacheProofs ---------------------------
(***************************************************************************)
(* Proofs about RpcCache for every number of callers, connections and      *)
(* servers.                                                                *)
(*                                                                         *)
(* UseCountExact alone is not inductive.  Freeing a connection that is not *)
(* in the list is right only because such a connection has one holder      *)
(* (UncachedHasOneHolder), and sharing an entry is right only because its  *)
(* key still says where its connection leads (KeyIsPeer).                  *)
(***************************************************************************)
EXTENDS RpcCache, FiniteSetTheorems, TLAPS

(* A connection malloc failed for is known to the caller it was made for   *)
(* and to nobody else.                                                     *)
UncachedHasOneHolder ==
    \A c \in live : WithClient(c) = {} => Cardinality(Holders(c)) = 1

(* An entry's key is the endpoint of its connection.                       *)
KeyIsPeer == \A i \in DOMAIN cache : peer[cache[i].clnt] = cache[i].key

IInv ==
    /\ TypeOK
    /\ UseCountExact
    /\ HeldIsLive
    /\ NoLeak
    /\ EntriesDistinct
    /\ LeadsWhereAsked
    /\ OneEntryPerHost
    /\ UncachedHasOneHolder
    /\ KeyIsPeer

-----------------------------------------------------------------------------
(* Holders of a connection are finitely many.                              *)
LEMMA HoldersFinite ==
    ASSUME NEW c PROVE /\ IsFiniteSet(Holders(c))
                       /\ Cardinality(Holders(c)) \in Nat
                       /\ Cardinality(Holders(c)) = 0 <=> Holders(c) = {}
<1>1. IsFiniteSet(Holders(c))
  BY RpcCacheAssumption, FS_Subset DEF Holders
<1>2. QED
  BY <1>1, FS_CardinalityType, FS_EmptySet

(* A caller that is given c becomes one more holder of c, and of nothing   *)
(* else.                                                                   *)
LEMMA HoldersGain ==
    ASSUME slot \in [Slot -> Client \cup {NoClient}],
           NEW s \in Slot, NEW c \in Client, slot[s] = NoClient,
           slot' = [slot EXCEPT ![s] = c]
    PROVE  /\ Cardinality(Holders(c)') = Cardinality(Holders(c)) + 1
           /\ \A d \in Client : d # c => Holders(d)' = Holders(d)
<1>1. Holders(c)' = Holders(c) \cup {s} /\ s \notin Holders(c)
  BY RpcCacheAssumption DEF Holders
<1>2. Cardinality(Holders(c) \cup {s}) = Cardinality(Holders(c)) + 1
  BY <1>1, HoldersFinite, FS_AddElement
<1>3. \A d \in Client : d # c => Holders(d)' = Holders(d)
  BY RpcCacheAssumption DEF Holders
<1>4. QED
  BY <1>1, <1>2, <1>3

(* A caller that hands c back is one holder less of c, and of nothing      *)
(* else.                                                                   *)
LEMMA HoldersLose ==
    ASSUME slot \in [Slot -> Client \cup {NoClient}],
           NEW s \in Slot, NEW c \in Client, slot[s] = c,
           slot' = [slot EXCEPT ![s] = NoClient]
    PROVE  /\ Cardinality(Holders(c)') = Cardinality(Holders(c)) - 1
           /\ Holders(c)' = Holders(c) \ {s}
           /\ \A d \in Client : d # c => Holders(d)' = Holders(d)
<1>1. Holders(c)' = Holders(c) \ {s} /\ s \in Holders(c)
  BY RpcCacheAssumption DEF Holders
<1>2. Cardinality(Holders(c) \ {s}) = Cardinality(Holders(c)) - 1
  BY <1>1, HoldersFinite, FS_RemoveElement
<1>3. \A d \in Client : d # c => Holders(d)' = Holders(d)
  BY RpcCacheAssumption DEF Holders
<1>4. QED
  BY <1>1, <1>2, <1>3

(* Adding an entry in front of the list and taking one out keep it a list. *)
LEMMA PushFrontEntry ==
    ASSUME cache \in Seq(Entry), NEW e \in Entry
    PROVE  /\ PushFront(e) \in Seq(Entry)
           /\ DOMAIN PushFront(e) = 1 .. Len(cache) + 1
           /\ PushFront(e)[1] = e
           /\ \A j \in 2 .. Len(cache) + 1 :
                j - 1 \in DOMAIN cache /\ PushFront(e)[j] = cache[j - 1]
  BY DEF PushFront

(* Taking an entry out of the list leaves a list of entries.               *)
LEMMA UnlinkEntry ==
    ASSUME cache \in Seq(Entry), NEW i \in DOMAIN cache
    PROVE  /\ Unlink(i) \in Seq(Entry)
           /\ DOMAIN Unlink(i) = 1 .. Len(cache) - 1
           /\ \A j \in DOMAIN Unlink(i) :
                \E m \in DOMAIN cache \ {i} :
                    /\ m = IF j < i THEN j ELSE j + 1
                    /\ Unlink(i)[j] = cache[m]
           /\ \A m \in DOMAIN cache \ {i} :
                \E j \in DOMAIN Unlink(i) : Unlink(i)[j] = cache[m]
<1>1. Len(cache) \in Nat /\ DOMAIN cache = 1 .. Len(cache) /\ Len(cache) > 0
  OBVIOUS
<1>2. Unlink(i) \in Seq(Entry) /\ DOMAIN Unlink(i) = 1 .. Len(cache) - 1
  BY <1>1 DEF Unlink
<1>3. ASSUME NEW j \in DOMAIN Unlink(i)
      PROVE  \E m \in DOMAIN cache \ {i} :
                    /\ m = IF j < i THEN j ELSE j + 1
                    /\ Unlink(i)[j] = cache[m]
  <2>1. CASE j < i
    <3>1. j \in DOMAIN cache \ {i} /\ Unlink(i)[j] = cache[j]
      BY <1>1, <1>2, <1>3, <2>1 DEF Unlink
    <3>2. QED
      BY <2>1, <3>1
  <2>2. CASE ~(j < i)
    <3>1. j + 1 \in DOMAIN cache \ {i} /\ Unlink(i)[j] = cache[j + 1]
      BY <1>1, <1>2, <1>3, <2>2 DEF Unlink
    <3>2. QED
      BY <2>2, <3>1
  <2>3. QED
    BY <2>1, <2>2
<1>4. ASSUME NEW m \in DOMAIN cache \ {i}
      PROVE  \E j \in DOMAIN Unlink(i) : Unlink(i)[j] = cache[m]
  <2>1. CASE m < i
    <3>1. m \in DOMAIN Unlink(i) /\ Unlink(i)[m] = cache[m]
      BY <1>1, <1>2, <1>4, <2>1 DEF Unlink
    <3>2. QED
      BY <3>1
  <2>2. CASE ~(m < i)
    <3>1. m - 1 \in DOMAIN Unlink(i) /\ Unlink(i)[m - 1] = cache[m]
      BY <1>1, <1>2, <1>4, <2>2 DEF Unlink
    <3>2. QED
      BY <3>1
  <2>3. QED
    BY <2>1, <2>2
<1>5. QED
  BY <1>2, <1>3, <1>4

(* The fields of an entry.                                                 *)
LEMMA EntryFields ==
    ASSUME TypeOK
    PROVE  \A j \in DOMAIN cache : /\ cache[j] \in Entry
                                   /\ cache[j].clnt \in Client
                                   /\ cache[j].key \in Key
                                   /\ cache[j].usecount \in Int
<1>1. \A j \in DOMAIN cache : cache[j] \in Entry
  BY DEF TypeOK
<1>2. QED
  BY <1>1 DEF Entry

(* Changing one count changes nothing else of the list.                    *)
LEMMA RecountEntry ==
    ASSUME cache \in Seq(Entry), NEW i \in DOMAIN cache, NEW n \in Int,
           cache' = [cache EXCEPT ![i].usecount = n]
    PROVE  /\ cache' \in Seq(Entry)
           /\ DOMAIN cache' = DOMAIN cache
           /\ cache'[i].usecount = n
           /\ \A j \in DOMAIN cache :
                cache'[j].clnt = cache[j].clnt /\ cache'[j].key = cache[j].key
           /\ \A j \in DOMAIN cache \ {i} : cache'[j] = cache[j]
<1>1. PICK e : e = [cache[i] EXCEPT !.usecount = n]
  OBVIOUS
<1>2. cache[i] \in Entry
  OBVIOUS
<1>3. /\ e \in Entry /\ e.usecount = n
      /\ e.clnt = cache[i].clnt /\ e.key = cache[i].key
  BY <1>1, <1>2 DEF Entry
<1>4. cache' = [cache EXCEPT ![i] = e]
  BY <1>1
<1>5. QED
  BY <1>3, <1>4

-----------------------------------------------------------------------------
(* The empty list of rpccache.c's start satisfies the invariant.           *)
LEMMA InitInv == Init => IInv
<1> SUFFICES ASSUME Init PROVE IInv
  OBVIOUS
<1>1. TypeOK
  BY DEF Init, TypeOK
<1>2. DOMAIN cache = {} /\ live = {} /\ \A s \in Slot : slot[s] = NoClient
  BY DEF Init
<1>3. QED
  BY <1>1, <1>2 DEF IInv, UseCountExact, HeldIsLive, NoLeak, EntriesDistinct,
     LeadsWhereAsked, OneEntryPerHost, UncachedHasOneHolder, KeyIsPeer

(* The connection of an entry is live and somebody holds it.               *)
LEMMA EntryIsLive ==
    ASSUME IInv
    PROVE  \A i \in DOMAIN cache : /\ cache[i].clnt \in live
                                   /\ \E t \in Slot : slot[t] = cache[i].clnt
<1> SUFFICES ASSUME NEW i \in DOMAIN cache, NEW c \in Client, c = cache[i].clnt
             PROVE  c \in live /\ \E t \in Slot : slot[t] = c
  BY EntryFields DEF IInv
<1>1. Cardinality(Holders(c)) # 0
  BY HoldersFinite DEF IInv, UseCountExact
<1>2. PICK t \in Slot : slot[t] = c
  BY <1>1, HoldersFinite DEF Holders
<1>3. QED
  BY <1>2, RpcCacheAssumption DEF IInv, HeldIsLive

(* Sharing an entry: its count and its holders grow by the same caller.    *)
LEMMA ReuseInv ==
    ASSUME IInv, NEW s \in Slot, NEW k \in Key, slot[s] = NoClient,
           Reuse(s, k), asked' = [asked EXCEPT ![s] = k]
    PROVE  IInv'
<1> USE DEF IInv
<1>1. PICK i \in First(WithKey(k)) :
        /\ cache' = [cache EXCEPT ![i].usecount = @ + 1]
        /\ slot' = [slot EXCEPT ![s] = cache[i].clnt]
        /\ live' = live /\ peer' = peer
  BY DEF Reuse
<1>2. i \in DOMAIN cache /\ cache[i].key = k /\ cache[i] \in Entry
  BY DEF First, WithKey, TypeOK
<1>3. PICK c \in Client : c = cache[i].clnt
  BY <1>2 DEF Entry
<1>4. PICK n \in Int : n = cache[i].usecount
  BY <1>2 DEF Entry
<1>5. /\ cache' \in Seq(Entry)
      /\ DOMAIN cache' = DOMAIN cache
      /\ cache'[i].usecount = n + 1
      /\ \A j \in DOMAIN cache :
            cache'[j].clnt = cache[j].clnt /\ cache'[j].key = cache[j].key
      /\ \A j \in DOMAIN cache \ {i} : cache'[j] = cache[j]
  <2>1. PICK m \in Int : m = n + 1
    BY <1>4
  <2>2. cache' = [cache EXCEPT ![i].usecount = m]
    BY <1>1, <1>4, <2>1
  <2>3. cache \in Seq(Entry) /\ i \in DOMAIN cache
    BY <1>2 DEF TypeOK
  <2>4. QED
    BY <2>1, <2>2, <2>3, RecountEntry
<1>6. slot' = [slot EXCEPT ![s] = c]
  BY <1>1, <1>3
<1>7. /\ Cardinality(Holders(c)') = Cardinality(Holders(c)) + 1
      /\ \A d \in Client : d # c => Holders(d)' = Holders(d)
  BY <1>6, HoldersGain DEF TypeOK
<1>8. Cardinality(Holders(c)) = n /\ n > 0 /\ c \in live
  <2>1. Cardinality(Holders(c)) = n /\ n > 0
    BY <1>2, <1>3, <1>4 DEF UseCountExact
  <2>2. PICK t \in Slot : slot[t] = c
    BY <2>1, HoldersFinite DEF Holders
  <2>3. QED
    BY <2>1, <2>2, RpcCacheAssumption DEF HeldIsLive
<1>9. TypeOK'
  BY <1>1, <1>2, <1>5, <1>6 DEF TypeOK
<1>10. UseCountExact'
  <2> SUFFICES ASSUME NEW j \in DOMAIN cache'
               PROVE  /\ cache'[j].usecount
                            = Cardinality({t \in Slot : slot'[t] = cache'[j].clnt})
                      /\ cache'[j].usecount > 0
    BY DEF UseCountExact, Holders
  <2> PICK d \in Client : d = cache[j].clnt
    BY <1>5, EntryFields
  <2> SUFFICES /\ cache'[j].usecount = Cardinality(Holders(d)')
               /\ cache'[j].usecount > 0
    BY <1>5 DEF Holders
  <2> j \in DOMAIN cache
    BY <1>5
  <2>1. CASE j = i
    BY <2>1, <1>3, <1>4, <1>5, <1>7, <1>8
  <2>2. CASE j # i
    <3>1. d # c
      BY <2>2, <1>2, <1>3 DEF EntriesDistinct
    <3>2. Holders(d)' = Holders(d) /\ cache'[j] = cache[j]
      BY <2>2, <3>1, <1>5, <1>7
    <3>3. QED
      BY <3>2 DEF UseCountExact
  <2>3. QED
    BY <2>1, <2>2
<1>11. HeldIsLive'
  BY <1>1, <1>6, <1>8 DEF HeldIsLive, TypeOK
<1>12. NoLeak'
  <2> SUFFICES ASSUME NEW d \in live PROVE \E t \in Slot : slot'[t] = d
    BY <1>1 DEF NoLeak, Holders
  <2>1. PICK t \in Slot : slot[t] = d
    BY DEF NoLeak, Holders
  <2>2. t # s
    BY <2>1, RpcCacheAssumption DEF TypeOK
  <2>3. QED
    BY <2>1, <2>2, <1>6 DEF TypeOK
<1>13. EntriesDistinct'
  BY <1>5 DEF EntriesDistinct
<1>14. KeyIsPeer'
  BY <1>1, <1>5 DEF KeyIsPeer
<1>15. LeadsWhereAsked'
  <2>1. peer[c] = k
    BY <1>2, <1>3 DEF KeyIsPeer
  <2>2. Resolve[k] = k
    <3>1. PICK t \in Slot : slot[t] = c
      BY <1>8 DEF NoLeak, Holders
    <3>2. k = Resolve[asked[t]] /\ asked[t] \in Key
      BY <2>1, <3>1, RpcCacheAssumption DEF LeadsWhereAsked, TypeOK
    <3>3. QED
      BY <3>2, RpcCacheAssumption
  <2>3. QED
    BY <1>1, <1>6, <2>1, <2>2 DEF LeadsWhereAsked, TypeOK
<1>16. OneEntryPerHost'
  BY <1>5 DEF OneEntryPerHost
<1>17. UncachedHasOneHolder'
  <2> SUFFICES ASSUME NEW d \in live, WithClient(d)' = {}
               PROVE  Cardinality(Holders(d)') = 1
    BY <1>1 DEF UncachedHasOneHolder, Holders, WithClient
  <2>1. WithClient(d) = {}
    BY <1>5 DEF WithClient
  <2>2. d # c /\ d \in Client
    BY <2>1, <1>2, <1>3 DEF WithClient, TypeOK
  <2>3. QED
    BY <2>1, <2>2, <1>7 DEF UncachedHasOneHolder
<1>18. QED
  BY <1>9, <1>10, <1>11, <1>12, <1>13, <1>14, <1>15, <1>16, <1>17

(* A new connection has no holder yet and no entry, so entering it, or     *)
(* failing to, disturbs nobody.                                            *)
LEMMA ConnectInv ==
    ASSUME IInv, NEW s \in Slot, NEW k \in Key, slot[s] = NoClient,
           Connect(s, k), asked' = [asked EXCEPT ![s] = k]
    PROVE  IInv'
<1> USE DEF IInv
<1>1. PICK c \in Client \ live :
        /\ live' = live \cup {c}
        /\ peer' = [peer EXCEPT ![c] = Resolve[k]]
        /\ slot' = [slot EXCEPT ![s] = c]
        /\ \/ cache' = PushFront([key |-> Resolve[k], clnt |-> c, usecount |-> 1])
           \/ cache' = cache
  BY DEF Connect
<1>2. PICK e \in Entry : /\ e = [key |-> Resolve[k], clnt |-> c, usecount |-> 1]
                         /\ e.key = Resolve[k] /\ e.clnt = c /\ e.usecount = 1
  <2>1. Resolve[k] \in Key /\ c \in Client
    BY RpcCacheAssumption
  <2>2. [key |-> Resolve[k], clnt |-> c, usecount |-> 1] \in Entry
    BY <2>1 DEF Entry
  <2>3. QED
    BY <2>2
<1>3. /\ Cardinality(Holders(c)') = Cardinality(Holders(c)) + 1
      /\ \A d \in Client : d # c => Holders(d)' = Holders(d)
  BY <1>1, HoldersGain DEF TypeOK
<1>4. Cardinality(Holders(c)) = 0
  <2>1. Holders(c) = {}
    BY RpcCacheAssumption DEF HeldIsLive, Holders
  <2>2. QED
    BY <2>1, HoldersFinite
<1>5. \A j \in DOMAIN cache : cache[j].clnt \in live /\ cache[j].clnt # c
  BY <1>1, EntryIsLive
<1>6. /\ cache' \in Seq(Entry)
      /\ \A j \in DOMAIN cache' :
            \/ cache' = PushFront(e) /\ j = 1 /\ cache'[j] = e
            \/ cache' = PushFront(e) /\ j - 1 \in DOMAIN cache /\ cache'[j] = cache[j - 1]
            \/ cache' # PushFront(e) /\ j \in DOMAIN cache /\ cache'[j] = cache[j]
  <2>1. CASE cache' = PushFront(e)
    <3>1. cache \in Seq(Entry) /\ Len(cache) \in Nat
      BY DEF TypeOK
    <3>2. ASSUME NEW j \in DOMAIN cache'
          PROVE  \/ j = 1 /\ cache'[j] = e
                 \/ j - 1 \in DOMAIN cache /\ cache'[j] = cache[j - 1]
      <4>1. j = 1 \/ j \in 2 .. Len(cache) + 1
        BY <2>1, <3>1, <3>2, PushFrontEntry
      <4>2. QED
        BY <2>1, <3>1, <4>1, PushFrontEntry
    <3>3. QED
      BY <2>1, <3>1, <3>2, PushFrontEntry
  <2>2. CASE cache' # PushFront(e) /\ cache' = cache
    BY <2>2 DEF TypeOK
  <2>3. QED
    BY <1>1, <1>2, <2>1, <2>2
<1>7. \A j \in DOMAIN cache' : /\ j \in Int
                               /\ \/ cache'[j] = e
                                  \/ \E m \in DOMAIN cache : cache'[j] = cache[m]
  BY <1>6
<1>8. TypeOK'
  BY <1>1, <1>6, RpcCacheAssumption DEF TypeOK
<1>9. UseCountExact'
  <2> SUFFICES ASSUME NEW j \in DOMAIN cache'
               PROVE  /\ cache'[j].usecount
                            = Cardinality({t \in Slot : slot'[t] = cache'[j].clnt})
                      /\ cache'[j].usecount > 0
    BY DEF UseCountExact, Holders
  <2> PICK d \in Client : d = cache'[j].clnt
    BY <1>2, <1>7, EntryFields
  <2> SUFFICES /\ cache'[j].usecount = Cardinality(Holders(d)')
               /\ cache'[j].usecount > 0
    BY DEF Holders
  <2>1. CASE cache'[j] = e
    BY <2>1, <1>2, <1>3, <1>4
  <2>2. ASSUME NEW m \in DOMAIN cache, cache'[j] = cache[m]
        PROVE  /\ cache'[j].usecount = Cardinality(Holders(d)')
               /\ cache'[j].usecount > 0
    BY <2>2, <1>3, <1>5 DEF UseCountExact
  <2>3. QED
    BY <1>7, <2>1, <2>2
<1>10. HeldIsLive'
  BY <1>1 DEF HeldIsLive, TypeOK
<1>11. NoLeak'
  <2> SUFFICES ASSUME NEW d \in live \cup {c} PROVE \E t \in Slot : slot'[t] = d
    BY <1>1 DEF NoLeak, Holders
  <2>1. CASE d = c
    BY <2>1, <1>1 DEF TypeOK
  <2>2. CASE d # c
    <3>1. PICK t \in Slot : slot[t] = d
      BY <2>2 DEF NoLeak, Holders
    <3>2. t # s
      BY <3>1, <2>2, RpcCacheAssumption DEF TypeOK
    <3>3. QED
      BY <3>1, <3>2, <1>1 DEF TypeOK
  <2>3. QED
    BY <2>1, <2>2
<1>12. EntriesDistinct'
  <2> SUFFICES ASSUME NEW i \in DOMAIN cache', NEW j \in DOMAIN cache',
                      cache'[i].clnt = cache'[j].clnt
               PROVE  i = j
    BY DEF EntriesDistinct
  <2>1. CASE cache'[i] = e \/ cache'[j] = e
    BY <2>1, <1>2, <1>5, <1>6
  <2>2. CASE cache'[i] # e /\ cache'[j] # e
    BY <2>2, <1>6, <1>7 DEF EntriesDistinct
  <2>3. QED
    BY <2>1, <2>2
<1>13. KeyIsPeer'
  BY <1>1, <1>2, <1>5, <1>7 DEF KeyIsPeer, TypeOK
<1>14. LeadsWhereAsked'
  <2> SUFFICES ASSUME NEW t \in Slot, slot'[t] # NoClient
               PROVE  peer'[slot'[t]] = Resolve[asked'[t]]
    BY DEF LeadsWhereAsked
  <2>1. CASE t = s
    BY <2>1, <1>1 DEF TypeOK
  <2>2. CASE t # s
    BY <2>2, <1>1 DEF LeadsWhereAsked, HeldIsLive, TypeOK
  <2>3. QED
    BY <2>1, <2>2
<1>15. OneEntryPerHost'
  <2> SUFFICES ASSUME NEW i \in DOMAIN cache', NEW j \in DOMAIN cache',
                      cache'[i].key = cache'[j].key, cache'[i].key \in HostKey
               PROVE  i = j
    BY DEF OneEntryPerHost
  <2>1. ASSUME NEW m \in DOMAIN cache, Resolve[k] = cache[m].key,
               Resolve[k] \in HostKey
        PROVE  FALSE
    <3>1. Resolve[k] = k
      BY <2>1, RpcCacheAssumption DEF Key
    <3>2. m \in WithKey(k)
      BY <2>1, <3>1 DEF WithKey
    <3>3. QED
      BY <3>2 DEF Connect
  <2>2. CASE cache'[i] = e \/ cache'[j] = e
    BY <2>1, <2>2, <1>2, <1>6
  <2>3. CASE cache'[i] # e /\ cache'[j] # e
    BY <2>3, <1>6, <1>7 DEF OneEntryPerHost
  <2>4. QED
    BY <2>2, <2>3
<1>16. UncachedHasOneHolder'
  <2> SUFFICES ASSUME NEW d \in live \cup {c}, WithClient(d)' = {}
               PROVE  Cardinality(Holders(d)') = 1
    BY <1>1 DEF UncachedHasOneHolder, Holders, WithClient
  <2>1. CASE d = c
    BY <2>1, <1>3, <1>4
  <2>2. CASE d # c
    <3>1. WithClient(d) = {}
      <4>1. CASE cache' = cache
        BY <4>1 DEF WithClient
      <4>2. CASE cache' = PushFront(e)
        <5> SUFFICES ASSUME NEW m \in DOMAIN cache, cache[m].clnt = d PROVE FALSE
          BY DEF WithClient
        <5>1. cache \in Seq(Entry) /\ Len(cache) \in Nat /\ m \in 1 .. Len(cache)
          BY DEF TypeOK
        <5>2. m + 1 \in 2 .. Len(cache) + 1 /\ (m + 1) - 1 = m
          BY <5>1
        <5>3. /\ DOMAIN cache' = 1 .. Len(cache) + 1
              /\ \A j \in 2 .. Len(cache) + 1 : cache'[j] = cache[j - 1]
          BY <4>2, <5>1, PushFrontEntry
        <5>4. cache'[m + 1] = cache[m] /\ m + 1 \in DOMAIN cache'
          BY <5>1, <5>2, <5>3
        <5>5. QED
          BY <5>4 DEF WithClient
      <4>3. QED
        BY <4>1, <4>2, <1>1, <1>2
    <3>2. QED
      BY <2>2, <3>1, <1>3 DEF UncachedHasOneHolder, TypeOK
  <2>3. QED
    BY <2>1, <2>2
<1>17. QED
  BY <1>8, <1>9, <1>10, <1>11, <1>12, <1>13, <1>14, <1>15, <1>16

(* Giving a connection back.  Its holders shrink by the caller; it is      *)
(* freed in exactly the two cases in which nobody is left.                 *)
LEMMA DestroyInv ==
    ASSUME IInv, NEW s \in Slot, slot[s] # NoClient, clnt_destroy_cached(s)
    PROVE  IInv'
<1> USE DEF IInv
<1>1. PICK c \in live : slot[s] = c /\ c \in Client
  BY DEF HeldIsLive, TypeOK
<1>2. /\ slot' = [slot EXCEPT ![s] = NoClient]
      /\ asked' = asked /\ peer' = peer
      /\ LastUse(c) \/ StillUsed(c) \/ NonCached(c)
  BY <1>1 DEF clnt_destroy_cached
<1>3. /\ Cardinality(Holders(c)') = Cardinality(Holders(c)) - 1
      /\ \A d \in Client : d # c => Holders(d)' = Holders(d)
  BY <1>1, <1>2, HoldersLose DEF TypeOK
<1>4. /\ live' \subseteq live /\ live \ {c} \subseteq live'
      /\ c \notin live' => Cardinality(Holders(c)) = 1
      /\ c \in live' => Cardinality(Holders(c)) > 1
      /\ cache' \in Seq(Entry)
      /\ \A j \in DOMAIN cache' : \E m \in DOMAIN cache :
            /\ cache'[j].clnt = cache[m].clnt
            /\ cache'[j].key = cache[m].key
            /\ cache[m].clnt # c => cache'[j] = cache[m]
            /\ cache[m].clnt = c => cache'[j].usecount = cache[m].usecount - 1
            /\ cache[m].clnt = c => c \in live'
      /\ \A i, j \in DOMAIN cache' : cache'[i].clnt = cache'[j].clnt => i = j
      /\ \A i, j \in DOMAIN cache' :
            cache'[i].key = cache'[j].key /\ cache'[i].key \in HostKey => i = j
      /\ \A m \in DOMAIN cache :
            cache[m].clnt \in live' =>
                \E j \in DOMAIN cache' : cache'[j].clnt = cache[m].clnt
  <2> DEFINE Keeps(j, m) ==
            /\ cache'[j].clnt = cache[m].clnt
            /\ cache'[j].key = cache[m].key
            /\ cache[m].clnt # c => cache'[j] = cache[m]
            /\ cache[m].clnt = c => cache'[j].usecount = cache[m].usecount - 1
            /\ cache[m].clnt = c => c \in live'
  <2>0. cache \in Seq(Entry) /\ DOMAIN cache = 1 .. Len(cache) /\ Len(cache) \in Nat
    BY DEF TypeOK
  <2>1. CASE LastUse(c)
    <3>1. PICK i \in First(WithClient(c)) : /\ cache[i].usecount - 1 = 0
                                            /\ cache' = Unlink(i)
                                            /\ live' = live \ {c}
      BY <2>1 DEF LastUse
    <3>2. i \in DOMAIN cache /\ cache[i].clnt = c
      BY <3>1 DEF First, WithClient
    <3>3. \A m \in DOMAIN cache \ {i} : cache[m].clnt # c
      BY <3>2 DEF EntriesDistinct
    <3>4. Cardinality(Holders(c)) = 1
      BY <3>1, <3>2, EntryFields DEF UseCountExact
    <3>5. /\ cache' \in Seq(Entry) /\ DOMAIN cache' = 1 .. Len(cache) - 1
          /\ \A j \in DOMAIN cache' : \E m \in DOMAIN cache \ {i} :
                m = (IF j < i THEN j ELSE j + 1) /\ cache'[j] = cache[m]
          /\ \A m \in DOMAIN cache \ {i} :
                \E j \in DOMAIN cache' : cache'[j] = cache[m]
      BY <2>0, <3>1, <3>2, UnlinkEntry
    <3>6. \A j \in DOMAIN cache' : \E m \in DOMAIN cache : Keeps(j, m)
      BY <3>3, <3>5
    <3>7. ASSUME NEW p \in DOMAIN cache', NEW q \in DOMAIN cache', p # q
          PROVE  /\ cache'[p].clnt # cache'[q].clnt
                 /\ cache'[p].key = cache'[q].key => cache'[p].key \notin HostKey
      <4>1. PICK m \in DOMAIN cache :
                m = (IF p < i THEN p ELSE p + 1) /\ cache'[p] = cache[m]
        BY <3>5
      <4>2. PICK n \in DOMAIN cache :
                n = (IF q < i THEN q ELSE q + 1) /\ cache'[q] = cache[n]
        BY <3>5
      <4>3. m # n
        BY <2>0, <3>2, <3>5, <3>7, <4>1, <4>2
      <4>4. QED
        BY <4>1, <4>2, <4>3 DEF EntriesDistinct, OneEntryPerHost
    <3>8. \A m \in DOMAIN cache :
            cache[m].clnt \in live' =>
                \E j \in DOMAIN cache' : cache'[j].clnt = cache[m].clnt
      BY <3>1, <3>2, <3>5
    <3>9. QED
      BY <3>1, <3>4, <3>5, <3>6, <3>7, <3>8
  <2>2. CASE StillUsed(c)
    <3>1. PICK i \in First(WithClient(c)) :
            /\ cache[i].usecount - 1 # 0
            /\ cache' = [cache EXCEPT ![i].usecount = @ - 1]
            /\ live' = live
      BY <2>2 DEF StillUsed
    <3>2. i \in DOMAIN cache /\ cache[i].clnt = c
      BY <3>1 DEF First, WithClient
    <3>3. \A m \in DOMAIN cache \ {i} : cache[m].clnt # c
      BY <3>2 DEF EntriesDistinct
    <3>4. Cardinality(Holders(c)) > 1
      BY <3>1, <3>2, EntryFields DEF UseCountExact
    <3>5. PICK n \in Int : n = cache[i].usecount - 1
      BY <3>2, EntryFields
    <3>6. /\ cache' \in Seq(Entry) /\ DOMAIN cache' = DOMAIN cache
          /\ cache'[i].usecount = n
          /\ \A j \in DOMAIN cache :
                cache'[j].clnt = cache[j].clnt /\ cache'[j].key = cache[j].key
          /\ \A j \in DOMAIN cache \ {i} : cache'[j] = cache[j]
      <4>1. cache' = [cache EXCEPT ![i].usecount = n]
        BY <3>1, <3>5
      <4>2. QED
        BY <2>0, <3>2, <4>1, RecountEntry
    <3>7. \A j \in DOMAIN cache' : Keeps(j, j) /\ j \in DOMAIN cache
      BY <3>1, <3>2, <3>3, <3>5, <3>6
    <3>8. \A p, q \in DOMAIN cache' :
            /\ cache'[p].clnt = cache'[q].clnt => p = q
            /\ cache'[p].key = cache'[q].key /\ cache'[p].key \in HostKey => p = q
      BY <3>6 DEF EntriesDistinct, OneEntryPerHost
    <3>9. QED
      BY <3>1, <3>4, <3>6, <3>7, <3>8
  <2>3. CASE NonCached(c)
    <3>1. cache' = cache /\ live' = live \ {c} /\ \A m \in DOMAIN cache : cache[m].clnt # c
      BY <2>3 DEF NonCached, WithClient
    <3>2. Cardinality(Holders(c)) = 1
      BY <2>3 DEF NonCached, UncachedHasOneHolder
    <3>3. \A j \in DOMAIN cache' : Keeps(j, j)
      BY <3>1
    <3>4. QED
      BY <2>0, <3>1, <3>2, <3>3 DEF EntriesDistinct, OneEntryPerHost
  <2>4. QED
    BY <1>2, <2>1, <2>2, <2>3
<1>5. TypeOK'
  BY <1>2, <1>4 DEF TypeOK
<1>6. UseCountExact'
  <2> SUFFICES ASSUME NEW j \in DOMAIN cache'
               PROVE  /\ cache'[j].usecount
                            = Cardinality({t \in Slot : slot'[t] = cache'[j].clnt})
                      /\ cache'[j].usecount > 0
    BY DEF UseCountExact, Holders
  <2> PICK d \in Client : d = cache'[j].clnt
    BY <1>4, EntryFields
  <2> SUFFICES /\ cache'[j].usecount = Cardinality(Holders(d)')
               /\ cache'[j].usecount > 0
    BY DEF Holders
  <2>1. PICK m \in DOMAIN cache :
            /\ d = cache[m].clnt
            /\ d # c => cache'[j] = cache[m]
            /\ d = c => cache'[j].usecount = cache[m].usecount - 1
            /\ d = c => c \in live'
    BY <1>4
  <2>2. cache[m].usecount = Cardinality(Holders(d)) /\ cache[m].usecount > 0
    BY <2>1 DEF UseCountExact
  <2>3. CASE d = c
    <3>1. cache[m].usecount > 1 /\ cache[m].usecount \in Int
      BY <2>1, <2>2, <2>3, <1>4, EntryFields
    <3>2. QED
      BY <2>1, <2>2, <2>3, <3>1, <1>3
  <2>4. CASE d # c
    BY <2>1, <2>2, <2>4, <1>3
  <2>5. QED
    BY <2>3, <2>4
<1>7. HeldIsLive'
  <2> SUFFICES ASSUME NEW t \in Slot, slot'[t] # NoClient, slot'[t] \notin live'
               PROVE  FALSE
    BY DEF HeldIsLive
  <2>1. t # s /\ slot'[t] = slot[t] /\ slot[t] \in live
    BY <1>2 DEF HeldIsLive, TypeOK
  <2>2. slot'[t] = c /\ Cardinality(Holders(c)') = 0
    BY <2>1, <1>3, <1>4
  <2>3. Holders(c)' = {}
    BY <2>2, <1>2, FS_EmptySet, FS_Subset, RpcCacheAssumption DEF Holders
  <2>4. QED
    BY <2>2, <2>3 DEF Holders
<1>8. NoLeak'
  <2> SUFFICES ASSUME NEW d \in live' PROVE Holders(d)' # {}
    BY DEF NoLeak, Holders
  <2>1. CASE d = c
    <3>1. Cardinality(Holders(c)') # 0
      BY <2>1, <1>3, <1>4, HoldersFinite
    <3>2. QED
      BY <2>1, <3>1, FS_EmptySet
  <2>2. CASE d # c
    BY <2>2, <1>3, <1>4 DEF NoLeak, TypeOK
  <2>3. QED
    BY <2>1, <2>2
<1>9. EntriesDistinct' /\ OneEntryPerHost'
  BY <1>4 DEF EntriesDistinct, OneEntryPerHost
<1>10. KeyIsPeer'
  BY <1>2, <1>4 DEF KeyIsPeer
<1>11. LeadsWhereAsked'
  BY <1>2 DEF LeadsWhereAsked, TypeOK
<1>12. UncachedHasOneHolder'
  <2> SUFFICES ASSUME NEW d \in live', WithClient(d)' = {}
               PROVE  Cardinality(Holders(d)') = 1
    BY DEF UncachedHasOneHolder, Holders, WithClient
  <2>1. WithClient(d) = {}
    BY <1>4 DEF WithClient
  <2>2. Cardinality(Holders(d)) = 1 /\ d \in Client
    BY <2>1, <1>4 DEF UncachedHasOneHolder, TypeOK
  <2>3. d # c
    BY <2>2, <1>4
  <2>4. QED
    BY <2>2, <2>3, <1>3
<1>13. QED
  BY <1>5, <1>6, <1>7, <1>8, <1>9, <1>10, <1>11, <1>12

(* Every call of the cache preserves the invariant.                        *)
LEMMA NextInv == IInv /\ [Next]_vars => IInv'
<1> SUFFICES ASSUME IInv, [Next]_vars PROVE IInv'
  OBVIOUS
<1>1. ASSUME NEW s \in Slot, NEW k \in Key, Obtain(s, k)
      PROVE  IInv'
  BY <1>1, ReuseInv, ConnectInv DEF Obtain
<1>2. ASSUME NEW s \in Slot, NEW k \in Key,
             clnt_create_cached(s, k) \/ clnttcp_create_cached(s, k)
      PROVE  IInv'
  BY <1>1, <1>2 DEF clnt_create_cached, clnttcp_create_cached
<1>3. ASSUME NEW s \in Slot, clnt_destroy_cached(s)
      PROVE  IInv'
  BY <1>3, DestroyInv DEF clnt_destroy_cached
<1>4. ASSUME UNCHANGED vars
      PROVE  IInv'
  <2>1. (TypeOK /\ HeldIsLive /\ NoLeak /\ EntriesDistinct)'
    BY <1>4 DEF vars, IInv, TypeOK, HeldIsLive, NoLeak, EntriesDistinct, Holders, WithClient
  <2>2. UseCountExact'
    BY <1>4 DEF vars, IInv, UseCountExact, Holders, WithClient
  <2>3. (LeadsWhereAsked /\ OneEntryPerHost)'
    BY <1>4 DEF vars, IInv, LeadsWhereAsked, OneEntryPerHost, Holders, WithClient
  <2>4. (UncachedHasOneHolder /\ KeyIsPeer)'
    BY <1>4 DEF vars, IInv, UncachedHasOneHolder, KeyIsPeer, Holders, WithClient
  <2>5. QED
    BY <2>1, <2>2, <2>3, <2>4 DEF IInv
<1>5. ASSUME NEW s \in Slot, NEW k \in Key, clnt_create_fails(s, k)
      PROVE  UNCHANGED vars
  BY <1>5 DEF clnt_create_fails, Unreachable, vars
<1>6. QED
  BY <1>2, <1>3, <1>4, <1>5 DEF Next

(* The strengthened invariant holds of every reachable state.              *)
THEOREM Invariance == Spec => []IInv
<1>1. Init => IInv
  BY InitInv
<1>2. IInv /\ [Next]_vars => IInv'
  BY NextInv
<1>3. QED
  BY <1>1, <1>2, PTL DEF Spec

(* Lists, pointers and connections have their types.                       *)
THEOREM TypeCorrect == Spec => []TypeOK
<1>1. IInv => TypeOK
  BY DEF IInv
<1>2. QED
  BY <1>1, Invariance, PTL

(* Reference counts are exact, whoever shares whatever.                    *)
THEOREM CountsAreExact == Spec => []UseCountExact
<1>1. IInv => UseCountExact
  BY DEF IInv
<1>2. QED
  BY <1>1, Invariance, PTL

(* No caller ever holds a freed CLIENT: neither a release by another       *)
(* handle nor the reuse of an address can take it away.                    *)
THEOREM HeldStaysLive == Spec => []HeldIsLive
<1>1. IInv => HeldIsLive
  BY DEF IInv
<1>2. QED
  BY <1>1, Invariance, PTL

(* Connections nobody holds are closed.                                    *)
THEOREM NothingLeaks == Spec => []NoLeak
<1>1. IInv => NoLeak
  BY DEF IInv
<1>2. QED
  BY <1>1, Invariance, PTL

(* Two handles on a host never hold two connections of the list: the first *)
(* entry with a key is the only one.                                       *)
THEOREM OneConnectionPerHost == Spec => []OneEntryPerHost
<1>1. IInv => OneEntryPerHost
  BY DEF IInv
<1>2. QED
  BY <1>1, Invariance, PTL

(* What a caller holds leads to the server it asked for, and handles on    *)
(* one host share one cached connection.                                   *)
THEOREM SharingIsRight ==
    Spec => [](LeadsWhereAsked /\ OneEntryPerHost /\ EntriesDistinct)
<1>1. IInv => LeadsWhereAsked /\ OneEntryPerHost /\ EntriesDistinct
  BY DEF IInv
<1>2. QED
  BY <1>1, Invariance, PTL

-----------------------------------------------------------------------------
(* A create call that returns a connection acquires one of the pool.       *)
LEMMA ObtainAcquires ==
    ASSUME IInv, NEW s \in Slot, NEW k \in Key, Obtain(s, k)
    PROVE  Pool!Acquire(s, k)
<1> USE DEF IInv
<1>1. CASE Reuse(s, k)
  <2>1. PICK i \in First(WithKey(k)) :
          slot' = [slot EXCEPT ![s] = cache[i].clnt] /\ live' = live /\ peer' = peer
    BY <1>1 DEF Reuse
  <2>2. i \in DOMAIN cache /\ cache[i].key = k
    BY DEF First, WithKey
  <2>3. PICK c \in live : c = cache[i].clnt /\ c \in Client
    BY <2>2, EntryIsLive DEF TypeOK
  <2>4. peer[c] = k
    BY <2>2, <2>3 DEF KeyIsPeer
  <2>5. PICK t \in Slot : slot[t] = c
    BY <2>3 DEF NoLeak, Holders
  <2>6. k = Resolve[asked[t]] /\ asked[t] \in Key
    BY <2>4, <2>5, <2>3, RpcCacheAssumption DEF LeadsWhereAsked, TypeOK
  <2>7. Resolve[k] = k
    BY <2>6, RpcCacheAssumption
  <2>8. QED
    BY <2>1, <2>3, <2>4, <2>7 DEF Pool!Acquire, Obtain
<1>2. CASE Connect(s, k)
  BY <1>2 DEF Pool!Acquire, Obtain, Connect
<1>3. QED
  BY <1>1, <1>2 DEF Obtain

(* Giving a connection back releases it, and frees it only as the last.    *)
LEMMA DestroyReleases ==
    ASSUME IInv, NEW s \in Slot, clnt_destroy_cached(s)
    PROVE  Pool!Release(s)
<1> USE DEF IInv
<1>1. PICK c \in live : slot[s] = c /\ c \in Client /\ slot[s] # NoClient
  BY DEF clnt_destroy_cached, HeldIsLive, TypeOK
<1>2. /\ slot' = [slot EXCEPT ![s] = NoClient] /\ asked' = asked /\ peer' = peer
      /\ LastUse(c) \/ StillUsed(c) \/ NonCached(c)
  BY <1>1 DEF clnt_destroy_cached
<1>3. IInv'
  BY <1>1, DestroyInv
<1>4. live' = live \/ live' = live \ {c}
  BY <1>2 DEF LastUse, StillUsed, NonCached
<1>5. c \in live' <=> \E t \in Slot \ {s} : slot[t] = c
  <2>1. ASSUME c \in live' PROVE \E t \in Slot \ {s} : slot[t] = c
    <3>1. PICK t \in Slot : slot'[t] = c
      BY <1>3, <2>1 DEF NoLeak, Holders
    <3>2. t # s /\ slot[t] = c
      BY <1>1, <1>2, <3>1 DEF TypeOK
    <3>3. QED
      BY <3>2
  <2>2. ASSUME NEW t \in Slot \ {s}, slot[t] = c PROVE c \in live'
    <3>1. slot'[t] = c
      BY <1>2, <2>2 DEF TypeOK
    <3>2. QED
      BY <1>1, <1>3, <3>1, <2>2 DEF HeldIsLive
  <2>3. QED
    BY <2>1, <2>2
<1>6. QED
  BY <1>1, <1>2, <1>4, <1>5 DEF Pool!Release

(* The reference-counted list is a correct implementation of a pool of     *)
(* shared connections.                                                     *)
THEOREM ImplementsPool == Spec => PoolSpec
<1>1. Init => Pool!Init
  BY DEF Init, Pool!Init
<1>2. IInv /\ [Next]_vars => [Pool!Next]_Pool!vars
  <2> SUFFICES ASSUME IInv, [Next]_vars PROVE [Pool!Next]_Pool!vars
    OBVIOUS
  <2>1. CASE UNCHANGED vars
    BY <2>1 DEF vars, Pool!vars
  <2>2. ASSUME NEW s \in Slot, NEW k \in Key,
               clnt_create_cached(s, k) \/ clnttcp_create_cached(s, k)
        PROVE  Pool!Next
    BY <2>2, ObtainAcquires DEF clnt_create_cached, clnttcp_create_cached, Pool!Next
  <2>3. ASSUME NEW s \in Slot, NEW k \in Key, clnt_create_fails(s, k)
        PROVE  UNCHANGED Pool!vars
    BY <2>3 DEF clnt_create_fails, Unreachable, Pool!vars
  <2>4. ASSUME NEW s \in Slot, clnt_destroy_cached(s)
        PROVE  Pool!Next
    BY <2>4, DestroyReleases DEF Pool!Next
  <2>5. QED
    BY <2>1, <2>2, <2>3, <2>4 DEF Next
<1>3. QED
  BY <1>1, <1>2, Invariance, PTL DEF Spec, PoolSpec, Pool!Spec
=============================================================================
