------------------------- MODULE Vxi11DeviceProofs --------------------------
(***************************************************************************)
(* Proofs about Vxi11Device for any number of handles, servers,            *)
(* connections and link identifiers.  What the connection cache does for   *)
(* the handles is taken from RpcCacheProofs.                               *)
(*                                                                         *)
(* What a handle has depends on how far the call on it has got: InCall     *)
(* says that for the call in progress, HandleOK for the other handles.     *)
(* With that, links and locks need two more facts: every handle that       *)
(* stores a link identifier owns that link (OwnLink), so that no two store *)
(* the same, and only open handles hold locks (HeldOK).  Both leave out    *)
(* the links that a refused create_link has named.                         *)
(***************************************************************************)
EXTENDS Vxi11Device, FiniteSetTheorems, TLAPS

CacheProofs == INSTANCE RpcCacheProofs WITH Resolve <- [k \in HostKey \cup AddrKey |-> k]

Places == {"idle", "link", "abrt", "close_abrt", "close_link", "close_core", "wait"}

CallType == [fn : {"none", "open", "close", "lock"}, h : Handle \cup {NoHandle},
             at : Places, doAbort : BOOLEAN]

DevType ==
    /\ dev \in [Handle -> [lid : Lid \cup {NOLID}, io_timeout : Tmo, doLocking : BOOLEAN]]
    /\ st \in [Handle -> {"closed", "open"}]
    /\ held \subseteq Handle
    /\ call \in CallType

ServerType ==
    /\ link \in [Host -> [Lid -> [owner : Handle \cup {NoHandle},
                                  conn : Client \cup {NoClient}]]]
    /\ lock \in [Host -> Lid \cup {NOLID, OtherLid}]
    /\ waiting \in [Host -> SUBSET Lid]
    /\ rpcTmo \in [Client -> Tmo]
    /\ down \subseteq live
    /\ named \in [Host -> SUBSET Lid]

(* Where a call is, and what its handle has there.                         *)
InCall ==
    LET h == call.h  lid == dev[call.h].lid IN
    /\ call.at = "idle" => call = Idle
    /\ call.at # "idle" => h \in Handle
    /\ call.at = "link" => st[h] = "closed" /\ core(h) # NoClient /\ abrt(h) = NoClient
                           /\ lid = NOLID
    /\ call.at = "abrt" => st[h] = "closed" /\ core(h) # NoClient /\ abrt(h) = NoClient
                           /\ lid # NOLID
    /\ call.at = "close_abrt" => st[h] = "closed"
    /\ call.at = "close_link" => st[h] = "closed" /\ abrt(h) = NoClient
    /\ call.at = "close_core" => st[h] = "closed" /\ abrt(h) = NoClient /\ lid = NOLID
    /\ call.at = "wait" => st[h] = "open"

HandleOK ==
    \A h \in Handle :
        /\ dev[h].lid # NOLID => core(h) # NoClient
        /\ st[h] = "open" => core(h) # NoClient /\ dev[h].lid # NOLID

DevInv ==
    /\ CacheProofs!IInv
    /\ DevType /\ ServerType
    /\ InCall /\ HandleOK /\ DestroyAsserts

(* A handle stores a link over a connection that works, and not one that   *)
(* came with a refusal.                                                    *)
Counted(h) == dev[h].lid # NOLID /\ core(h) \notin down /\ ~Named(h)

(* No two such handles store the same link: each owns its own.             *)
OwnLink ==
    \A h \in Handle :
        Counted(h) => link[hostOf(h)][dev[h].lid] = [owner |-> h, conn |-> core(h)]

HeldOK == \A h \in held : st[h] = "open"

LinkInv == DevInv /\ OwnLink /\ HeldOK /\ LockAgreement

-----------------------------------------------------------------------------
(* The cache under the handles is one of those RpcCacheProofs is about.    *)
LEMMA CacheAssumption == CacheProofs!RpcCacheAssumption
<1>1. IsFiniteSet(Slot)
  <2>1. IsFiniteSet({"core"})
    BY FS_Singleton
  <2>2. IsFiniteSet({"core"} \cup {"abrt"})
    BY <2>1, FS_AddElement
  <2>3. Slot = Handle \X ({"core"} \cup {"abrt"})
    BY DEF Slot
  <2>4. QED
    BY <2>2, <2>3, Vxi11DeviceAssumption, FS_Product
<1>2. CacheProofs!IsFiniteSet(Slot)
  BY <1>1 DEF IsFiniteSet, CacheProofs!IsFiniteSet
<1>3. HostKey \cap AddrKey = {}
  BY DEF HostKey, AddrKey, CoreKey, AbrtKey
<1>4. QED
  BY <1>2, <1>3, Vxi11DeviceAssumption
     DEF CacheProofs!RpcCacheAssumption, CacheProofs!Key

(* What the handles rely on: their pointers lead to connections that are   *)
(* there.                                                                  *)
LEMMA CacheFacts ==
    ASSUME CacheProofs!IInv
    PROVE  /\ slot \in [Slot -> Client \cup {NoClient}]
           /\ asked \in [Slot -> HostKey \cup AddrKey]
           /\ live \subseteq Client /\ NoClient \notin live
           /\ \A s \in Slot : slot[s] # NoClient => slot[s] \in live
           /\ \A h \in Handle : hostOf(h) \in Host
<1>1. /\ slot \in [Slot -> Client \cup {NoClient}]
      /\ asked \in [Slot -> HostKey \cup AddrKey]
      /\ live \subseteq Client
      /\ \A s \in Slot : slot[s] # NoClient => slot[s] \in live
  BY DEF CacheProofs!IInv, CacheProofs!TypeOK, CacheProofs!HeldIsLive, CacheProofs!Key
<1>2. \A h \in Handle : hostOf(h) \in Host
  BY <1>1 DEF hostOf, HostKey, AddrKey, CoreKey, AbrtKey, Slot
<1>3. QED
  BY <1>1, <1>2, Vxi11DeviceAssumption

(* Both create functions fill an empty field with a connection.            *)
LEMMA ObtainStep ==
    ASSUME CacheProofs!IInv, NEW s \in Slot, NEW k \in HostKey \cup AddrKey,
           Cache!clnt_create_cached(s, k) \/ Cache!clnttcp_create_cached(s, k)
    PROVE  /\ CacheProofs!IInv'
           /\ \E c \in Client : slot' = [slot EXCEPT ![s] = c]
           /\ slot[s] = NoClient
           /\ asked' = [asked EXCEPT ![s] = k]
           /\ live \subseteq live'
<1>1. Cache!Obtain(s, k) /\ CacheProofs!Obtain(s, k)
  BY DEF Cache!clnt_create_cached, Cache!clnttcp_create_cached,
         Cache!Obtain, Cache!Reuse, Cache!Connect, Cache!First, Cache!WithKey, Cache!PushFront,
         CacheProofs!Obtain, CacheProofs!Reuse, CacheProofs!Connect, CacheProofs!First,
         CacheProofs!WithKey, CacheProofs!PushFront
<1>2. CacheProofs!Next
  BY <1>1 DEF CacheProofs!Next, CacheProofs!clnt_create_cached,
              CacheProofs!clnttcp_create_cached, CacheProofs!Key
<1>3. CacheProofs!IInv'
  BY <1>2, CacheAssumption, CacheProofs!NextInv
<1>4. /\ \E c : slot' = [slot EXCEPT ![s] = c]
      /\ slot[s] = NoClient /\ asked' = [asked EXCEPT ![s] = k] /\ live \subseteq live'
  BY <1>1 DEF Cache!Obtain, Cache!Reuse, Cache!Connect
<1>5. \E c \in Client : slot' = [slot EXCEPT ![s] = c]
  <2>1. CASE Cache!Reuse(s, k)
    <3>1. PICK i \in DOMAIN cache : slot' = [slot EXCEPT ![s] = cache[i].clnt]
      BY <2>1 DEF Cache!Reuse, Cache!First, Cache!WithKey
    <3>2. cache[i] \in CacheProofs!Entry
      BY <3>1 DEF CacheProofs!IInv, CacheProofs!TypeOK
    <3>3. cache[i].clnt \in Client
      BY <3>2 DEF CacheProofs!Entry
    <3>4. QED
      BY <3>1, <3>3
  <2>2. CASE Cache!Connect(s, k)
    BY <2>2 DEF Cache!Connect
  <2>3. QED
    BY <1>1, <2>1, <2>2 DEF Cache!Obtain
<1>6. QED
  BY <1>3, <1>4, <1>5

(* A field is cleared; what others hold stays.                             *)
LEMMA DestroyStep ==
    ASSUME CacheProofs!IInv, NEW s \in Slot, Cache!clnt_destroy_cached(s)
    PROVE  /\ CacheProofs!IInv'
           /\ slot' = [slot EXCEPT ![s] = NoClient]
           /\ asked' = asked
           /\ live' \subseteq live
<1>1. CacheProofs!clnt_destroy_cached(s)
  BY DEF Cache!clnt_destroy_cached, Cache!LastUse, Cache!StillUsed, Cache!NonCached,
         Cache!First, Cache!WithClient, Cache!Unlink,
         CacheProofs!clnt_destroy_cached, CacheProofs!LastUse, CacheProofs!StillUsed,
         CacheProofs!NonCached, CacheProofs!First, CacheProofs!WithClient, CacheProofs!Unlink
<1>2. CacheProofs!IInv'
  BY <1>1, CacheAssumption, CacheProofs!NextInv DEF CacheProofs!Next
<1>3. QED
  BY <1>2 DEF Cache!clnt_destroy_cached, Cache!LastUse, Cache!StillUsed, Cache!NonCached

(* Steps the cache has no part in, and a create function that fails.       *)
LEMMA SameCache ==
    ASSUME CacheProofs!IInv, UNCHANGED cacheVars
    PROVE  CacheProofs!IInv'
  BY CacheAssumption, CacheProofs!NextInv DEF cacheVars, CacheProofs!vars

-----------------------------------------------------------------------------
(* A step that leaves the handles what they have, and in which no open or  *)
(* close takes part.                                                       *)
LEMMA HandlesKeep ==
    ASSUME DevInv, slot' = slot, st' = st,
           \A h \in Handle : dev'[h].lid = dev[h].lid,
           \/ call' = call
           \/ call.at \in {"idle", "wait"} /\ call' = Idle
           \/ /\ call.at = "idle" /\ call'.at = "wait"
              /\ call'.h \in Handle /\ st[call'.h] = "open"
    PROVE  InCall' /\ HandleOK' /\ DestroyAsserts'
<1>1. HandleOK'
  BY DEF DevInv, HandleOK, core
<1>2. InCall'
  BY DEF DevInv, InCall, Idle, core, abrt
<1>3. DestroyAsserts'
  BY Vxi11DeviceAssumption DEF DevInv, InCall, Idle, core, abrt, DestroyAsserts
<1>4. QED
  BY <1>1, <1>2, <1>3

(* The two fields of a handle are apart, and apart from those of others.   *)
LEMMA FieldChange ==
    ASSUME CacheProofs!IInv, NEW h \in Handle, NEW chan \in {"core", "abrt"}, NEW c,
           slot' = [slot EXCEPT ![<<h, chan>>] = c]
    PROVE  \A g \in Handle :
             /\ core(g)' = IF g = h /\ chan = "core" THEN c ELSE core(g)
             /\ abrt(g)' = IF g = h /\ chan = "abrt" THEN c ELSE abrt(g)
<1>1. slot \in [Slot -> Client \cup {NoClient}]
  BY CacheFacts
<1>2. QED
  BY <1>1 DEF core, abrt, Slot

(* No call is one the types allow.                                         *)
LEMMA IdleType == Idle \in CallType /\ Idle.at = "idle" /\ Idle.h = NoHandle
  BY DEF Idle, CallType, Places

(* Links of connections that are gone are links.                           *)
LEMMA OrphanType ==
    ASSUME ServerType, NEW gone
    PROVE  Orphaned(gone) \in [Host -> [Lid -> [owner : Handle \cup {NoHandle},
                                                conn : Client \cup {NoClient}]]]
  BY DEF ServerType, Orphaned

(* Initially there is nothing.                                             *)
LEMMA InitDev == Init => DevInv
<1> SUFFICES ASSUME Init
             PROVE  DevInv
  OBVIOUS
<1>1. CacheProofs!IInv
  <2>1. CacheProofs!Init
    <3>1. asked \in [Slot -> HostKey \cup AddrKey] /\ peer \in [Client -> HostKey \cup AddrKey]
      BY DEF Init, Cache!Init, Cache!Key
    <3>2. QED
      BY <3>1 DEF Init, Cache!Init, CacheProofs!Init, CacheProofs!Key
  <2>2. QED
    BY <2>1, CacheAssumption, CacheProofs!InitInv
<1>2. /\ slot = [s \in Slot |-> NoClient] /\ live = {}
      /\ dev = [h \in Handle |-> [lid |-> NOLID, io_timeout |-> DfltTmo, doLocking |-> FALSE]]
      /\ st = [h \in Handle |-> "closed"] /\ held = {} /\ call = Idle
  BY DEF Init, Cache!Init
<1>3. DevType
  BY <1>2, Vxi11DeviceAssumption DEF DevType, Idle, CallType, Places
<1>4. ServerType
  BY <1>2, Vxi11DeviceAssumption DEF Init, ServerType, NoLink
<1>5. InCall /\ HandleOK /\ DestroyAsserts
  BY <1>2 DEF InCall, Idle, HandleOK, DestroyAsserts, core, abrt, Slot
<1>6. QED
  BY <1>1, <1>3, <1>4, <1>5 DEF DevInv

(* vxi11_open up to the core channel.                                      *)
LEMMA OpenBegins ==
    ASSUME DevInv, NEW h \in Handle, NEW host \in Host, NEW doAbort \in BOOLEAN,
           vxi11_open(h, host, doAbort)
    PROVE  DevInv'
<1>1. CoreKey(host) \in HostKey /\ <<h, "core">> \in Slot /\ <<h, "abrt">> \in Slot
  BY DEF HostKey, Slot
<1>2. /\ CacheProofs!IInv'
      /\ \E c \in Client : slot' = [slot EXCEPT ![<<h, "core">>] = c]
      /\ live \subseteq live'
  BY <1>1, ObtainStep DEF DevInv, vxi11_open
<1>3. /\ core(h)' # NoClient /\ abrt(h)' = abrt(h)
      /\ \A g \in Handle \ {h} : core(g)' = core(g) /\ abrt(g)' = abrt(g)
  BY <1>1, <1>2, CacheFacts, Vxi11DeviceAssumption DEF DevInv, core, abrt, Slot
<1>4. call = Idle /\ st[h] = "closed" /\ dev' = dev /\ st' = st /\ held' = held
  BY DEF vxi11_open, handleVars
<1>5. /\ call'.at = "link" /\ call'.h = h
      /\ call' \in CallType
  BY DEF vxi11_open, Begin, CallType, Places
<1>6. abrt(h) = NoClient /\ dev[h].lid = NOLID
  BY <1>4, Vxi11DeviceAssumption DEF DevInv, DestroyAsserts, Idle
<1>7. DevType'
  BY <1>4, <1>5 DEF DevInv, DevType
<1>8. ServerType'
  BY <1>2, Vxi11DeviceAssumption
     DEF DevInv, vxi11_open, FreshTimeouts, serverVars, ServerType
<1>9. InCall'
  BY <1>3, <1>4, <1>5, <1>6 DEF InCall
<1>10. HandleOK' /\ DestroyAsserts'
  BY <1>3, <1>4, <1>5, <1>6, Vxi11DeviceAssumption DEF DevInv, HandleOK, DestroyAsserts, Idle
<1>11. QED
  BY <1>2, <1>7, <1>8, <1>9, <1>10 DEF DevInv

(* The answer to create_link, or none.                                     *)
LEMMA LinkAnswered ==
    ASSUME DevInv, vxi11_create_link \/ create_link_refused \/ create_link_unanswered
    PROVE  DevInv'
<1> DEFINE h == call.h
<1>1. /\ call.at = "link" /\ h \in Handle
      /\ st[h] = "closed" /\ core(h) # NoClient /\ abrt(h) = NoClient /\ dev[h].lid = NOLID
  BY DEF DevInv, InCall, vxi11_create_link, create_link_refused, create_link_unanswered
<1>2. /\ UNCHANGED cacheVars /\ slot' = slot /\ live' = live
      /\ held' = held /\ waiting' = waiting /\ rpcTmo' = rpcTmo /\ down' = down
      /\ named' \in [Host -> SUBSET Lid]
  <2>1. named \in [Host -> SUBSET Lid]
    BY DEF DevInv, ServerType
  <2>2. \A k \in ErrLid : {k} \ {NOLID} \subseteq Lid
    BY Vxi11DeviceAssumption
  <2>3. CASE create_link_refused
    BY <2>1, <2>2, <2>3 DEF create_link_refused, cacheVars, serverVars
  <2>4. CASE vxi11_create_link \/ create_link_unanswered
    BY <2>1, <2>4 DEF vxi11_create_link, create_link_unanswered, cacheVars, handleVars, connVars
  <2>5. QED
    BY <2>3, <2>4
<1>3. CacheProofs!IInv'
  BY <1>2, SameCache DEF DevInv
<1>4. \A g \in Handle : core(g)' = core(g) /\ abrt(g)' = abrt(g)
  BY <1>2 DEF core, abrt
<1>5. hostOf(h) \in Host
  BY <1>1, CacheFacts DEF DevInv
<1>6. CASE vxi11_create_link
  <2>1. PICK l \in Lid :
            /\ link' = [link EXCEPT ![hostOf(h)][l] = [owner |-> h, conn |-> core(h)]]
            /\ lock' = IF dev[h].doLocking THEN [lock EXCEPT ![hostOf(h)] = l] ELSE lock
            /\ dev' = [dev EXCEPT ![h].lid = l]
    BY <1>6 DEF vxi11_create_link, ServerLinks
  <2>2. \/ call' = [call EXCEPT !.at = "abrt"] /\ st' = st
        \/ call' = Idle /\ st' = [st EXCEPT ![h] = "open"]
    BY <1>6 DEF vxi11_create_link, AfterLink, Goto, Return
  <2>3. DevType'
    <3>1. dev' \in [Handle -> [lid : Lid \cup {NOLID}, io_timeout : Tmo, doLocking : BOOLEAN]]
      BY <1>1, <2>1 DEF DevInv, DevType
    <3>2. st' \in [Handle -> {"closed", "open"}]
      BY <2>2 DEF DevInv, DevType
    <3>3. call' \in CallType
      <4>1. CASE call' = [call EXCEPT !.at = "abrt"]
        BY <4>1 DEF DevInv, DevType, CallType, Places
      <4>2. QED
        BY <2>2, <4>1, IdleType
    <3>4. QED
      BY <1>2, <3>1, <3>2, <3>3 DEF DevInv, DevType
  <2>4. ServerType'
    <3>1. core(h) \in Client
      BY <1>1, CacheFacts DEF DevInv, core, Slot
    <3>2. link' \in [Host -> [Lid -> [owner : Handle \cup {NoHandle},
                                      conn : Client \cup {NoClient}]]]
      BY <1>1, <1>5, <2>1, <3>1 DEF DevInv, ServerType
    <3>3. lock' \in [Host -> Lid \cup {NOLID, OtherLid}]
      BY <2>1 DEF DevInv, ServerType
    <3>4. QED
      BY <1>2, <3>2, <3>3 DEF DevInv, ServerType
  <2>5. /\ dev'[h].lid = l /\ l # NOLID
        /\ \A g \in Handle \ {h} : dev'[g] = dev[g] /\ st'[g] = st[g]
        /\ h # NoHandle
    BY <1>1, <2>1, <2>2, Vxi11DeviceAssumption DEF DevInv, DevType
  <2>6. InCall' /\ HandleOK' /\ DestroyAsserts'
    <3>1. CASE call' = [call EXCEPT !.at = "abrt"] /\ st' = st
      <4>1. call'.at = "abrt" /\ call'.h = h
        BY <3>1 DEF DevInv, DevType
      <4>2. QED
        BY <1>1, <1>4, <2>5, <3>1, <4>1 DEF DevInv, InCall, HandleOK, DestroyAsserts
    <3>2. CASE call' = Idle /\ st' = [st EXCEPT ![h] = "open"]
      <4>1. st'[h] = "open" /\ call'.at = "idle" /\ call'.h = NoHandle
        BY <1>1, <3>2 DEF DevInv, DevType, Idle
      <4>2. QED
        BY <1>1, <1>4, <2>5, <3>2, <4>1 DEF DevInv, InCall, HandleOK, DestroyAsserts
    <3>3. QED
      BY <2>2, <3>1, <3>2
  <2>7. QED
    BY <1>3, <2>3, <2>4, <2>6 DEF DevInv
<1>7. CASE create_link_refused \/ create_link_unanswered
  <2>1. /\ st' = st
        /\ call'.at = "close_abrt" /\ call'.h = h
        /\ call' \in CallType
    <3>1. st' = st /\ Begin("close", h, "close_abrt", FALSE)
      BY <1>7 DEF create_link_refused, create_link_unanswered, Fail, handleVars
    <3>2. QED
      BY <1>1, <3>1 DEF Begin, CallType, Places
  <2>2. PICK l \in Lid \cup {NOLID} : dev' = [dev EXCEPT ![h].lid = l]
    <3>1. CASE create_link_refused
      BY <3>1, Vxi11DeviceAssumption DEF create_link_refused
    <3>2. CASE create_link_unanswered
      <4>1. dev' = dev
        BY <3>2 DEF create_link_unanswered, handleVars
      <4>2. dev = [dev EXCEPT ![h].lid = NOLID]
        BY <1>1 DEF DevInv, DevType
      <4>3. QED
        BY <4>1, <4>2
    <3>3. QED
      BY <1>7, <3>1, <3>2
  <2>3. DevType'
    BY <1>1, <1>2, <2>1, <2>2 DEF DevInv, DevType
  <2>4. ServerType'
    <3>1. core(h) \in Client
      BY <1>1, CacheFacts DEF DevInv, core, Slot
    <3>2. link' \in [Host -> [Lid -> [owner : Handle \cup {NoHandle},
                                      conn : Client \cup {NoClient}]]]
      <4>1. CASE link' = link
        BY <4>1 DEF DevInv, ServerType
      <4>2. ASSUME NEW k \in Lid, ServerLinks(h, k, NoHandle)
            PROVE  link' \in [Host -> [Lid -> [owner : Handle \cup {NoHandle},
                                               conn : Client \cup {NoClient}]]]
        BY <1>5, <3>1, <4>2 DEF ServerLinks, DevInv, ServerType
      <4>3. QED
        BY <1>7, <4>1, <4>2 DEF create_link_refused, create_link_unanswered, serverVars
    <3>3. lock' \in [Host -> Lid \cup {NOLID, OtherLid}]
      <4>1. lock' = lock \/ \E k \in Lid : ServerLinks(h, k, NoHandle)
        BY <1>7 DEF create_link_refused, create_link_unanswered, serverVars
      <4>2. QED
        BY <4>1 DEF ServerLinks, DevInv, ServerType
    <3>4. QED
      BY <1>2, <3>2, <3>3 DEF DevInv, ServerType
  <2>5. \A g \in Handle \ {h} : dev'[g] = dev[g]
    BY <2>2 DEF DevInv, DevType
  <2>6. InCall' /\ HandleOK' /\ DestroyAsserts'
    BY <1>1, <1>4, <2>1, <2>5 DEF DevInv, InCall, HandleOK, DestroyAsserts
  <2>7. QED
    BY <1>3, <2>3, <2>4, <2>6 DEF DevInv
<1>8. QED
  BY <1>6, <1>7

(* vxi11_open's last part: the abort channel, or none.                     *)
LEMMA AbortChannel ==
    ASSUME DevInv, vxi11_open_abrt_channel \/ vxi11_open_abrt_channel_fails
    PROVE  DevInv'
<1> DEFINE h == call.h
<1>1. /\ call.at = "abrt" /\ h \in Handle
      /\ st[h] = "closed" /\ core(h) # NoClient /\ abrt(h) = NoClient /\ dev[h].lid # NOLID
  BY DEF DevInv, InCall, vxi11_open_abrt_channel, vxi11_open_abrt_channel_fails
<1>2. <<h, "abrt">> \in Slot /\ AbrtKey(hostOf(h)) \in AddrKey
  BY <1>1, CacheFacts DEF DevInv, Slot, AddrKey
<1>3. /\ dev' = dev /\ held' = held /\ link' = link /\ lock' = lock /\ waiting' = waiting
      /\ down' = down /\ named' = named
  BY DEF vxi11_open_abrt_channel, vxi11_open_abrt_channel_fails, handleVars, serverVars, connVars
<1>4. CASE vxi11_open_abrt_channel
  <2>1. /\ CacheProofs!IInv'
        /\ \E c \in Client : slot' = [slot EXCEPT ![<<h, "abrt">>] = c]
        /\ live \subseteq live'
    BY <1>2, <1>4, ObtainStep DEF DevInv, vxi11_open_abrt_channel
  <2>2. \A g \in Handle : /\ core(g)' = core(g)
                          /\ g # h => abrt(g)' = abrt(g)
    BY <1>1, <2>1, CacheFacts DEF DevInv, core, abrt, Slot
  <2>3. call' = Idle /\ st' = [st EXCEPT ![h] = "open"]
    BY <1>4 DEF vxi11_open_abrt_channel, Return
  <2>4. DevType'
    BY <1>1, <1>3, <2>3 DEF DevInv, DevType, Idle, CallType, Places
  <2>5. ServerType'
    BY <1>3, <1>4, <2>1, Vxi11DeviceAssumption
       DEF DevInv, vxi11_open_abrt_channel, FreshTimeouts, ServerType
  <2>6. InCall' /\ HandleOK' /\ DestroyAsserts'
    <3>1. /\ st'[h] = "open" /\ call'.at = "idle" /\ call'.h = NoHandle
          /\ \A g \in Handle \ {h} : st'[g] = st[g]
      BY <1>1, <2>3 DEF DevInv, DevType, Idle
    <3>2. QED
      BY <1>1, <1>3, <2>2, <2>3, <3>1 DEF DevInv, InCall, HandleOK, DestroyAsserts
  <2>7. QED
    BY <2>1, <2>4, <2>5, <2>6 DEF DevInv
<1>5. CASE vxi11_open_abrt_channel_fails
  <2>1. UNCHANGED cacheVars /\ slot' = slot /\ live' = live /\ st' = st /\ rpcTmo' = rpcTmo
    BY <1>5 DEF vxi11_open_abrt_channel_fails, Cache!clnt_create_fails, cacheVars,
                handleVars, connVars
  <2>2. CacheProofs!IInv'
    BY <2>1, SameCache DEF DevInv
  <2>3. /\ call'.at = "close_abrt" /\ call'.h = h
        /\ call' \in CallType
    BY <1>1, <1>5 DEF vxi11_open_abrt_channel_fails, Fail, Begin, CallType, Places
  <2>4. DevType' /\ ServerType'
    BY <1>3, <2>1, <2>3 DEF DevInv, DevType, ServerType
  <2>5. InCall' /\ HandleOK' /\ DestroyAsserts'
    BY <1>1, <1>3, <2>1, <2>3 DEF DevInv, InCall, HandleOK, DestroyAsserts, core, abrt
  <2>6. QED
    BY <2>2, <2>4, <2>5 DEF DevInv
<1>6. QED
  BY <1>4, <1>5

(* A channel is closed: its field is empty, and connections that broke are *)
(* still connections that are there.                                       *)
LEMMA ChannelCloses ==
    ASSUME DevInv, NEW s \in Slot, CloseChannel(s)
    PROVE  /\ CacheProofs!IInv'
           /\ slot' = [slot EXCEPT ![s] = NoClient]
           /\ asked' = asked
           /\ down' = down \cap live' /\ live' \subseteq live
           /\ link' = Orphaned(live \ live')
<1>1. CASE slot[s] = NoClient /\ UNCHANGED <<cacheVars, link, down>>
  <2>1. CacheProofs!IInv' /\ slot' = slot /\ asked' = asked /\ live' = live
    BY <1>1, SameCache DEF DevInv, cacheVars
  <2>2. slot = [slot EXCEPT ![s] = NoClient]
    BY <1>1, CacheFacts DEF DevInv
  <2>3. down \cap live = down
    BY DEF DevInv, ServerType
  <2>4. Orphaned({}) = link
    BY DEF DevInv, ServerType, Orphaned
  <2>5. QED
    BY <1>1, <2>1, <2>2, <2>3, <2>4
<1>2. CASE /\ Cache!clnt_destroy_cached(s)
           /\ down' = down \cap live' /\ link' = Orphaned(live \ live')
  BY <1>2, DestroyStep DEF DevInv
<1>3. QED
  BY <1>1, <1>2 DEF CloseChannel

(* vxi11_close and its parts, for a handle that was open or is half open.  *)
LEMMA Closing ==
    ASSUME DevInv,
           \/ \E h \in Handle : vxi11_close(h)
           \/ vxi11_close_abrt_channel \/ vxi11_destroy_link \/ vxi11_close_core_channel
    PROVE  DevInv'
<1>1. ASSUME NEW h \in Handle, vxi11_close(h)
      PROVE  DevInv'
  <2>1. /\ call = Idle /\ st' = [st EXCEPT ![h] = "closed"] /\ held' = held \ {h}
        /\ UNCHANGED cacheVars /\ slot' = slot /\ live' = live /\ dev' = dev
        /\ UNCHANGED <<link, lock, waiting, rpcTmo, down, named>>
    BY <1>1 DEF vxi11_close, cacheVars, serverVars, connVars
  <2>2. call'.at = "close_abrt" /\ call'.h = h /\ call' \in CallType
    BY <1>1 DEF vxi11_close, Begin, CallType, Places
  <2>3. CacheProofs!IInv'
    BY <2>1, SameCache DEF DevInv
  <2>4. DevType' /\ ServerType'
    BY <2>1, <2>2 DEF DevInv, DevType, ServerType
  <2>5. InCall' /\ HandleOK' /\ DestroyAsserts'
    <3>1. \A g \in Handle : st'[g] = IF g = h THEN "closed" ELSE st[g]
      BY <2>1 DEF DevInv, DevType
    <3>2. \A g \in Handle : call.h # g
      BY <2>1, Vxi11DeviceAssumption DEF Idle
    <3>3. QED
      BY <2>1, <2>2, <3>1, <3>2 DEF DevInv, InCall, HandleOK, DestroyAsserts, core, abrt
  <2>6. QED
    BY <2>3, <2>4, <2>5 DEF DevInv
<1>2. CASE vxi11_close_abrt_channel
  <2>1. PICK h \in Handle : call.h = h /\ call.at = "close_abrt" /\ st[h] = "closed"
    BY <1>2 DEF vxi11_close_abrt_channel, DevInv, InCall
  <2>2. <<h, "abrt">> \in Slot
    BY <2>1 DEF Slot
  <2>3. /\ CacheProofs!IInv' /\ slot' = [slot EXCEPT ![<<h, "abrt">>] = NoClient]
        /\ down' = down \cap live' /\ link' = Orphaned(live \ live')
    BY <1>2, <2>1, <2>2, ChannelCloses DEF vxi11_close_abrt_channel
  <2>4. /\ dev' = dev /\ st' = st /\ held' = held /\ UNCHANGED <<lock, waiting, rpcTmo, named>>
        /\ call'.at = "close_link" /\ call'.h = h /\ call' \in CallType
    BY <1>2, <2>1 DEF vxi11_close_abrt_channel, handleVars, Goto, DevInv, DevType, CallType, Places
  <2>5. /\ abrt(h)' = NoClient
        /\ \A g \in Handle : core(g)' = core(g) /\ (g # h => abrt(g)' = abrt(g))
    BY <2>1, <2>3, FieldChange DEF DevInv
  <2>6. DevType' /\ ServerType'
    BY <2>3, <2>4, OrphanType DEF DevInv, DevType, ServerType
  <2>7. InCall' /\ HandleOK' /\ DestroyAsserts'
    BY <2>1, <2>4, <2>5 DEF DevInv, InCall, HandleOK, DestroyAsserts
  <2>8. QED
    BY <2>3, <2>6, <2>7 DEF DevInv
<1>3. CASE vxi11_destroy_link
  <2> DEFINE h == call.h
  <2>1. call.at = "close_link" /\ h \in Handle /\ st[h] = "closed" /\ abrt(h) = NoClient
    BY <1>3 DEF vxi11_destroy_link, DevInv, InCall
  <2>2. /\ dev' = [dev EXCEPT ![h].lid = NOLID] /\ st' = st /\ held' = held
        /\ UNCHANGED cacheVars /\ slot' = slot /\ live' = live
        /\ UNCHANGED <<rpcTmo, down>>
        /\ named' = [named EXCEPT ![hostOf(h)] = @ \cap StoredByOthers(h)]
        /\ call'.at = "close_core" /\ call'.h = h /\ call' \in CallType
    BY <1>3 DEF vxi11_destroy_link, cacheVars, Goto, DevInv, DevType, CallType, Places
  <2>3. CacheProofs!IInv'
    BY <2>2, SameCache DEF DevInv
  <2>4. DevType'
    BY <2>1, <2>2 DEF DevInv, DevType
  <2>5. ServerType'
    <3> DEFINE left == named[hostOf(h)] \cap StoredByOthers(h)
    <3>4. left \subseteq Lid \/ hostOf(h) \notin Host
      BY DEF DevInv, ServerType
    <3>5. named' = [named EXCEPT ![hostOf(h)] = left]
      BY <2>2
    <3> HIDE DEF left
    <3>6. named' \in [Host -> SUBSET Lid]
      BY <3>4, <3>5 DEF DevInv, ServerType
    <3>1. CASE UNCHANGED serverVars
      BY <2>2, <3>1, <3>6 DEF DevInv, ServerType, serverVars
    <3>2. CASE Free(hostOf(h), dev[h].lid)
      BY <2>2, <3>2, <3>6 DEF DevInv, ServerType, Free, NoLink
    <3>3. QED
      BY <1>3, <3>1, <3>2 DEF vxi11_destroy_link, DestroyLink
  <2>6. InCall' /\ HandleOK' /\ DestroyAsserts'
    <3>1. \A g \in Handle : dev'[g].lid = IF g = h THEN NOLID ELSE dev[g].lid
      BY <2>2 DEF DevInv, DevType
    <3>2. QED
      BY <2>1, <2>2, <3>1 DEF DevInv, InCall, HandleOK, DestroyAsserts, core, abrt
  <2>7. QED
    BY <2>3, <2>4, <2>5, <2>6 DEF DevInv
<1>4. CASE vxi11_close_core_channel
  <2>1. PICK h \in Handle : /\ call.h = h /\ call.at = "close_core"
                            /\ st[h] = "closed" /\ abrt(h) = NoClient /\ dev[h].lid = NOLID
    BY <1>4 DEF vxi11_close_core_channel, DevInv, InCall
  <2>2. <<h, "core">> \in Slot
    BY <2>1 DEF Slot
  <2>3. /\ CacheProofs!IInv' /\ slot' = [slot EXCEPT ![<<h, "core">>] = NoClient]
        /\ down' = down \cap live' /\ link' = Orphaned(live \ live')
    BY <1>4, <2>1, <2>2, ChannelCloses DEF vxi11_close_core_channel
  <2>4. /\ dev' = dev /\ st' = st /\ held' = held /\ UNCHANGED <<lock, waiting, rpcTmo, named>>
        /\ call' = Idle
    BY <1>4 DEF vxi11_close_core_channel, handleVars
  <2>5. /\ core(h)' = NoClient
        /\ \A g \in Handle : abrt(g)' = abrt(g) /\ (g # h => core(g)' = core(g))
    BY <2>1, <2>3, FieldChange DEF DevInv
  <2>6. DevType' /\ ServerType'
    BY <2>3, <2>4, OrphanType, IdleType DEF DevInv, DevType, ServerType
  <2>7. InCall' /\ HandleOK' /\ DestroyAsserts'
    <3>1. InCall'
      BY <2>4, IdleType DEF InCall
    <3>2. HandleOK'
      BY <2>1, <2>4, <2>5 DEF DevInv, HandleOK
    <3>3. DestroyAsserts'
      BY <2>1, <2>4, <2>5 DEF DevInv, DestroyAsserts
    <3>4. QED
      BY <3>1, <3>2, <3>3
  <2>8. QED
    BY <2>3, <2>6, <2>7 DEF DevInv
<1>5. QED
  BY <1>1, <1>2, <1>3, <1>4
(* Steps in which no open or close takes part.                             *)
LEMMA QuietStep ==
    ASSUME DevInv, UNCHANGED cacheVars, st' = st,
           \A h \in Handle : dev'[h].lid = dev[h].lid,
           \/ call' = call
           \/ call.at \in {"idle", "wait"} /\ call' = Idle
           \/ /\ call.at = "idle" /\ call'.at = "wait"
              /\ call'.h \in Handle /\ st[call'.h] = "open",
           DevType', ServerType'
    PROVE  DevInv'
<1>1. CacheProofs!IInv' /\ slot' = slot
  BY SameCache DEF DevInv, cacheVars
<1>2. InCall' /\ HandleOK' /\ DestroyAsserts'
  BY <1>1, HandlesKeep
<1>3. QED
  BY <1>1, <1>2 DEF DevInv

(* Calls that only look, or are told no.                                   *)
LEMMA NothingDone ==
    ASSUME DevInv,
           \/ lock_rpc_times_out
           \/ \E h \in Handle :
               \/ \E fn \in {"lock", "unlock", "generic"} : RejectedHere(fn, h)
               \/ generic_op(h)
               \/ \E host \in Host : vxi11_open_core_channel_fails(h, host)
    PROVE  DevInv'
<1>1. /\ call.at \in {"idle", "wait"} /\ call' = Idle
      /\ UNCHANGED <<handleVars, serverVars, connVars>>
  <2>1. CASE lock_rpc_times_out
    BY <2>1 DEF lock_rpc_times_out, Return
  <2>2. ASSUME NEW h \in Handle, NEW fn, RejectedHere(fn, h)
        PROVE  /\ call = Idle /\ call' = Idle
               /\ UNCHANGED <<handleVars, serverVars, connVars>>
    BY <2>2 DEF RejectedHere, Return
  <2>3. ASSUME NEW h \in Handle, generic_op(h)
        PROVE  /\ call = Idle /\ call' = Idle
               /\ UNCHANGED <<handleVars, serverVars, connVars>>
    BY <2>3 DEF generic_op, Return
  <2>4. ASSUME NEW h \in Handle, NEW host \in Host, vxi11_open_core_channel_fails(h, host)
        PROVE  /\ call = Idle /\ call' = Idle
               /\ UNCHANGED <<handleVars, serverVars, connVars>>
    BY <2>4 DEF vxi11_open_core_channel_fails, Return
  <2>5. QED
    BY <2>1, <2>2, <2>3, <2>4, IdleType
<1>2. CASE \E h \in Handle, host \in Host : vxi11_open_core_channel_fails(h, host)
  <2>1. UNCHANGED <<cache, slot, live, peer>> /\ CacheProofs!IInv'
    <3>1. PICK h \in Handle, host \in Host : vxi11_open_core_channel_fails(h, host)
      BY <1>2
    <3>2. UNCHANGED cacheVars
      BY <3>1 DEF vxi11_open_core_channel_fails, Cache!clnt_create_fails, cacheVars
    <3>3. QED
      BY <3>2, SameCache DEF DevInv, cacheVars
  <2>2. DevType' /\ ServerType'
    BY <1>1, <2>1, IdleType
       DEF DevInv, DevType, ServerType, handleVars, serverVars, connVars
  <2>3. InCall' /\ HandleOK' /\ DestroyAsserts'
    BY <1>1, <2>1, HandlesKeep DEF handleVars
  <2>4. QED
    BY <2>1, <2>2, <2>3 DEF DevInv
<1>3. CASE UNCHANGED cacheVars
  <2>1. DevType' /\ ServerType'
    BY <1>1, <1>3, IdleType
       DEF DevInv, DevType, ServerType, handleVars, serverVars, connVars, cacheVars
  <2>2. QED
    BY <1>1, <1>3, <2>1, QuietStep DEF handleVars
<1>4. QED
  BY <1>2, <1>3 DEF RejectedHere, generic_op, lock_rpc_times_out

(* The settings of a handle.                                               *)
LEMMA SettingsInv ==
    ASSUME DevInv, NEW h \in Handle,
           \/ \E t \in Tmo : vxi11_set_iotimeout(h, t)
           \/ \E b \in Policy : vxi11_set_lockpolicy(h, b)
    PROVE  DevInv'
<1>1. /\ UNCHANGED cacheVars /\ live' = live /\ st' = st /\ held' = held /\ call' = call
      /\ UNCHANGED serverVars /\ down' = down /\ named' = named
  BY DEF vxi11_set_iotimeout, vxi11_set_lockpolicy, cacheVars, connVars
<1>2. CASE \E t \in Tmo : vxi11_set_iotimeout(h, t)
  <2>1. PICK t \in Tmo : vxi11_set_iotimeout(h, t)
    BY <1>2
  <2>2. DevType' /\ \A g \in Handle : dev'[g].lid = dev[g].lid
    BY <1>1, <2>1 DEF vxi11_set_iotimeout, DevInv, DevType
  <2>3. ServerType'
    BY <1>1, <2>1 DEF vxi11_set_iotimeout, DevInv, ServerType, serverVars
  <2>4. QED
    BY <1>1, <2>2, <2>3, QuietStep
<1>3. CASE \E b \in Policy : vxi11_set_lockpolicy(h, b)
  <2>1. PICK b \in Policy : vxi11_set_lockpolicy(h, b)
    BY <1>3
  <2>2. DevType' /\ \A g \in Handle : dev'[g].lid = dev[g].lid
    BY <1>1, <2>1, Vxi11DeviceAssumption DEF vxi11_set_lockpolicy, DevInv, DevType
  <2>3. ServerType'
    BY <1>1, <2>1 DEF vxi11_set_lockpolicy, DevInv, ServerType, serverVars, connVars
  <2>4. QED
    BY <1>1, <2>2, <2>3, QuietStep
<1>4. QED
  BY <1>2, <1>3

(* Locking and unlocking, by the program and by others.                    *)
LEMMA LockingInv ==
    ASSUME DevInv,
           \/ \E h \in Handle : \/ vxi11_lock(h) \/ vxi11_unlock(h)
                                 \/ \E fn \in {"lock", "unlock", "generic"} : RpcFails(fn, h)
           \/ \E host \in Host : \/ \E l \in Lid : lock_granted(host, l) \/ lock_times_out(host, l)
                                 \/ OtherLocks(host) \/ OtherUnlocks(host)
    PROVE  DevInv'
<1>1. UNCHANGED <<cacheVars, dev, st, link, connVars>> /\ live' = live
  BY DEF vxi11_lock, vxi11_unlock, RpcFails, lock_granted, lock_times_out, OtherLocks,
         OtherUnlocks, cacheVars, handleVars
<1>2. ASSUME call' \in CallType,
             \/ call' = call
             \/ call.at \in {"idle", "wait"} /\ call' = Idle
             \/ /\ call.at = "idle" /\ call'.at = "wait"
                /\ call'.h \in Handle /\ st[call'.h] = "open",
             held' \subseteq Handle,
             lock' \in [Host -> Lid \cup {NOLID, OtherLid}],
             waiting' \in [Host -> SUBSET Lid]
      PROVE  DevInv'
  <2>1. DevType' /\ ServerType'
    BY <1>1, <1>2 DEF DevInv, DevType, ServerType, connVars
  <2>2. QED
    BY <1>1, <1>2, <2>1, QuietStep
<1>3. ASSUME NEW h \in Handle, vxi11_lock(h)
      PROVE  DevInv'
  <2>1. call.at = "idle" /\ Usable(h)
    BY <1>3 DEF vxi11_lock, Idle
  <2> DEFINE host == hostOf(h)  l == dev[h].lid
  <2>7. \/ /\ lock' = [lock EXCEPT ![host] = l] /\ held' = held \cup {h}
           /\ waiting' = waiting /\ Return("SUCCESS")
        \/ /\ waiting' = [waiting EXCEPT ![host] = @ \cup {l}]
           /\ Begin("lock", h, "wait", FALSE) /\ lock' = lock /\ held' = held
        \/ /\ Return("LOCKED") \/ Return("LINKINVAL")
           /\ UNCHANGED <<lock, held, waiting>>
    BY <1>3 DEF vxi11_lock
  <2>2. hostOf(h) \in Host /\ dev[h].lid \in Lid
    BY <2>1, CacheFacts DEF DevInv, DevType, Usable
  <2>3. st[h] = "open"
    BY <1>3, <2>1, Vxi11DeviceAssumption DEF vxi11_lock, Idle, Usable, DevInv, DevType, DestroyAsserts
  <2>4. /\ held' \subseteq Handle
        /\ lock' \in [Host -> Lid \cup {NOLID, OtherLid}]
        /\ waiting' \in [Host -> SUBSET Lid]
    <3>1. held' \subseteq Handle
      BY <2>7 DEF DevInv, DevType
    <3>2. lock' \in [Host -> Lid \cup {NOLID, OtherLid}]
      BY <2>2, <2>7 DEF DevInv, ServerType
    <3>3. waiting' \in [Host -> SUBSET Lid]
      <4>1. waiting[host] \cup {l} \in SUBSET Lid
        BY <2>2 DEF DevInv, ServerType
      <4>2. waiting' = waiting \/ waiting' = [waiting EXCEPT ![host] = waiting[host] \cup {l}]
        BY <2>7
      <4>3. QED
        BY <2>2, <4>1, <4>2 DEF DevInv, ServerType
    <3>4. QED
      BY <3>1, <3>2, <3>3
  <2>5. \/ call' = Idle
        \/ call' \in CallType /\ call'.at = "wait" /\ call'.h = h
    <3>1. call' = Idle \/ Begin("lock", h, "wait", FALSE)
      BY <2>7 DEF Return
    <3>2. CASE Begin("lock", h, "wait", FALSE)
      BY <3>2 DEF Begin, CallType, Places
    <3>3. QED
      BY <3>1, <3>2
  <2>6. QED
    BY <1>2, <2>1, <2>3, <2>4, <2>5, IdleType
<1>4. ASSUME NEW h \in Handle, vxi11_unlock(h)
      PROVE  DevInv'
  <2>1. call.at = "idle" /\ call' = Idle /\ waiting' = waiting /\ held' \subseteq Handle
    BY <1>4 DEF vxi11_unlock, Idle, Return, DevInv, DevType
  <2>2. lock' \in [Host -> Lid \cup {NOLID, OtherLid}]
    BY <1>4 DEF vxi11_unlock, DevInv, ServerType
  <2>3. QED
    BY <1>2, <2>1, <2>2, IdleType DEF DevInv, ServerType
<1>5. ASSUME NEW host \in Host, NEW l \in Lid, lock_granted(host, l) \/ lock_times_out(host, l)
      PROVE  DevInv'
  <2>1. call' = call \/ (call.at = "wait" /\ call' = Idle)
    BY <1>5 DEF lock_granted, lock_times_out, Return
  <2>2. /\ lock' \in [Host -> Lid \cup {NOLID, OtherLid}]
        /\ waiting' \in [Host -> SUBSET Lid]
    BY <1>5 DEF lock_granted, lock_times_out, DevInv, ServerType
  <2>3. held' \subseteq Handle
    BY <1>5 DEF lock_granted, lock_times_out, handleVars, DevInv, DevType, InCall
  <2>4. QED
    BY <1>2, <2>1, <2>2, <2>3, IdleType DEF DevInv, DevType
<1>6. ASSUME NEW host \in Host, OtherLocks(host) \/ OtherUnlocks(host)
      PROVE  DevInv'
  <2>1. call' = call /\ waiting' = waiting /\ held' = held
    BY <1>6 DEF OtherLocks, OtherUnlocks, handleVars
  <2>2. lock' \in [Host -> Lid \cup {NOLID, OtherLid}]
    BY <1>6 DEF OtherLocks, OtherUnlocks, DevInv, ServerType
  <2>3. QED
    BY <1>2, <2>1, <2>2 DEF DevInv, DevType, ServerType
<1>7. ASSUME NEW h \in Handle, NEW fn, RpcFails(fn, h)
      PROVE  DevInv'
  <2>1. /\ call.at = "idle" /\ call' = Idle /\ held' \subseteq Handle
        /\ hostOf(h) \in Host /\ dev[h].lid \in Lid
    BY <1>7, CacheFacts DEF RpcFails, Usable, Idle, Return, DevInv, DevType
  <2>2. CASE UNCHANGED <<lock, waiting>>
    BY <1>2, <2>1, <2>2, IdleType DEF DevInv, ServerType
  <2>3. CASE DoneUnanswered(fn, h)
    <3> DEFINE host == hostOf(h)  l == dev[h].lid
    <3>1. PICK new \in {l, NOLID} :
            \/ lock' = [lock EXCEPT ![host] = new] /\ waiting' = waiting
            \/ waiting' = [waiting EXCEPT ![host] = @ \cup {l}] /\ lock' = lock
      BY <2>3 DEF DoneUnanswered
    <3>2. lock' \in [Host -> Lid \cup {NOLID, OtherLid}]
      BY <2>1, <3>1 DEF DevInv, ServerType
    <3>3. waiting[host] \cup {l} \in SUBSET Lid
      BY <2>1 DEF DevInv, ServerType
    <3>4. waiting' = waiting \/ waiting' = [waiting EXCEPT ![host] = waiting[host] \cup {l}]
      BY <3>1
    <3>5. waiting' \in [Host -> SUBSET Lid]
      BY <2>1, <3>3, <3>4 DEF DevInv, ServerType
    <3>6. QED
      BY <1>2, <2>1, <3>2, <3>5, IdleType
  <2>4. QED
    BY <1>7, <2>2, <2>3 DEF RpcFails
<1>8. QED
  BY <1>3, <1>4, <1>5, <1>6, <1>7

(* Connections break, and servers clean up after them.                     *)
LEMMA NetworkInv ==
    ASSUME DevInv,
           \/ \E c \in Client : ConnectionBreaks(c)
           \/ \E host \in Host, l \in Lid : ServerReaps(host, l)
    PROVE  DevInv'
<1>1. UNCHANGED cacheVars /\ live' = live /\ dev' = dev /\ st' = st /\ held' = held
      /\ rpcTmo' = rpcTmo /\ named' = named
  BY DEF ConnectionBreaks, ServerReaps, cacheVars, handleVars, connVars
<1>2. ASSUME NEW c \in Client, ConnectionBreaks(c)
      PROVE  DevInv'
  <2>1. call' = call \/ (call.at = "wait" /\ call' = Idle)
    BY <1>2 DEF ConnectionBreaks, Return
  <2>2. ServerType'
    BY <1>1, <1>2, OrphanType DEF ConnectionBreaks, DevInv, ServerType
  <2>3. DevType'
    BY <1>1, <2>1, IdleType DEF DevInv, DevType
  <2>4. QED
    BY <1>1, <2>1, <2>2, <2>3, QuietStep
<1>3. ASSUME NEW host \in Host, NEW l \in Lid, ServerReaps(host, l)
      PROVE  DevInv'
  <2>1. call' = call /\ down' = down
    BY <1>3 DEF ServerReaps, connVars
  <2>2. ServerType'
    BY <1>1, <1>3, <2>1 DEF ServerReaps, Free, NoLink, DevInv, ServerType
  <2>3. DevType'
    BY <1>1, <2>1 DEF DevInv, DevType
  <2>4. QED
    BY <1>1, <2>1, <2>2, <2>3, QuietStep
<1>4. QED
  BY <1>2, <1>3

(* Whatever the program, the servers and the network do.                   *)
LEMMA NextDev == DevInv /\ [Next]_vars => DevInv'
<1> SUFFICES ASSUME DevInv, [Next]_vars
             PROVE  DevInv'
  OBVIOUS
<1>1. CASE CallStep
  BY <1>1, LinkAnswered, AbortChannel, Closing, NothingDone DEF CallStep
<1>2. CASE Program
  BY <1>2, OpenBegins, NothingDone, Closing, SettingsInv, LockingInv DEF Program
<1>3. CASE Environment
  BY <1>3, NetworkInv, LockingInv DEF Environment
<1>4. CASE UNCHANGED vars
  <2>1. UNCHANGED cacheVars /\ UNCHANGED <<handleVars, call, serverVars, connVars>>
    BY <1>4 DEF vars
  <2>2. DevType' /\ ServerType'
    BY <2>1 DEF DevInv, DevType, ServerType, cacheVars, handleVars, serverVars, connVars
  <2>3. QED
    BY <2>1, <2>2, QuietStep DEF handleVars
<1>5. QED
  BY <1>1, <1>2, <1>3, <1>4 DEF Next

(* What a handle has, wherever the call on it has got.                     *)
THEOREM DevInvariance == Spec => []DevInv
  BY InitDev, NextDev, PTL DEF Spec

(* vxi11_destroy finds an empty handle wherever inst.c calls it: after     *)
(* vxi11_close, and after a vxi11_open that failed at any stage.           *)
THEOREM DestroyFindsNothing == Spec => []DestroyAsserts
<1>1. DevInv => DestroyAsserts
  BY DEF DevInv
<1>2. QED
  BY <1>1, DevInvariance, PTL

(* Every connection of the process is that of a handle that is open or in  *)
(* the middle of a call, and none is freed under a handle that holds it;   *)
(* that the other handles hold none is DestroyFindsNothing.                *)
THEOREM ConnectionsAreAccounted == Spec => []ConnectionsAccounted
<1>1. ASSUME DevInv
      PROVE  ConnectionsAccounted
  <2>1. Cache!HeldIsLive /\ Cache!NoLeak
    BY <1>1 DEF DevInv, CacheProofs!IInv, Cache!NoLeak, Cache!HeldIsLive,
           Cache!Holders, CacheProofs!NoLeak, CacheProofs!HeldIsLive, CacheProofs!Holders
  <2>2. ASSUME NEW c \in live
        PROVE  \E h \in Handle : (st[h] = "open" \/ call.h = h) /\ c \in {core(h), abrt(h)}
    <3>1. PICK h \in Handle, chan \in {"core", "abrt"} : slot[<<h, chan>>] = c
      BY <2>1, <2>2 DEF Cache!NoLeak, Cache!Holders, Slot
    <3>2. c # NoClient
      BY <1>1, <2>2, CacheFacts DEF DevInv
    <3>3. c \in {core(h), abrt(h)}
      BY <3>1 DEF core, abrt
    <3>4. st[h] = "open" \/ call.h = h
      BY <1>1, <3>2, <3>3 DEF DevInv, DevType, DestroyAsserts
    <3>5. QED
      BY <3>3, <3>4
  <2>3. QED
    BY <2>1, <2>2 DEF ConnectionsAccounted
<1>2. QED
  BY <1>1, DevInvariance, PTL
(***************************************************************************)
(* Links and locks.  A create_link that was refused leaves what stood in   *)
(* the lid field of the answer in the handle, and close passes it to       *)
(* destroy_link: that may be the link of another handle.  Links so named   *)
(* do not count in what follows.                                           *)
(***************************************************************************)
(* The link of a handle whose connection works.                            *)
LEMMA LinkFacts ==
    ASSUME LinkInv, NEW g \in Handle, Counted(g)
    PROVE  /\ core(g) # NoClient /\ core(g) \in live
           /\ hostOf(g) \in Host /\ dev[g].lid \in Lid
           /\ link[hostOf(g)][dev[g].lid] = [owner |-> g, conn |-> core(g)]
           /\ link[hostOf(g)][dev[g].lid] # NoLink
<1>1. core(g) # NoClient /\ dev[g].lid \in Lid
  BY DEF LinkInv, DevInv, HandleOK, DevType, Counted
<1>2. hostOf(g) \in Host /\ core(g) \in live
  BY <1>1, CacheFacts DEF LinkInv, DevInv, core, Slot
<1>3. QED
  BY <1>1, <1>2, Vxi11DeviceAssumption DEF LinkInv, OwnLink, NoLink

(* Two handles whose connections work have different links, unless the     *)
(* link is one that a refusal named.                                       *)
LEMMA LinksApart ==
    ASSUME LinkInv, NEW g \in Handle, NEW h \in Handle, g # h,
           Counted(g), dev[h].lid # NOLID, core(h) \notin down
    PROVE  hostOf(g) # hostOf(h) \/ dev[g].lid # dev[h].lid
<1> SUFFICES ASSUME hostOf(g) = hostOf(h), dev[g].lid = dev[h].lid
             PROVE  FALSE
  OBVIOUS
<1>1. Counted(h)
  BY DEF Counted, Named
<1>2. link[hostOf(g)][dev[g].lid] = [owner |-> g, conn |-> core(g)]
  BY LinkFacts
<1>3. link[hostOf(h)][dev[h].lid] = [owner |-> h, conn |-> core(h)]
  BY <1>1, LinkFacts
<1>4. QED
  BY <1>2, <1>3

(* Handles that have a lock are open and store a link.                     *)
LEMMA HeldFacts ==
    ASSUME LinkInv, NEW g \in held
    PROVE  g \in Handle /\ st[g] = "open" /\ dev[g].lid # NOLID /\ core(g) # NoClient
  BY DEF LinkInv, HeldOK, DevInv, DevType, HandleOK

(* A lock a handle has names its link, and nobody else's.                  *)
LEMMA LockFacts ==
    ASSUME LinkInv, NEW g \in held, Counted(g)
    PROVE  /\ g \in Handle /\ st[g] = "open" /\ dev[g].lid # NOLID /\ dev[g].lid \in Lid
           /\ hostOf(g) \in Host
           /\ lock[hostOf(g)] = dev[g].lid
           /\ dev[g].lid # OtherLid
<1>1. g \in Handle /\ st[g] = "open" /\ dev[g].lid # NOLID
  BY HeldFacts
<1>2. lock[hostOf(g)] = dev[g].lid
  BY DEF LinkInv, LockAgreement, Counted
<1>3. QED
  BY <1>1, <1>2, LinkFacts, Vxi11DeviceAssumption

(* Steps that leave the handles, their connections and the links of those  *)
(* connections alone.                                                      *)
LEMMA SameHandles ==
    ASSUME UNCHANGED cacheVars
    PROVE  \A g : core(g)' = core(g) /\ hostOf(g)' = hostOf(g)
  BY DEF cacheVars, core, hostOf

(* A handle that counts after such a step counted before it.               *)
LEMMA CountedBefore ==
    ASSUME named' = named, NEW g \in Handle, Counted(g)',
           dev'[g].lid = dev[g].lid \/ dev'[g].lid = NOLID,
           dev'[g].lid # NOLID => core(g)' = core(g) /\ hostOf(g)' = hostOf(g),
           dev'[g].lid # NOLID /\ core(g) \in down => core(g) \in down'
    PROVE  /\ Counted(g) /\ core(g) \notin down'
           /\ dev'[g].lid = dev[g].lid /\ core(g)' = core(g) /\ hostOf(g)' = hostOf(g)
  BY DEF Counted, Named

(* Steps that change no link a handle stores, unless the handle forgets    *)
(* it, leave every handle its own.                                         *)
LEMMA LinksKeep ==
    ASSUME LinkInv,
           \A g \in Handle : Counted(g)' =>
               /\ Counted(g)
               /\ dev'[g].lid = dev[g].lid /\ core(g)' = core(g) /\ hostOf(g)' = hostOf(g)
               /\ link'[hostOf(g)][dev[g].lid] = link[hostOf(g)][dev[g].lid]
    PROVE  OwnLink'
<1> SUFFICES ASSUME NEW g \in Handle, Counted(g)'
             PROVE  link'[hostOf(g)'][dev'[g].lid] = [owner |-> g, conn |-> core(g)']
  BY DEF OwnLink
<1>1. QED
  BY LinkFacts

(* Steps that change neither a handle that has a lock nor that lock leave  *)
(* the program right about it.                                             *)
LEMMA LocksKeep ==
    ASSUME LinkInv, DevInv', held' \subseteq held,
           \A g \in held' : st'[g] = st[g],
           \A g \in held' : Counted(g)' =>
               /\ Counted(g)
               /\ dev'[g].lid = dev[g].lid /\ hostOf(g)' = hostOf(g)
               /\ lock'[hostOf(g)] = lock[hostOf(g)]
    PROVE  HeldOK' /\ LockAgreement'
<1>1. HeldOK'
  BY DEF LinkInv, HeldOK
<1>2. LockAgreement'
  <2> SUFFICES ASSUME NEW g \in held', core(g)' \notin down', ~Named(g)'
               PROVE  lock'[hostOf(g)'] = dev'[g].lid
    BY DEF LockAgreement
  <2>1. Counted(g)'
    BY <1>1 DEF HeldOK, DevInv, DevType, HandleOK, Counted
  <2>2. QED
    BY <2>1, LockFacts
<1>3. QED
  BY <1>1, <1>2

(* Steps in which handles, their connections and what refusals named stay  *)
(* the same: links and locks are as before where links and locks stay.     *)
LEMMA HandlesStay ==
    ASSUME LinkInv, DevInv', named' = named, held' \subseteq held,
           \A g \in Handle : dev'[g].lid = dev[g].lid \/ dev'[g].lid = NOLID,
           \A g \in Handle : dev'[g].lid # NOLID => core(g)' = core(g) /\ hostOf(g)' = hostOf(g),
           \A g \in Handle : dev'[g].lid # NOLID /\ core(g) \in down => core(g) \in down',
           \A g \in Handle : Counted(g) /\ dev'[g].lid # NOLID /\ core(g) \notin down' =>
               link'[hostOf(g)][dev[g].lid] = link[hostOf(g)][dev[g].lid],
           \A g \in held' : st'[g] = st[g],
           \A g \in held' : Counted(g) /\ core(g) \notin down' =>
               lock'[hostOf(g)] = lock[hostOf(g)]
    PROVE  LinkInv'
<1>1. \A g \in Handle : Counted(g)' =>
        /\ Counted(g) /\ core(g) \notin down'
        /\ dev'[g].lid = dev[g].lid /\ core(g)' = core(g) /\ hostOf(g)' = hostOf(g)
        /\ dev'[g].lid # NOLID
  BY CountedBefore DEF Counted
<1>2. OwnLink'
  BY <1>1, LinksKeep
<1>3. held' \subseteq Handle
  BY DEF DevInv, DevType
<1>4. HeldOK' /\ LockAgreement'
  BY <1>1, <1>3, LocksKeep
<1>5. QED
  BY <1>2, <1>4 DEF LinkInv
(* vxi11_open up to the core channel, or not even that.                    *)
LEMMA OpenLinks ==
    ASSUME LinkInv, DevInv', NEW h \in Handle, NEW host \in Host,
           \/ \E doAbort \in BOOLEAN : vxi11_open(h, host, doAbort)
           \/ vxi11_open_core_channel_fails(h, host)
    PROVE  LinkInv'
<1>1. /\ call = Idle /\ st[h] = "closed" /\ dev' = dev /\ st' = st /\ held' = held
      /\ link' = link /\ lock' = lock /\ down' = down /\ named' = named
  BY DEF vxi11_open, vxi11_open_core_channel_fails, handleVars, serverVars, connVars
<1>2. dev[h].lid = NOLID /\ h \notin held
  BY <1>1, Vxi11DeviceAssumption DEF LinkInv, HeldOK, DevInv, DestroyAsserts, Idle
<1>3. /\ slot \in [Slot -> Client \cup {NoClient}] /\ asked \in [Slot -> HostKey \cup AddrKey]
      /\ <<h, "core">> \in Slot /\ CoreKey(host) \in HostKey
  BY CacheFacts DEF LinkInv, DevInv, Slot, HostKey
<1>4. /\ \E c : slot' = slot \/ slot' = [slot EXCEPT ![<<h, "core">>] = c]
      /\ asked' = asked \/ asked' = [asked EXCEPT ![<<h, "core">>] = CoreKey(host)]
  <2>1. CASE \E doAbort \in BOOLEAN : vxi11_open(h, host, doAbort)
    BY <1>3, <2>1, ObtainStep DEF vxi11_open, LinkInv, DevInv
  <2>2. CASE vxi11_open_core_channel_fails(h, host)
    BY <2>2 DEF vxi11_open_core_channel_fails, Cache!clnt_create_fails
  <2>3. QED
    BY <2>1, <2>2
<1>5. \A g \in Handle \ {h} : core(g)' = core(g) /\ hostOf(g)' = hostOf(g)
  BY <1>3, <1>4 DEF core, hostOf, Slot
<1>6. QED
  BY <1>1, <1>2, <1>5, HandlesStay

(* A new link is one nobody has, and takes a lock nobody has.              *)
LEMMA NewLink ==
    ASSUME LinkInv, DevInv', vxi11_create_link
    PROVE  LinkInv'
<1>1. PICK h \in Handle :
        /\ call.h = h /\ st[h] = "closed" /\ core(h) # NoClient /\ dev[h].lid = NOLID
  BY DEF LinkInv, DevInv, InCall, vxi11_create_link
<1>2. h \notin held /\ held \subseteq Handle /\ hostOf(h) \in Host
  BY <1>1, CacheFacts DEF LinkInv, HeldOK, DevInv, DevType
<1>3. PICK l \in Lid :
        /\ link[hostOf(h)][l] = NoLink
        /\ link' = [link EXCEPT ![hostOf(h)][l] = [owner |-> h, conn |-> core(h)]]
        /\ lock' = lock \/ (lock[hostOf(h)] = NOLID /\ lock' = [lock EXCEPT ![hostOf(h)] = l])
        /\ dev' = [dev EXCEPT ![h].lid = l]
  BY <1>1 DEF vxi11_create_link, ServerLinks
<1>4. /\ UNCHANGED cacheVars /\ down' = down /\ held' = held /\ named' = named
      /\ \A g : core(g)' = core(g) /\ hostOf(g)' = hostOf(g)
  BY SameHandles DEF vxi11_create_link, connVars
<1>5. /\ \A g \in Handle : dev'[g].lid = IF g = h THEN l ELSE dev[g].lid
      /\ \A g \in Handle \ {h} : st'[g] = st[g]
  <2>1. st' = st \/ st' = [st EXCEPT ![h] = "open"]
    BY <1>1 DEF vxi11_create_link, AfterLink
  <2>2. QED
    BY <1>1, <1>3, <2>1 DEF LinkInv, DevInv, DevType
<1>6. OwnLink'
  <2> SUFFICES ASSUME NEW g \in Handle, Counted(g)'
               PROVE  link'[hostOf(g)][dev'[g].lid] = [owner |-> g, conn |-> core(g)]
    BY <1>4 DEF OwnLink
  <2>1. CASE g = h
    BY <1>2, <1>3, <1>5, <2>1 DEF LinkInv, DevInv, ServerType
  <2>2. CASE g # h
    <3>1. /\ link[hostOf(g)][dev[g].lid] = [owner |-> g, conn |-> core(g)]
          /\ link[hostOf(g)][dev[g].lid] # NoLink
          /\ hostOf(g) \in Host /\ dev[g].lid \in Lid
      <4>1. Counted(g)
        BY <1>4, <1>5, <2>2, CountedBefore
      <4>2. QED
        BY <4>1, LinkFacts
    <3>2. hostOf(g) # hostOf(h) \/ dev[g].lid # l
      BY <1>3, <3>1
    <3>3. link'[hostOf(g)][dev[g].lid] = link[hostOf(g)][dev[g].lid]
      BY <1>2, <1>3, <3>1, <3>2 DEF LinkInv, DevInv, ServerType
    <3>4. QED
      BY <1>5, <2>2, <3>1, <3>3
  <2>3. QED
    BY <2>1, <2>2
<1>7. HeldOK' /\ LockAgreement'
  <2>1. \A g \in held : Counted(g) => lock'[hostOf(g)] = lock[hostOf(g)]
    BY <1>3, LockFacts DEF LinkInv, DevInv, ServerType
  <2>2. \A g \in held : st'[g] = st[g] /\ dev'[g].lid = dev[g].lid
    BY <1>2, <1>5
  <2>3. \A g \in held : Counted(g)' => Counted(g)
    BY <1>2, <1>4, <2>2, CountedBefore
  <2>4. QED
    BY <1>4, <2>1, <2>2, <2>3, LocksKeep
<1>8. QED
  BY <1>6, <1>7 DEF LinkInv

(* No answer: the handle has no link; the server may have made one, where  *)
(* there was none.                                                         *)
LEMMA NoNewLink ==
    ASSUME LinkInv, DevInv', create_link_unanswered
    PROVE  LinkInv'
<1>1. PICK h \in Handle : call.h = h /\ dev[h].lid = NOLID /\ hostOf(h) \in Host
  BY CacheFacts DEF LinkInv, DevInv, InCall, create_link_unanswered
<1>2. /\ UNCHANGED cacheVars /\ down' = down /\ held' = held /\ st' = st /\ dev' = dev
      /\ named' = named
      /\ \A g : core(g)' = core(g) /\ hostOf(g)' = hostOf(g)
  BY SameHandles DEF create_link_unanswered, connVars, handleVars
<1>3. CASE UNCHANGED <<link, lock>>
  BY <1>2, <1>3, HandlesStay
<1>4. ASSUME NEW l \in Lid, ServerLinks(h, l, NoHandle)
      PROVE  LinkInv'
  <2>1. /\ link[hostOf(h)][l] = NoLink
        /\ link' = [link EXCEPT ![hostOf(h)][l] = [owner |-> NoHandle, conn |-> core(h)]]
        /\ lock' = lock \/ (lock[hostOf(h)] = NOLID /\ lock' = [lock EXCEPT ![hostOf(h)] = l])
    BY <1>4 DEF ServerLinks
  <2>2. ASSUME NEW g \in Handle, Counted(g)
        PROVE  link'[hostOf(g)][dev[g].lid] = link[hostOf(g)][dev[g].lid]
    <3>1. /\ link[hostOf(g)][dev[g].lid] # NoLink
          /\ hostOf(g) \in Host /\ dev[g].lid \in Lid
      BY <2>2, LinkFacts
    <3>2. hostOf(g) # hostOf(h) \/ dev[g].lid # l
      BY <2>1, <3>1
    <3>3. QED
      BY <1>1, <2>1, <3>1, <3>2 DEF LinkInv, DevInv, ServerType
  <2>3. \A g \in held : Counted(g) => lock'[hostOf(g)] = lock[hostOf(g)]
    BY <2>1, LockFacts DEF LinkInv, DevInv, ServerType
  <2>4. QED
    BY <1>2, <2>2, <2>3, HandlesStay
<1>5. QED
  BY <1>1, <1>3, <1>4 DEF create_link_unanswered

(* A refusal: the handle has what stood in the answer, which does not      *)
(* count from now on.                                                      *)
LEMMA Refused ==
    ASSUME LinkInv, DevInv', create_link_refused
    PROVE  LinkInv'
<1>1. PICK h \in Handle :
        call.h = h /\ st[h] = "closed" /\ dev[h].lid = NOLID /\ hostOf(h) \in Host
  BY CacheFacts DEF LinkInv, DevInv, InCall, create_link_refused
<1>2. /\ UNCHANGED cacheVars /\ down' = down /\ held' = held /\ st' = st
      /\ link' = link /\ lock' = lock
      /\ \A g : core(g)' = core(g) /\ hostOf(g)' = hostOf(g)
  BY SameHandles DEF create_link_refused, serverVars
<1>3. PICK l \in ErrLid :
        /\ dev' = [dev EXCEPT ![h].lid = l]
        /\ named' = [named EXCEPT ![hostOf(h)] = @ \cup ({l} \ {NOLID})]
  BY <1>1 DEF create_link_refused
<1>4. \A g \in Handle : dev'[g].lid = IF g = h THEN l ELSE dev[g].lid
  BY <1>3 DEF LinkInv, DevInv, DevType
<1>5. /\ \A x \in Host : named[x] \subseteq named'[x]
      /\ l # NOLID => l \in named'[hostOf(h)]
  BY <1>1, <1>3 DEF LinkInv, DevInv, ServerType
<1>6. ASSUME NEW g \in Handle, Counted(g)'
      PROVE  g # h /\ Counted(g)
  <2>1. g # h
    BY <1>2, <1>4, <1>5, <1>6 DEF Counted, Named
  <2>2. hostOf(g) \in Host
    BY CacheFacts DEF LinkInv, DevInv
  <2>3. QED
    BY <1>2, <1>4, <1>5, <1>6, <2>1, <2>2 DEF Counted, Named
<1>7. OwnLink'
  BY <1>2, <1>4, <1>6, LinksKeep
<1>8. HeldOK' /\ LockAgreement'
  <2>1. held \subseteq Handle
    BY DEF LinkInv, DevInv, DevType
  <2>2. QED
    BY <1>2, <1>4, <1>6, <2>1, LocksKeep
<1>9. QED
  BY <1>7, <1>8 DEF LinkInv

(* The abort channel is no part of a link.                                 *)
LEMMA AbortChannelLinks ==
    ASSUME LinkInv, DevInv', vxi11_open_abrt_channel \/ vxi11_open_abrt_channel_fails
    PROVE  LinkInv'
<1>1. PICK h \in Handle : call.h = h /\ st[h] = "closed" /\ h \notin held
  BY DEF LinkInv, HeldOK, DevInv, InCall, vxi11_open_abrt_channel, vxi11_open_abrt_channel_fails
<1>2. <<h, "abrt">> \in Slot /\ AbrtKey(hostOf(h)) \in AddrKey
  BY CacheFacts DEF LinkInv, DevInv, Slot, AddrKey
<1>3. /\ dev' = dev /\ held' = held /\ link' = link /\ lock' = lock /\ down' = down
      /\ named' = named
  BY DEF vxi11_open_abrt_channel, vxi11_open_abrt_channel_fails, handleVars, serverVars, connVars
<1>4. /\ \E c : slot' = slot \/ slot' = [slot EXCEPT ![<<h, "abrt">>] = c]
      /\ \E k : asked' = asked \/ asked' = [asked EXCEPT ![<<h, "abrt">>] = k]
      /\ st' = st \/ st' = [st EXCEPT ![h] = "open"]
  <2>1. CASE vxi11_open_abrt_channel
    BY <1>1, <1>2, <2>1, ObtainStep DEF vxi11_open_abrt_channel, LinkInv, DevInv
  <2>2. CASE vxi11_open_abrt_channel_fails
    BY <2>2 DEF vxi11_open_abrt_channel_fails, Cache!clnt_create_fails, handleVars
  <2>3. QED
    BY <2>1, <2>2
<1>5. \A g \in Handle : core(g)' = core(g) /\ hostOf(g)' = hostOf(g)
  BY <1>4, CacheFacts DEF core, hostOf, Slot, LinkInv, DevInv
<1>6. \A g \in held : st'[g] = st[g]
  BY <1>1, <1>4 DEF LinkInv, DevInv, DevType
<1>7. QED
  BY <1>3, <1>5, <1>6, HandlesStay

(* Closing a channel only ends the links of a connection nobody has.       *)
LEMMA ChannelLinks ==
    ASSUME LinkInv, DevInv', vxi11_close_abrt_channel \/ vxi11_close_core_channel
    PROVE  LinkInv'
<1>1. PICK h \in Handle : /\ call.h = h /\ st[h] = "closed" /\ h \notin held
                          /\ vxi11_close_core_channel => dev[h].lid = NOLID
  BY DEF LinkInv, HeldOK, DevInv, InCall, vxi11_close_abrt_channel, vxi11_close_core_channel
<1>2. PICK chan \in {"core", "abrt"} :
        CloseChannel(<<h, chan>>) /\ (chan = "core" => dev[h].lid = NOLID)
  BY <1>1 DEF vxi11_close_abrt_channel, vxi11_close_core_channel
<1>3. /\ CacheProofs!IInv' /\ slot' = [slot EXCEPT ![<<h, chan>>] = NoClient]
      /\ asked' = asked /\ down' = down \cap live' /\ link' = Orphaned(live \ live')
  <2>1. <<h, chan>> \in Slot
    BY DEF Slot
  <2>2. QED
    BY <1>2, <2>1, ChannelCloses DEF LinkInv
<1>4. dev' = dev /\ st' = st /\ held' = held /\ lock' = lock /\ named' = named
  BY DEF vxi11_close_abrt_channel, vxi11_close_core_channel, handleVars
<1>5. \A g \in Handle : dev[g].lid # NOLID \/ g \in held =>
        core(g)' = core(g) /\ hostOf(g)' = hostOf(g)
  BY <1>1, <1>2, <1>3, FieldChange DEF LinkInv, DevInv, hostOf
<1>6. \A g \in Handle : dev[g].lid # NOLID => core(g) \in live'
  <2> SUFFICES ASSUME NEW g \in Handle, dev[g].lid # NOLID
               PROVE  core(g) \in live'
    OBVIOUS
  <2>1. core(g)' = core(g) /\ core(g) # NoClient
    BY <1>5 DEF LinkInv, DevInv, HandleOK
  <2>2. \A s \in Slot : slot'[s] # NoClient => slot'[s] \in live'
    BY <1>3 DEF CacheProofs!IInv, CacheProofs!HeldIsLive
  <2>3. QED
    BY <2>1, <2>2 DEF core, Slot
<1>7. ASSUME NEW g \in Handle, Counted(g)
      PROVE  link'[hostOf(g)][dev[g].lid] = link[hostOf(g)][dev[g].lid]
  <2>1. core(g) \in live'
    BY <1>6, <1>7 DEF Counted
  <2>2. /\ link[hostOf(g)][dev[g].lid] = [owner |-> g, conn |-> core(g)]
        /\ hostOf(g) \in Host /\ dev[g].lid \in Lid
    BY <1>7, LinkFacts
  <2>3. link[hostOf(g)][dev[g].lid].conn \notin live \ live'
    BY <2>1, <2>2
  <2>4. QED
    BY <1>3, <2>2, <2>3 DEF Orphaned
<1>8. QED
  BY <1>3, <1>4, <1>5, <1>6, <1>7, HandlesStay

(* vxi11_close gives up the lock, and destroy_link a link nobody else has. *)
LEMMA LinkCloses ==
    ASSUME LinkInv, DevInv', vxi11_destroy_link \/ \E h \in Handle : vxi11_close(h)
    PROVE  LinkInv'
<1>1. /\ UNCHANGED cacheVars /\ down' = down
      /\ \A g : core(g)' = core(g) /\ hostOf(g)' = hostOf(g)
  BY SameHandles DEF vxi11_destroy_link, vxi11_close, connVars
<1>2. ASSUME NEW h \in Handle, vxi11_close(h)
      PROVE  LinkInv'
  <2>1. /\ st' = [st EXCEPT ![h] = "closed"] /\ held' = held \ {h}
        /\ dev' = dev /\ link' = link /\ lock' = lock /\ named' = named
    BY <1>2 DEF vxi11_close, serverVars, connVars
  <2>2. \A g \in held' : st'[g] = st[g]
    BY <2>1 DEF LinkInv, DevInv, DevType
  <2>3. QED
    BY <1>1, <2>1, <2>2, HandlesStay
<1>3. CASE vxi11_destroy_link
  <2>1. PICK h \in Handle : call.h = h /\ st[h] = "closed" /\ h \notin held
    BY <1>3 DEF vxi11_destroy_link, LinkInv, HeldOK, DevInv, InCall
  <2>2. /\ st' = st /\ held' = held
        /\ dev' = [dev EXCEPT ![h].lid = NOLID]
        /\ named' = [named EXCEPT ![hostOf(h)] = @ \cap StoredByOthers(h)]
        /\ \/ dev[h].lid # NOLID /\ core(h) \notin down /\ Free(hostOf(h), dev[h].lid)
           \/ UNCHANGED serverVars
    BY <1>3, <2>1 DEF vxi11_destroy_link, DestroyLink
  <2>3. \A g \in Handle : dev'[g].lid = IF g = h THEN NOLID ELSE dev[g].lid
    BY <2>2 DEF LinkInv, DevInv, DevType
  <2>4. ASSUME NEW g \in Handle \ {h}, Counted(g)
        PROVE  /\ link'[hostOf(g)][dev[g].lid] = link[hostOf(g)][dev[g].lid]
               /\ lock[hostOf(g)] = dev[g].lid => lock'[hostOf(g)] = lock[hostOf(g)]
    <3>1. CASE UNCHANGED serverVars
      BY <3>1 DEF serverVars
    <3>2. CASE dev[h].lid # NOLID /\ core(h) \notin down /\ Free(hostOf(h), dev[h].lid)
      <4>1. hostOf(g) # hostOf(h) \/ dev[g].lid # dev[h].lid
        BY <2>4, <3>2, LinksApart
      <4>2. hostOf(g) \in Host /\ dev[g].lid \in Lid
        BY <2>4, LinkFacts
      <4>3. QED
        BY <3>2, <4>1, <4>2 DEF Free, LinkInv, DevInv, ServerType
    <3>3. QED
      BY <2>2, <3>1, <3>2
  <2>5. ASSUME NEW g \in Handle, Counted(g)'
        PROVE  g # h /\ Counted(g)
    <3>1. g # h /\ dev'[g].lid = dev[g].lid
      BY <2>3, <2>5 DEF Counted
    <3>2. hostOf(g) = hostOf(h) => dev[g].lid \in StoredByOthers(h)
      BY <3>1 DEF StoredByOthers
    <3>3. hostOf(g) \in Host
      BY CacheFacts DEF LinkInv, DevInv
    <3> DEFINE left == named[hostOf(h)] \cap StoredByOthers(h)
    <3>4. named' = [named EXCEPT ![hostOf(h)] = left]
      BY <2>2
    <3>5. hostOf(g) = hostOf(h) /\ dev[g].lid \in named[hostOf(h)] => dev[g].lid \in left
      BY <3>2
    <3> HIDE DEF left
    <3>6. dev[g].lid \in named[hostOf(g)] => dev[g].lid \in named'[hostOf(g)]
      BY <3>3, <3>4, <3>5 DEF LinkInv, DevInv, ServerType
    <3>7. QED
      BY <1>1, <2>5, <3>1, <3>6 DEF Counted, Named
  <2>6. OwnLink'
    BY <1>1, <2>3, <2>4, <2>5, LinksKeep
  <2>7. HeldOK' /\ LockAgreement'
    <3>1. held \subseteq Handle
      BY DEF LinkInv, DevInv, DevType
    <3>2. \A g \in held : Counted(g) => lock'[hostOf(g)] = lock[hostOf(g)]
      BY <2>1, <2>4, <3>1, LockFacts
    <3>3. \A g \in held : dev'[g].lid = dev[g].lid
      BY <2>1, <2>3, <3>1
    <3>4. QED
      BY <1>1, <2>2, <2>5, <3>1, <3>2, <3>3, LocksKeep
  <2>8. QED
    BY <2>6, <2>7 DEF LinkInv
<1>4. QED
  BY <1>2, <1>3
(* The program's locks: taken where there is none, given back by those who *)
(* have them.                                                              *)
LEMMA ProgramLocks ==
    ASSUME LinkInv, DevInv', NEW h \in Handle,
           \/ vxi11_lock(h) \/ vxi11_unlock(h)
           \/ \E fn \in {"lock", "unlock", "generic"} : RpcFails(fn, h)
    PROVE  LinkInv'
<1>1. /\ UNCHANGED cacheVars /\ down' = down /\ dev' = dev /\ st' = st /\ link' = link
      /\ named' = named
      /\ \A g : core(g)' = core(g) /\ hostOf(g)' = hostOf(g)
  BY SameHandles DEF vxi11_lock, vxi11_unlock, RpcFails, connVars
<1>2. call = Idle /\ dev[h].lid # NOLID /\ hostOf(h) \in Host
  BY CacheFacts DEF vxi11_lock, vxi11_unlock, RpcFails, Usable, LinkInv, DevInv
<1>3. st[h] = "open" /\ held \subseteq Handle
  BY <1>2, Vxi11DeviceAssumption DEF LinkInv, DevInv, DevType, DestroyAsserts, Idle
<1>4. \A g \in Handle : Counted(g)' <=> Counted(g)
  BY <1>1 DEF Counted, Named
<1>5. OwnLink'
  BY <1>1, <1>4, LinksKeep
<1>6. CASE /\ lock[hostOf(h)] = NOLID
           /\ lock' = [lock EXCEPT ![hostOf(h)] = dev[h].lid]
           /\ held' \in {held, held \cup {h}}
  <2>1. HeldOK'
    BY <1>1, <1>3, <1>6 DEF LinkInv, HeldOK
  <2>2. ASSUME NEW g \in held', Counted(g)
        PROVE  lock'[hostOf(g)] = dev[g].lid
    <3>1. CASE g = h
      BY <1>2, <1>6, <3>1 DEF LinkInv, DevInv, ServerType
    <3>2. CASE g \in held
      <4>1. lock[hostOf(g)] = dev[g].lid /\ dev[g].lid # NOLID
        BY <2>2, <3>2, LockFacts
      <4>2. hostOf(g) # hostOf(h)
        BY <1>6, <4>1
      <4>3. QED
        BY <1>6, <4>1, <4>2 DEF LinkInv, DevInv, ServerType
    <3>3. QED
      BY <1>6, <3>1, <3>2
  <2>3. \A g \in held' : dev[g].lid # NOLID
    BY <1>2, <1>6, HeldFacts
  <2>4. LockAgreement'
    BY <1>1, <2>2, <2>3 DEF LockAgreement, Counted, Named
  <2>5. QED
    BY <1>5, <2>1, <2>4 DEF LinkInv
<1>7. CASE /\ held' = held \ {h} /\ core(h) \notin down
           /\ lock[hostOf(h)] = dev[h].lid
           /\ lock' = [lock EXCEPT ![hostOf(h)] = NOLID]
  <2>1. ASSUME NEW g \in held', Counted(g)
        PROVE  lock'[hostOf(g)] = lock[hostOf(g)]
    <3>1. g \in held /\ g # h
      BY <1>7
    <3>2. g \in Handle /\ hostOf(g) \in Host
      BY <2>1, <3>1, LockFacts
    <3>3. lock[hostOf(g)] = dev[g].lid
      BY <2>1, <3>1, LockFacts
    <3>4. hostOf(g) # hostOf(h) \/ dev[g].lid # dev[h].lid
      BY <1>2, <1>7, <2>1, <3>1, <3>2, LinksApart
    <3>5. hostOf(g) # hostOf(h)
      BY <1>7, <3>3, <3>4
    <3>6. QED
      BY <1>7, <3>2, <3>5 DEF LinkInv, DevInv, ServerType
  <2>2. HeldOK' /\ LockAgreement'
    BY <1>1, <1>3, <1>4, <1>7, <2>1, LocksKeep
  <2>3. QED
    BY <1>5, <2>2 DEF LinkInv
<1>8. CASE held' \subseteq held /\ lock' = lock
  <2>1. HeldOK' /\ LockAgreement'
    BY <1>1, <1>3, <1>4, <1>8, LocksKeep
  <2>2. QED
    BY <1>5, <2>1 DEF LinkInv
<1>9. CASE vxi11_lock(h)
  BY <1>6, <1>8, <1>9 DEF vxi11_lock
<1>10. CASE vxi11_unlock(h)
  BY <1>7, <1>8, <1>10 DEF vxi11_unlock
<1>11. ASSUME NEW fn \in {"lock", "unlock", "generic"}, RpcFails(fn, h)
       PROVE  LinkInv'
  <2>1. /\ held' = IF fn = "unlock" THEN held \ {h} ELSE held
        /\ UNCHANGED <<lock, waiting>> \/ DoneUnanswered(fn, h)
    BY <1>11 DEF RpcFails
  <2>2. CASE lock' = lock
    BY <1>8, <2>1, <2>2
  <2>3. CASE DoneUnanswered(fn, h) /\ lock' # lock
    BY <1>6, <1>7, <2>1, <2>3 DEF DoneUnanswered
  <2>4. QED
    BY <2>1, <2>2, <2>3
<1>12. QED
  BY <1>9, <1>10, <1>11

(* What servers and other clients do with locks.                           *)
LEMMA ServerLocks ==
    ASSUME LinkInv, DevInv', NEW host \in Host,
           \/ \E l \in Lid : lock_granted(host, l) \/ lock_times_out(host, l)
           \/ OtherLocks(host) \/ OtherUnlocks(host)
    PROVE  LinkInv'
<1>1. /\ UNCHANGED cacheVars /\ down' = down /\ dev' = dev /\ st' = st /\ link' = link
      /\ named' = named
      /\ \A g : core(g)' = core(g) /\ hostOf(g)' = hostOf(g)
  BY SameHandles
     DEF lock_granted, lock_times_out, OtherLocks, OtherUnlocks, connVars, handleVars
<1>2. \A g \in Handle : Counted(g)' <=> Counted(g)
  BY <1>1 DEF Counted, Named
<1>3. PICK new \in Lid \cup {NOLID, OtherLid} :
        \/ lock' = lock
        \/ /\ lock[host] \in {NOLID, OtherLid}
           /\ lock' = [lock EXCEPT ![host] = new]
  BY DEF lock_granted, lock_times_out, OtherLocks, OtherUnlocks
<1>4. ASSUME NEW g \in held, Counted(g)
      PROVE  lock'[hostOf(g)] = lock[hostOf(g)] /\ lock'[hostOf(g)] = dev[g].lid
  <2>1. /\ lock[hostOf(g)] = dev[g].lid
        /\ dev[g].lid # NOLID /\ dev[g].lid # OtherLid
    BY <1>4, LockFacts
  <2>2. hostOf(g) \in Host /\ (lock' = lock \/ hostOf(g) # host)
    BY <1>3, <1>4, <2>1, LockFacts
  <2>3. QED
    BY <1>3, <2>1, <2>2 DEF LinkInv, DevInv, ServerType
<1>5. CASE held' = held
  BY <1>1, <1>4, <1>5, HandlesStay
<1>6. CASE \E l \in Lid : lock_granted(host, l) /\ held' # held
  <2>1. PICK l \in Lid : lock_granted(host, l) /\ held' # held
    BY <1>6
  <2>2. PICK h \in Handle :
          /\ st[h] = "open" /\ held' = held \cup {h}
          /\ hostOf(h) = host /\ dev[h].lid = l
          /\ lock' = [lock EXCEPT ![host] = l]
    BY <2>1 DEF lock_granted, LinkInv, DevInv, InCall
  <2>3. lock'[hostOf(h)] = dev[h].lid
    BY <2>2 DEF LinkInv, DevInv, ServerType
  <2>4. OwnLink'
    BY <1>1, <1>2, LinksKeep
  <2>5. HeldOK'
    BY <1>1, <2>2 DEF LinkInv, HeldOK
  <2>6. LockAgreement'
    <3> SUFFICES ASSUME NEW g \in held', core(g) \notin down, ~Named(g)
                 PROVE  lock'[hostOf(g)] = dev[g].lid
      BY <1>1 DEF LockAgreement, Named
    <3>1. CASE g \in held
      BY <1>4, <3>1, HeldFacts DEF Counted
    <3>2. QED
      BY <2>2, <2>3, <3>1
  <2>7. QED
    BY <2>4, <2>5, <2>6 DEF LinkInv
<1>7. QED
  BY <1>5, <1>6 DEF lock_times_out, OtherLocks, OtherUnlocks, handleVars

(* A broken connection takes the links with it that are on it, and a       *)
(* server only drops links that are on none.                               *)
LEMMA NetworkLinks ==
    ASSUME LinkInv, DevInv',
           \/ \E c \in Client : ConnectionBreaks(c)
           \/ \E host \in Host, l \in Lid : ServerReaps(host, l)
    PROVE  LinkInv'
<1>1. /\ UNCHANGED cacheVars /\ dev' = dev /\ st' = st /\ held' = held /\ named' = named
      /\ \A g : core(g)' = core(g) /\ hostOf(g)' = hostOf(g)
  BY SameHandles DEF ConnectionBreaks, ServerReaps, handleVars, connVars
<1>2. down \subseteq down'
  BY DEF ConnectionBreaks, ServerReaps, connVars
<1>3. ASSUME NEW g \in Handle, Counted(g), core(g) \notin down'
      PROVE  /\ link'[hostOf(g)][dev[g].lid] = link[hostOf(g)][dev[g].lid]
             /\ lock[hostOf(g)] = dev[g].lid => lock'[hostOf(g)] = lock[hostOf(g)]
  <2>2. link[hostOf(g)][dev[g].lid] = [owner |-> g, conn |-> core(g)]
    BY <1>3, LinkFacts
  <2>3. /\ link[hostOf(g)][dev[g].lid].conn = core(g) /\ core(g) # NoClient
        /\ hostOf(g) \in Host /\ dev[g].lid \in Lid
    BY <1>3, <2>2, LinkFacts
  <2>4. ASSUME NEW c \in Client, ConnectionBreaks(c)
        PROVE  /\ link'[hostOf(g)][dev[g].lid] = link[hostOf(g)][dev[g].lid]
               /\ lock' = lock
    <3>1. core(g) # c /\ link' = Orphaned({c}) /\ lock' = lock
      BY <1>3, <2>4 DEF ConnectionBreaks
    <3>2. QED
      BY <2>3, <3>1 DEF Orphaned
  <2>5. ASSUME NEW host \in Host, NEW l \in Lid, ServerReaps(host, l)
        PROVE  /\ link'[hostOf(g)][dev[g].lid] = link[hostOf(g)][dev[g].lid]
               /\ lock[hostOf(g)] = dev[g].lid => lock'[hostOf(g)] = lock[hostOf(g)]
    <3>1. hostOf(g) # host \/ dev[g].lid # l
      BY <2>3, <2>5 DEF ServerReaps
    <3>2. QED
      BY <2>3, <2>5, <3>1 DEF ServerReaps, Free, LinkInv, DevInv, ServerType
  <2>6. QED
    BY <2>4, <2>5
<1>4. \A g \in held : Counted(g) /\ core(g) \notin down' => lock'[hostOf(g)] = lock[hostOf(g)]
  BY <1>3, LockFacts
<1>5. QED
  BY <1>1, <1>2, <1>3, <1>4, HandlesStay

(* Steps that touch neither handles, nor links, nor locks.                 *)
LEMMA QuietLinks ==
    ASSUME LinkInv, DevInv', UNCHANGED cacheVars, UNCHANGED <<st, held, link, lock, down, named>>,
           \A g \in Handle : dev'[g].lid = dev[g].lid
    PROVE  LinkInv'
  BY SameHandles, HandlesStay

(* Settings, calls that are rejected before they are sent and the generic  *)
(* operations change no link and no lock.                                  *)
LEMMA QuietSteps ==
    ASSUME LinkInv, DevInv',
           \/ lock_rpc_times_out
           \/ \E h \in Handle :
               \/ \E t \in Tmo : vxi11_set_iotimeout(h, t)
               \/ \E b \in Policy : vxi11_set_lockpolicy(h, b)
               \/ \E fn \in {"lock", "unlock", "generic"} : RejectedHere(fn, h)
               \/ generic_op(h)
    PROVE  LinkInv'
<1>1. UNCHANGED cacheVars /\ UNCHANGED <<st, held, link, lock, down, named>>
  BY DEF lock_rpc_times_out, vxi11_set_iotimeout, vxi11_set_lockpolicy, RejectedHere,
         generic_op, handleVars, serverVars, connVars
<1>2. \A g \in Handle : dev'[g].lid = dev[g].lid
  BY DEF lock_rpc_times_out, vxi11_set_iotimeout, vxi11_set_lockpolicy, RejectedHere,
         generic_op, handleVars, LinkInv, DevInv, DevType
<1>3. QED
  BY <1>1, <1>2, QuietLinks

(* Every step keeps links and locks right.                                 *)
LEMMA NextLinks ==
    ASSUME LinkInv, [Next]_vars
    PROVE  LinkInv'
<1>1. DevInv'
  BY NextDev DEF LinkInv
<1>2. CASE CallStep
  BY <1>1, <1>2, NewLink, NoNewLink, Refused, AbortChannelLinks, ChannelLinks, LinkCloses, QuietSteps
     DEF CallStep
<1>3. CASE Program
  BY <1>1, <1>3, OpenLinks, LinkCloses, ProgramLocks, QuietSteps DEF Program
<1>4. CASE Environment
  BY <1>1, <1>4, NetworkLinks, ServerLocks DEF Environment
<1>5. CASE UNCHANGED vars
  BY <1>1, <1>5, QuietLinks DEF vars, handleVars, serverVars, connVars
<1>6. QED
  BY <1>2, <1>3, <1>4, <1>5 DEF Next

(* At the start there is no link and no lock.                              *)
LEMMA InitLinks == Init => LinkInv
<1>1. Init => DevInv
  BY InitDev
<1>2. Init => \A h \in Handle : dev[h].lid = NOLID
  BY DEF Init
<1>3. Init => held = {}
  BY DEF Init
<1>4. Init => OwnLink /\ HeldOK /\ LockAgreement
  BY <1>2, <1>3 DEF OwnLink, HeldOK, LockAgreement, Counted
<1>5. QED
  BY <1>1, <1>4 DEF LinkInv

(* An open handle whose connection works owns the link it names, unless    *)
(* that link is one a refused create_link has named.                       *)
THEOREM LinksAreOwn == Spec => []LinkIntegrity
<1>1. Init => LinkInv
  BY InitLinks
<1>2. LinkInv /\ [Next]_vars => LinkInv'
  BY NextLinks
<1>3. LinkInv => LinkIntegrity
  BY DEF LinkInv, DevInv, HandleOK, OwnLink, LinkIntegrity, Counted
<1>4. QED
  BY <1>1, <1>2, <1>3, PTL DEF Spec

(* A lock the program was told it has and has not tried to give back, it   *)
(* has, whatever answers were late or lost.                                *)
THEOREM LocksAgree == Spec => []LockAgreement
<1>1. Init => LinkInv
  BY InitLinks
<1>2. LinkInv /\ [Next]_vars => LinkInv'
  BY NextLinks
<1>3. LinkInv => LockAgreement
  BY DEF LinkInv
<1>4. QED
  BY <1>1, <1>2, <1>3, PTL DEF Spec
EndsOwnLinks ==
    \A host \in Host, l \in Lid, h \in Handle :
        /\ link[host][l].owner = h /\ link'[host][l] = NoLink
        /\ link[host][l].conn # NoClient
        => call.h = h \/ l \in named[host]

(* Steps that make a link none: destroy_link, for a link of the handle     *)
(* that is closed, and a server that drops a link without connection.      *)
LEMMA OnlyOwnLinks ==
    ASSUME LinkInv, [Next]_vars
    PROVE  [EndsOwnLinks]_vars
<1> SUFFICES ASSUME NEW host \in Host, NEW l \in Lid, NEW h \in Handle,
                    link[host][l].owner = h, link'[host][l] = NoLink,
                    link[host][l].conn # NoClient
             PROVE  call.h = h \/ l \in named[host]
  BY DEF EndsOwnLinks
<1>1. link[host][l] # NoLink /\ h # NoHandle
  BY Vxi11DeviceAssumption DEF NoLink
<1>2. link' # link
  BY <1>1
<1>3. CASE vxi11_destroy_link
  <2>1. PICK g \in Handle : call.h = g
    BY <1>3 DEF vxi11_destroy_link, LinkInv, DevInv, InCall
  <2>2. /\ dev[g].lid # NOLID /\ core(g) \notin down
        /\ link' = [link EXCEPT ![hostOf(g)][dev[g].lid] = NoLink]
    BY <1>2, <1>3, <2>1 DEF vxi11_destroy_link, DestroyLink, Free, serverVars
  <2>3. ~Named(g) => link[hostOf(g)][dev[g].lid] = [owner |-> g, conn |-> core(g)]
    BY <2>2, LinkFacts DEF Counted
  <2>4. hostOf(g) \in Host /\ dev[g].lid \in Lid
    BY <2>2, CacheFacts DEF LinkInv, DevInv, DevType
  <2>5. host = hostOf(g) /\ l = dev[g].lid
    BY <1>1, <2>2, <2>4 DEF LinkInv, DevInv, ServerType
  <2>6. QED
    BY <2>1, <2>3, <2>5 DEF Named
<1>4. CASE \E gone : link' = Orphaned(gone)
  <2>1. PICK gone : link' = Orphaned(gone)
    BY <1>4
  <2>2. \/ link'[host][l] = link[host][l]
        \/ link'[host][l] = [link[host][l] EXCEPT !.conn = NoClient]
    BY <2>1 DEF Orphaned
  <2>3. link[host][l] \in [owner : Handle \cup {NoHandle}, conn : Client \cup {NoClient}]
    BY DEF LinkInv, DevInv, ServerType
  <2>4. link'[host][l].owner = link[host][l].owner
    BY <2>2, <2>3
  <2>5. QED
    BY <1>1, <2>4 DEF NoLink
<1>5. CASE \E g \in Host, k \in Lid : ServerReaps(g, k)
  <2>1. PICK g \in Host, k \in Lid : ServerReaps(g, k)
    BY <1>5
  <2>2. link' = [link EXCEPT ![g][k] = NoLink] /\ link[g][k].conn = NoClient
    BY <2>1 DEF ServerReaps, Free
  <2>3. host = g /\ l = k
    BY <1>1, <2>2 DEF LinkInv, DevInv, ServerType
  <2>4. QED
    BY <2>2, <2>3
<1>6. CASE \E x \in Host, k \in Lid : \E made :
             made # NoLink /\ link' = [link EXCEPT ![x][k] = made]
  BY <1>1, <1>6 DEF LinkInv, DevInv, ServerType
<1>7. QED
  <2>1. CASE vxi11_create_link \/ create_link_unanswered
    <3>1. PICK g \in Handle : call.h = g /\ core(g) # NoClient /\ hostOf(g) \in Host
      BY <2>1, CacheFacts DEF vxi11_create_link, create_link_unanswered, LinkInv, DevInv, InCall
    <3>2. PICK k \in Lid : \E o :
            link' = [link EXCEPT ![hostOf(g)][k] = [owner |-> o, conn |-> core(g)]]
      BY <1>2, <2>1, <3>1 DEF vxi11_create_link, create_link_unanswered, ServerLinks
    <3>3. \A o : [owner |-> o, conn |-> core(g)] # NoLink
      BY <3>1 DEF NoLink
    <3>4. \E made : made # NoLink /\ link' = [link EXCEPT ![hostOf(g)][k] = made]
      BY <3>2, <3>3
    <3>5. QED
      BY <1>6, <3>1, <3>4
  <2>2. CASE vxi11_close_abrt_channel \/ vxi11_close_core_channel
    BY <1>2, <1>4, <2>2
       DEF vxi11_close_abrt_channel, vxi11_close_core_channel, CloseChannel
  <2>3. CASE \E c \in Client : ConnectionBreaks(c)
    BY <1>4, <2>3 DEF ConnectionBreaks
  <2>4. CASE CallStep
    BY <1>2, <1>3, <2>1, <2>2, <2>4
       DEF CallStep, create_link_refused, vxi11_open_abrt_channel,
           vxi11_open_abrt_channel_fails, lock_rpc_times_out, serverVars
  <2>5. CASE Program
    BY <1>2, <2>5
       DEF Program, vxi11_open, vxi11_open_core_channel_fails, vxi11_close,
           vxi11_set_iotimeout, vxi11_set_lockpolicy, RejectedHere, RpcFails,
           vxi11_lock, vxi11_unlock, generic_op, serverVars
  <2>6. CASE Environment
    BY <1>2, <1>5, <2>3, <2>6
       DEF Environment, lock_granted, lock_times_out, OtherLocks, OtherUnlocks
  <2>7. QED
    BY <1>2, <2>4, <2>5, <2>6 DEF Next, vars, serverVars

(* No link but the caller's own ends with a call while its connection      *)
(* works, unless a refused create_link has named it.                       *)
THEOREM OthersLinksStay == Spec => OthersLinksSurvive
<1>1. Init => LinkInv
  BY InitLinks
<1>2. LinkInv /\ [Next]_vars => LinkInv'
  BY NextLinks
<1>3. LinkInv /\ [Next]_vars => [EndsOwnLinks]_vars
  BY OnlyOwnLinks
<1>4. QED
  BY <1>1, <1>2, <1>3, PTL DEF Spec, OthersLinksSurvive, EndsOwnLinks
(***************************************************************************)
(* Every step of the handles is a step of the connection cache, one caller *)
(* at a time, or none: all that RpcCacheProofs proves of the cache holds   *)
(* of it here.                                                             *)
(***************************************************************************)
LEMMA NextCache ==
    ASSUME DevInv, [Next]_vars
    PROVE  [Cache!Next]_(Cache!vars)
<1>1. CASE UNCHANGED cacheVars
  BY <1>1 DEF cacheVars, Cache!vars
<1>2. ASSUME NEW s \in Slot, NEW k \in HostKey \cup AddrKey,
             \/ Cache!clnt_create_cached(s, k)
             \/ Cache!clnttcp_create_cached(s, k)
             \/ Cache!clnt_create_fails(s, k)
      PROVE  Cache!Next
  BY <1>2 DEF Cache!Next, Cache!Key
<1>3. ASSUME NEW s \in Slot, Cache!clnt_destroy_cached(s)
      PROVE  Cache!Next
  BY <1>3 DEF Cache!Next
<1>4. ASSUME NEW h \in Handle, NEW host \in Host,
             \/ \E doAbort \in BOOLEAN : vxi11_open(h, host, doAbort)
             \/ vxi11_open_core_channel_fails(h, host)
      PROVE  Cache!Next
  <2>1. <<h, "core">> \in Slot /\ CoreKey(host) \in HostKey \cup AddrKey
    BY DEF Slot, HostKey
  <2>2. QED
    BY <1>2, <1>4, <2>1 DEF vxi11_open, vxi11_open_core_channel_fails
<1>5. CASE vxi11_open_abrt_channel \/ vxi11_open_abrt_channel_fails
  <2>1. PICK h \in Handle : call.h = h /\ hostOf(h) \in Host
    BY <1>5, CacheFacts DEF DevInv, InCall, vxi11_open_abrt_channel, vxi11_open_abrt_channel_fails
  <2>2. <<h, "abrt">> \in Slot /\ AbrtKey(hostOf(h)) \in HostKey \cup AddrKey
    BY <2>1 DEF Slot, AddrKey
  <2>3. QED
    BY <1>2, <1>5, <2>1, <2>2 DEF vxi11_open_abrt_channel, vxi11_open_abrt_channel_fails
<1>6. CASE vxi11_close_abrt_channel \/ vxi11_close_core_channel
  <2>1. PICK h \in Handle : call.h = h
    BY <1>6 DEF DevInv, InCall, vxi11_close_abrt_channel, vxi11_close_core_channel
  <2>2. <<h, "abrt">> \in Slot /\ <<h, "core">> \in Slot
    BY DEF Slot
  <2>3. QED
    BY <1>1, <1>3, <1>6, <2>1, <2>2
       DEF vxi11_close_abrt_channel, vxi11_close_core_channel, CloseChannel
<1>7. CASE CallStep
  BY <1>1, <1>5, <1>6, <1>7
     DEF CallStep, vxi11_create_link, create_link_refused, create_link_unanswered,
         vxi11_destroy_link, lock_rpc_times_out
<1>8. CASE Program
  BY <1>1, <1>4, <1>8
     DEF Program, vxi11_close, vxi11_set_iotimeout, vxi11_set_lockpolicy, RejectedHere,
         RpcFails, vxi11_lock, vxi11_unlock, generic_op
<1>9. CASE Environment
  BY <1>1, <1>9
     DEF Environment, ConnectionBreaks, ServerReaps, lock_granted, lock_times_out,
         OtherLocks, OtherUnlocks
<1>10. QED
  BY <1>1, <1>7, <1>8, <1>9 DEF Next, vars

(* vxi11_device.c uses rpccache.c as its callers may: what the handles do  *)
(* to the connections is a behaviour of RpcCache, so what RpcCacheProofs   *)
(* says of that holds here.                                                *)
THEOREM UsesTheCache == Spec => Cache!Spec
<1>1. Init => Cache!Init
  BY DEF Init
<1>2. DevInv /\ [Next]_vars => [Cache!Next]_(Cache!vars)
  BY NextCache
<1>3. QED
  BY <1>1, <1>2, DevInvariance, PTL DEF Spec, Cache!Spec
=============================================================================
