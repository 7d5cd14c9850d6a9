---------------------------- MODULE Vxi11Device -----------------------------
(***************************************************************************)
(* libvxi11/vxi11_device.c: device handles of one process, on top of the   *)
(* connection cache (RpcCache) and in front of VXI-11 servers.             *)
(*                                                                         *)
(* The library is called from one thread, so one call runs at a time; but  *)
(* a call is several remote procedure calls, and between them servers,     *)
(* connections and other clients of the instrument go on.  A step here is  *)
(* one RPC or one call into the cache.  The bulk transfers of vxi11_write  *)
(* and vxi11_read, and vxi11_abort, are in Vxi11Io.                        *)
(*                                                                         *)
(* Servers are external: what they do with links and locks is taken from   *)
(* the use the library makes of the answers.                               *)
(***************************************************************************)
EXTENDS Integers, Sequences, FiniteSets

CONSTANTS
    Handle,     \* vxi11dev_t objects the program creates
    Host,       \* VXI-11 servers, one instrument each
    Client,     \* addresses of CLIENT objects
    Lid,        \* link identifiers a server hands out
    ErrLid,     \* what may stand in the lid field of a failed create_link
    Tmo,        \* timeouts the program sets
    Policy,     \* values of doLocking the program sets
    DfltTmo,    \* 25 s: of a new handle, and of a new connection
    NoClient, NOLID, NoHandle, OtherLid

ASSUME Vxi11DeviceAssumption ==
    /\ DfltTmo \in Tmo /\ Policy \subseteq BOOLEAN
    /\ NOLID \notin Lid /\ OtherLid \notin Lid \cup {NOLID}
    /\ ErrLid \subseteq Lid \cup {NOLID}
    /\ NoHandle \notin Handle /\ NoClient \notin Client
    /\ IsFiniteSet(Handle)

VARIABLES
    cache, slot, asked, live, peer,   \* the connection cache
    dev,        \* [Handle -> lid, io_timeout, doLocking]
    st,         \* [Handle -> what the program did last: "closed", "open"]
    held,       \* handles whose last vxi11_lock succeeded, and no vxi11_unlock since
    call,       \* the library call in progress
    link,       \* [Host -> [Lid -> the link's owner and connection]]
    lock,       \* [Host -> the link that holds the instrument's lock]
    waiting,    \* [Host -> links whose lock request the server holds back]
    rpcTmo,     \* [Client -> how long clnt_call waits for an answer]
    down,       \* connections that are broken
    named       \* history: [Host -> links a handle stores from a refused create_link]

cacheVars == <<cache, slot, asked, live, peer>>
handleVars == <<dev, st, held>>
serverVars == <<link, lock, waiting>>
connVars == <<rpcTmo, down, named>>
vars == <<cacheVars, handleVars, call, serverVars, connVars>>

Slot == Handle \X {"core", "abrt"}
CoreKey(host) == [host |-> host, chan |-> "core"]
AbrtKey(host) == [host |-> host, chan |-> "abrt"]
HostKey == {CoreKey(host) : host \in Host}
AddrKey == {AbrtKey(host) : host \in Host}

Cache == INSTANCE RpcCache WITH Resolve <- [k \in HostKey \cup AddrKey |-> k]

core(h) == slot[<<h, "core">>]
abrt(h) == slot[<<h, "abrt">>]
hostOf(h) == asked[<<h, "core">>].host

NoLink == [owner |-> NoHandle, conn |-> NoClient]
Idle == [fn |-> "none", h |-> NoHandle, at |-> "idle", doAbort |-> FALSE]

Begin(fn, h, at, doAbort) ==
    call' = [fn |-> fn, h |-> h, at |-> at, doAbort |-> doAbort]

Goto(at) == call' = [call EXCEPT !.at = at]

(* What the caller is told is not kept: nothing later depends on it.        *)
Results == {"SUCCESS", "CORE_CREATE", "CORE_RPCERR", "ABRT_CREATE", "REFUSED", "LOCKED",
            "NOLOCK", "NOCHAN", "LINKINVAL"}
Return(res) == res \in Results /\ call' = Idle

(* An open that failed goes on as a close does.                            *)
FailAtOnce(res) == call' = Idle                            \* mutants of Fail
FailAgain(res) == call' = call
Fail(res) == res \in Results /\ Begin("close", call.h, "close_abrt", FALSE)

(* The connection a client of the cache just got: 25 s if it is new.       *)
FreshTimeouts ==
    rpcTmo' = [c \in Client |-> IF c \in live' \ live THEN DfltTmo ELSE rpcTmo[c]]

-----------------------------------------------------------------------------
Init ==
    /\ Cache!Init
    /\ asked = [s \in Slot |-> LET host == CHOOSE x \in Host : TRUE IN
                              IF s[2] = "core" THEN CoreKey(host) ELSE AbrtKey(host)]
    /\ peer = [c \in Client |-> CHOOSE k \in HostKey : TRUE]
    /\ dev = [h \in Handle |-> [lid |-> NOLID, io_timeout |-> DfltTmo, doLocking |-> FALSE]]
    /\ st = [h \in Handle |-> "closed"]
    /\ held = {}
    /\ call = Idle
    /\ link = [host \in Host |-> [l \in Lid |-> NoLink]]
    /\ lock = [host \in Host |-> NOLID]
    /\ waiting = [host \in Host |-> {}]
    /\ rpcTmo = [c \in Client |-> DfltTmo]
    /\ down = {}
    /\ named = [host \in Host |-> {}]

(***************************************************************************)
(* vxi11_open: core channel, link, abort channel; any failure closes what  *)
(* there is.                                                               *)
(***************************************************************************)
vxi11_open(h, host, doAbort) ==
    /\ call = Idle /\ st[h] = "closed"
    /\ Begin("open", h, "link", doAbort)
    /\ Cache!clnt_create_cached(<<h, "core">>, CoreKey(host))
    /\ FreshTimeouts
    /\ UNCHANGED <<handleVars, serverVars, down, named>>

vxi11_open_core_channel_fails(h, host) ==
    /\ call = Idle /\ st[h] = "closed"
    /\ Cache!clnt_create_fails(<<h, "core">>, CoreKey(host))
    /\ Return("CORE_CREATE")   \* nothing to close
    /\ UNCHANGED <<live, peer, cache, slot, handleVars, serverVars, connVars>>

AfterLink == IF call.doAbort
             THEN Goto("abrt") /\ UNCHANGED st
             ELSE /\ Return("SUCCESS")
                  /\ st' = [st EXCEPT ![call.h] = "open"]

(* The server makes a link, and takes the lock with it if asked to.        *)
ServerLinks(h, l, owner) ==
    LET host == hostOf(h) IN
    /\ core(h) \notin down
    /\ dev[h].doLocking => lock[host] = NOLID
    /\ link[host][l] = NoLink
    /\ link' = [link EXCEPT ![host][l] = [owner |-> owner, conn |-> core(h)]]
    /\ lock' = IF dev[h].doLocking THEN [lock EXCEPT ![host] = l] ELSE lock

vxi11_create_link ==
    /\ call.fn = "open" /\ call.at = "link"
    /\ \E l \in Lid :
        /\ ServerLinks(call.h, l, call.h)
        /\ dev' = [dev EXCEPT ![call.h].lid = l]
    /\ AfterLink
    /\ UNCHANGED <<cacheVars, held, waiting, connVars>>

(* The server refuses; the lid field of its answer is stored all the same. *)
create_link_refused ==
    /\ call.fn = "open" /\ call.at = "link"
    /\ core(call.h) \notin down
    /\ \E l \in ErrLid :
        /\ dev' = [dev EXCEPT ![call.h].lid = l]
        /\ named' = [named EXCEPT ![hostOf(call.h)] = @ \cup ({l} \ {NOLID})]
    /\ Fail("REFUSED")
    /\ UNCHANGED <<cacheVars, st, held, serverVars, rpcTmo, down>>

(* No answer: the link, and the lock, may have been given, or not.         *)
create_link_unanswered ==
    /\ call.fn = "open" /\ call.at = "link"
    /\ Fail("CORE_RPCERR")
    /\ \/ UNCHANGED <<link, lock>>
       \/ \E l \in Lid : ServerLinks(call.h, l, NoHandle)
    /\ UNCHANGED <<cacheVars, handleVars, waiting, connVars>>

vxi11_open_abrt_channel ==
    /\ call.fn = "open" /\ call.at = "abrt"
    /\ Cache!clnttcp_create_cached(<<call.h, "abrt">>, AbrtKey(hostOf(call.h)))
    /\ FreshTimeouts
    /\ Return("SUCCESS")
    /\ st' = [st EXCEPT ![call.h] = "open"]
    /\ UNCHANGED <<dev, held, serverVars, down, named>>

vxi11_open_abrt_channel_fails ==
    /\ call.fn = "open" /\ call.at = "abrt"
    /\ Cache!clnt_create_fails(<<call.h, "abrt">>, AbrtKey(hostOf(call.h)))
    /\ Fail("ABRT_CREATE")
    /\ UNCHANGED <<cache, slot, live, peer, handleVars, serverVars, connVars>>

(***************************************************************************)
(* vxi11_close: the parts in the order abort channel, link, core channel,  *)
(* each only if it is there.                                               *)
(***************************************************************************)
vxi11_close(h) ==
    /\ call = Idle
    /\ Begin("close", h, "close_abrt", FALSE)
    /\ st' = [st EXCEPT ![h] = "closed"]
    /\ held' = held \ {h}
    /\ UNCHANGED <<cacheVars, dev, serverVars, connVars>>

(* What is left of a connection's links once the connection is gone.       *)
Orphaned(gone) ==
    [host \in Host |-> [l \in Lid |->
        IF link[host][l].conn \in gone
        THEN [link[host][l] EXCEPT !.conn = NoClient] ELSE link[host][l]]]

(* Give one of the handle's connections back to the cache.                 *)
ForgetChannel(s) ==                                        \* mutants of CloseChannel
    /\ slot' = [slot EXCEPT ![s] = NoClient]
    /\ UNCHANGED <<cache, asked, live, peer, link, down>>
DestroyChannel(s) ==
    /\ live' = live \ {slot[s]}
    /\ slot' = [slot EXCEPT ![s] = NoClient]
    /\ down' = down \cap live'
    /\ link' = Orphaned(live \ live')
    /\ UNCHANGED <<cache, asked, peer>>

CloseChannel(s) ==
    \/ /\ slot[s] = NoClient
       /\ UNCHANGED <<cacheVars, link, down>>
    \/ /\ Cache!clnt_destroy_cached(s)
       /\ down' = down \cap live'
       /\ link' = Orphaned(live \ live')

vxi11_close_abrt_channel ==
    /\ call.at = "close_abrt"
    /\ CloseChannel(<<call.h, "abrt">>)
    /\ Goto("close_link")
    /\ UNCHANGED <<handleVars, lock, waiting, rpcTmo, named>>

Free(host, l) ==
    /\ link' = [link EXCEPT ![host][l] = NoLink]
    /\ lock' = IF lock[host] = l THEN [lock EXCEPT ![host] = NOLID] ELSE lock
    /\ waiting' = [waiting EXCEPT ![host] = @ \ {l}]

(* The answer to destroy_link is not looked at: the server may have done   *)
(* it, or not, also where the connection works.                            *)
DestroyLink ==
    LET h == call.h  l == dev[call.h].lid IN
    \/ l # NOLID /\ core(h) \notin down /\ Free(hostOf(h), l)
    \/ UNCHANGED serverVars

LidKept ==                                                 \* mutant of vxi11_destroy_link
    /\ call.at = "close_link"
    /\ Goto("close_core")
    /\ DestroyLink
    /\ UNCHANGED <<cacheVars, handleVars, connVars>>

StoredByOthers(h) == {dev[g].lid : g \in {x \in Handle \ {h} : hostOf(x) = hostOf(h)}}

vxi11_destroy_link ==
    /\ call.at = "close_link"
    /\ Goto("close_core")
    /\ DestroyLink
    /\ dev' = [dev EXCEPT ![call.h].lid = NOLID]
    /\ named' = [named EXCEPT ![hostOf(call.h)] = @ \cap StoredByOthers(call.h)]
    /\ UNCHANGED <<cacheVars, st, held, rpcTmo, down>>

vxi11_close_core_channel ==
    /\ call.at = "close_core"
    /\ CloseChannel(<<call.h, "core">>)
    /\ call' = Idle
    /\ UNCHANGED <<handleVars, lock, waiting, rpcTmo, named>>

(***************************************************************************)
(* Settings.                                                               *)
(***************************************************************************)
vxi11_set_iotimeout(h, t) ==
    /\ call = Idle
    /\ dev' = [dev EXCEPT ![h].io_timeout = t]
    /\ rpcTmo' = IF core(h) # NoClient THEN [rpcTmo EXCEPT ![core(h)] = t] ELSE rpcTmo
    /\ UNCHANGED <<cacheVars, st, held, call, serverVars, down, named>>

vxi11_set_lockpolicy(h, doLocking) ==
    /\ call = Idle
    /\ dev' = [dev EXCEPT ![h].doLocking = doLocking]
    /\ UNCHANGED <<cacheVars, st, held, call, serverVars, connVars>>

(***************************************************************************)
(* Locks and the operations that are one RPC.                              *)
(***************************************************************************)
NotOpen(h) == IF core(h) = NoClient THEN "NOCHAN" ELSE "LINKINVAL"
Usable(h) == core(h) # NoClient /\ dev[h].lid # NOLID
Mine(h) == link[hostOf(h)][dev[h].lid] # NoLink

(* Every operation but open and close starts with these two checks.        *)
RejectedHere(fn, h) ==
    /\ call = Idle /\ ~Usable(h)
    /\ Return(NotOpen(h))
    /\ UNCHANGED <<cacheVars, handleVars, serverVars, connVars>>

(* No answer: the connection is broken, or the answer is late.  On one     *)
(* that works the server may have done what it was asked, and a request    *)
(* for the lock may still be before it.  Whoever called vxi11_unlock no    *)
(* longer counts on the lock, whatever the result.                         *)
DoneUnanswered(fn, h) ==
    LET host == hostOf(h)  l == dev[h].lid IN
    /\ core(h) \notin down /\ Mine(h)
    /\ \/ /\ fn = "lock" /\ lock[host] = NOLID
          /\ lock' = [lock EXCEPT ![host] = l] /\ UNCHANGED waiting
       \/ /\ fn = "lock"
          /\ waiting' = [waiting EXCEPT ![host] = @ \cup {l}] /\ UNCHANGED lock
       \/ /\ fn = "unlock" /\ lock[host] = l
          /\ lock' = [lock EXCEPT ![host] = NOLID] /\ UNCHANGED waiting

RpcFails(fn, h) ==
    /\ call = Idle /\ Usable(h)
    /\ Return("CORE_RPCERR")
    /\ held' = IF fn = "unlock" THEN held \ {h} ELSE held
    /\ UNCHANGED <<lock, waiting>> \/ DoneUnanswered(fn, h)
    /\ UNCHANGED <<cacheVars, dev, st, link, connVars>>

(* The server's answers to device_lock: granted, refused, or none for now. *)
vxi11_lock(h) ==
    /\ call = Idle /\ Usable(h) /\ core(h) \notin down
    /\ LET host == hostOf(h)  l == dev[h].lid IN
        \/ /\ Mine(h) /\ lock[host] = NOLID
           /\ lock' = [lock EXCEPT ![host] = l]
           /\ held' = held \cup {h}
           /\ Return("SUCCESS")
           /\ UNCHANGED waiting
        \/ /\ Mine(h) /\ lock[host] # NOLID
           /\ dev[h].doLocking /\ lock[host] # l         \* WAITLOCK
           /\ waiting' = [waiting EXCEPT ![host] = @ \cup {l}]
           /\ Begin("lock", h, "wait", FALSE)
           /\ UNCHANGED <<lock, held>>
        \/ /\ Mine(h) /\ lock[host] # NOLID
           /\ ~dev[h].doLocking \/ lock[host] = l
           /\ Return("LOCKED")
           /\ UNCHANGED <<lock, held, waiting>>
        \/ /\ ~Mine(h)
           /\ Return("LINKINVAL")
           /\ UNCHANGED <<lock, held, waiting>>
    /\ UNCHANGED <<cacheVars, dev, st, link, connVars>>

(* A lock request the server held back is granted.  The caller learns of   *)
(* it only if it is still waiting.                                         *)
lock_granted(host, l) ==
    /\ l \in waiting[host] /\ lock[host] = NOLID
    /\ lock' = [lock EXCEPT ![host] = l]
    /\ waiting' = [waiting EXCEPT ![host] = @ \ {l}]
    /\ IF call.at = "wait" /\ hostOf(call.h) = host /\ dev[call.h].lid = l
       THEN held' = held \cup {call.h} /\ Return("SUCCESS")
       ELSE UNCHANGED <<held, call>>
    /\ UNCHANGED <<cacheVars, dev, st, link, connVars>>

(* lock_timeout passes at the server.                                      *)
lock_times_out(host, l) ==
    /\ l \in waiting[host]
    /\ waiting' = [waiting EXCEPT ![host] = @ \ {l}]
    /\ IF call.at = "wait" /\ hostOf(call.h) = host /\ dev[call.h].lid = l
       THEN Return("LOCKED")
       ELSE UNCHANGED call
    /\ UNCHANGED <<cacheVars, handleVars, link, lock, connVars>>

(* The RPC's own timeout passes first: the request stays with the server.  *)
LateMeansGranted ==                                        \* mutant of lock_rpc_times_out
    /\ call.at = "wait"
    /\ held' = held \cup {call.h}
    /\ Return("SUCCESS")
    /\ UNCHANGED <<cacheVars, dev, st, serverVars, connVars>>

lock_rpc_times_out ==
    /\ call.at = "wait"
    /\ Return("CORE_RPCERR")
    /\ UNCHANGED <<cacheVars, handleVars, serverVars, connVars>>

vxi11_unlock(h) ==
    /\ call = Idle /\ Usable(h) /\ core(h) \notin down
    /\ held' = held \ {h}
    /\ LET host == hostOf(h)  l == dev[h].lid IN
        \/ /\ Mine(h) /\ lock[host] = l
           /\ lock' = [lock EXCEPT ![host] = NOLID]
           /\ Return("SUCCESS")
        \/ /\ Mine(h) /\ lock[host] # l
           /\ Return("NOLOCK") /\ UNCHANGED lock
        \/ /\ ~Mine(h)
           /\ Return("LINKINVAL") /\ UNCHANGED lock
    /\ UNCHANGED <<cacheVars, dev, st, link, waiting, connVars>>

(* vxi11_readstb, vxi11_trigger, vxi11_clear, vxi11_remote, vxi11_local:   *)
(* one RPC that waits for a foreign lock under doLocking and is refused    *)
(* without.                                                                *)
generic_op(h) ==
    /\ call = Idle /\ Usable(h) /\ core(h) \notin down
    /\ LET host == hostOf(h)
           free == lock[host] \in {NOLID, dev[h].lid} IN
        \/ /\ Mine(h) /\ free /\ Return("SUCCESS")
        \/ /\ Mine(h) /\ ~free /\ Return("LOCKED")
        \/ /\ ~Mine(h) /\ Return("LINKINVAL")
    /\ UNCHANGED <<cacheVars, handleVars, serverVars, connVars>>

(***************************************************************************)
(* The network, the servers and the other clients of the instruments.      *)
(***************************************************************************)
ConnectionBreaks(c) ==
    /\ c \in live \ down
    /\ down' = down \cup {c}
    /\ link' = Orphaned({c})
    /\ IF call.at = "wait" /\ core(call.h) = c
       THEN Return("CORE_RPCERR")
       ELSE UNCHANGED call
    /\ UNCHANGED <<cacheVars, handleVars, lock, waiting, rpcTmo, named>>

(* A server drops the links of a connection that is gone.                  *)
ServerReaps(host, l) ==
    /\ link[host][l] # NoLink /\ link[host][l].conn = NoClient
    /\ Free(host, l)
    /\ UNCHANGED <<cacheVars, handleVars, call, connVars>>

OtherLocks(host) ==
    /\ lock[host] = NOLID
    /\ lock' = [lock EXCEPT ![host] = OtherLid]
    /\ UNCHANGED <<cacheVars, handleVars, call, link, waiting, connVars>>

OtherUnlocks(host) ==
    /\ lock[host] = OtherLid
    /\ lock' = [lock EXCEPT ![host] = NOLID]
    /\ UNCHANGED <<cacheVars, handleVars, call, link, waiting, connVars>>

-----------------------------------------------------------------------------
(* The call in progress goes on.                                           *)
CallStep ==
    \/ vxi11_create_link \/ create_link_refused \/ create_link_unanswered
    \/ vxi11_open_abrt_channel \/ vxi11_open_abrt_channel_fails
    \/ vxi11_close_abrt_channel \/ vxi11_destroy_link \/ vxi11_close_core_channel
    \/ lock_rpc_times_out

(* The program makes a call.                                               *)
Program ==
    \E h \in Handle :
        \/ \E host \in Host :
            \/ \E doAbort \in BOOLEAN : vxi11_open(h, host, doAbort)
            \/ vxi11_open_core_channel_fails(h, host)
        \/ vxi11_close(h)
        \/ \E t \in Tmo : vxi11_set_iotimeout(h, t)
        \/ \E b \in Policy : vxi11_set_lockpolicy(h, b)
        \/ \E fn \in {"lock", "unlock", "generic"} :
            RejectedHere(fn, h) \/ RpcFails(fn, h)
        \/ vxi11_lock(h) \/ vxi11_unlock(h) \/ generic_op(h)

Environment ==
    \/ \E c \in Client : ConnectionBreaks(c)
    \/ \E host \in Host :
        \/ \E l \in Lid : \/ ServerReaps(host, l)
                          \/ lock_granted(host, l)
                          \/ lock_times_out(host, l)
        \/ OtherLocks(host) \/ OtherUnlocks(host)

Next == CallStep \/ Program \/ Environment

(* A call the program made goes on, RPCs end at the latest with their own   *)
(* timeout, and a server notices in the end that a connection is gone.     *)
Fairness ==
    /\ WF_vars(CallStep)
    /\ \A host \in Host, l \in Lid : WF_vars(ServerReaps(host, l))

Spec == Init /\ [][Next]_vars
FairSpec == Spec /\ Fairness

-----------------------------------------------------------------------------
(* After vxi11_close, and after a vxi11_open that failed at any of its     *)
(* stages, nothing is left in the handle: the assertions of vxi11_destroy  *)
(* hold wherever inst.c calls it.                                          *)
DestroyAsserts ==
    \A h \in Handle :
        st[h] = "closed" /\ call.h # h =>
            core(h) = NoClient /\ abrt(h) = NoClient /\ dev[h].lid = NOLID

(* A refused create_link leaves in the handle what stood in the lid field  *)
(* of the answer, and closing the handle has the server destroy it: a link *)
(* so named may be another's.  The properties of links are about the rest. *)
Named(h) == dev[h].lid \in named[hostOf(h)]

(* An open handle whose connection works owns the link it names, on its    *)
(* own connection: no other handle's open, failure or close, and no answer *)
(* that was lost, took it away.                                            *)
LinkIntegrity ==
    \A h \in Handle :
        st[h] = "open" /\ core(h) \notin down /\ ~Named(h) =>
            link[hostOf(h)][dev[h].lid] = [owner |-> h, conn |-> core(h)]

(* A lock the program was told it has, and did not try to give back since, *)
(* it has, as long as the connection works: waits that ended early, late   *)
(* grants, answers that were lost and the calls of other handles do not    *)
(* take it away.                                                           *)
LockAgreement ==
    \A h \in held :
        core(h) \notin down /\ ~Named(h) => lock[hostOf(h)] = dev[h].lid

(* The connections of this process are those of its handles that are open  *)
(* or in the middle of a call: none outlives a close or a failed open, and *)
(* none is freed under the handle that holds it.                           *)
ConnectionsAccounted ==
    /\ Cache!HeldIsLive
    /\ \A c \in live :
        \E h \in Handle : (st[h] = "open" \/ call.h = h) /\ c \in {core(h), abrt(h)}

(* Every library call returns.                                             *)
CallsReturn == call # Idle ~> call = Idle

(* When the program has closed everything for good, its servers hold no    *)
(* link any more, whatever answers to create_link and destroy_link were    *)
(* lost.                                                                   *)
LinksReclaimed ==
    <>[](call = Idle /\ \A h \in Handle : st[h] = "closed")
        => <>[](\A host \in Host, l \in Lid : link[host][l] = NoLink)

(* vxi11_device.h:49: vxi11_close closes the handle that was opened.  No   *)
(* link on a working connection ends with a call on a handle that does not *)
(* own it, but for those that a handle has from a refused create_link.     *)
OthersLinksSurvive ==
    [][\A host \in Host, l \in Lid, h \in Handle :
         /\ link[host][l].owner = h /\ link'[host][l] = NoLink
         /\ link[host][l].conn # NoClient
         => call.h = h \/ l \in named[host]]_vars
=============================================================================
