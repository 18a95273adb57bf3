---------------------------- MODULE MasterServer ----------------------------
(***************************************************************************)
(* The logic thread of the master server: MasterServerLoop and the player  *)
(* contexts it owns (MasterServer/master_server_loop.cpp,                  *)
(* master_player_context.cpp), on top of Tool/object_pool.h.               *)
(*                                                                         *)
(* One action is one command taken from the logic loop's queue and handled *)
(* to the end, or one pass of _Loop.  The commands come from the login,    *)
(* gate, cache and region servers; those are external here and summarised  *)
(* in the variable peers: what each of them was told and which answers it  *)
(* owes.  A request is known to the peer when it is sent and its answer    *)
(* may be handled at any later step, or never.                             *)
(***************************************************************************)
EXTENDS Integers, Sequences, FiniteSets, MasterPlayerFsm

CONSTANTS
  Accounts,         \* account names
  Ctx,              \* player context objects the process can create
  PoolMax,          \* size given to m_PlayerContextPool
  LoginSids,        \* session ids handed out by the login server
  GateSids,         \* session ids handed out by the gate servers
  Gates,            \* ids of the configured gate servers
  GateMax,          \* m_iSessionMax of each gate server
  ServerOf,         \* the server id encoded in a gate session id
  Regions,          \* ids of the region servers
  Channels,         \* channel ids, 0 among them
  InitialRegion,    \* the region server a channel starts players on
  AVATARCOUNT_MAX,  \* avatars of one account
  SendResults,      \* can sending to a peer fail? {TRUE} or {TRUE, FALSE}
  NULL              \* the null pointer, the empty name

NoSid == 0          \* session id 0
Sids == LoginSids \cup GateSids \cup {NoSid}
GateIds == Gates \cup {0}
RegionIds == Regions \cup {0}
Uint16 == { n \in Nat : n < 65536 }

ASSUME ConstantAssumption ==
  /\ PoolMax \in Uint16
  /\ Gates \subseteq Nat \ {0} /\ Regions \subseteq Nat \ {0}
  /\ GateMax \in [Gates -> Uint16]
  /\ ServerOf \in [GateSids -> Gates]
  /\ 0 \in Channels /\ InitialRegion \in [Channels -> Regions]
  /\ AVATARCOUNT_MAX \in Nat
  /\ SendResults \subseteq BOOLEAN
  /\ LoginSids \cap GateSids = {} /\ NoSid \notin LoginSids \cup GateSids
  /\ NULL \notin Ctx \cup Accounts
  /\ IsFiniteSet(Ctx)

VARIABLES
  st, fin, acct, sess, gateId, regionId, chan, avatars, \* MasterPlayerContext
  byName, bySid, loginMap, gateMap, regionMap,          \* the five indexes
  created, freeCnt, used,                               \* m_PlayerContextPool
  queue,            \* m_PlayerFinalizingQueue
  status,           \* m_iShutdownStatus
  loginUp,          \* m_LoginServerContext.m_bIsConnected
  gateCnt,          \* m_iSessionCount of each gate server context
  peers,            \* the other servers, as seen from here
  overrun           \* history: one pass of _Loop found two or more players

idVars    == <<acct, sess, gateId>>
ctxVars   == <<regionId, chan, avatars>>
mapVars   == <<byName, bySid, loginMap, gateMap>>
poolVars  == <<created, freeCnt, used>>
loopVars  == <<status, loginUp, gateCnt, overrun>>
vars == <<st, fin, queue, regionMap, peers, idVars, ctxVars, mapVars, poolVars, loopVars>>

-----------------------------------------------------------------------------
(* ObjectPool: the free list is a bag of objects; its order is immaterial. *)

Free(c, n) ==                 \* Free called n times on c
  /\ freeCnt' = [freeCnt EXCEPT ![c] = @ + n]
  /\ used' = (used - n) % 65536
  /\ UNCHANGED created

Allocate(c) ==
  /\ PoolMax > used
  /\ used' = used + 1
  /\ \/ /\ freeCnt[c] > 0
        /\ freeCnt' = [freeCnt EXCEPT ![c] = @ - 1]
        /\ UNCHANGED created
     \/ /\ \A d \in Ctx : freeCnt[d] = 0
        /\ c \notin created
        /\ created' = created \cup {c}
        /\ UNCHANGED freeCnt

\* In the hands of the loop: created and not on the free list.
Live(c) == c \in created /\ freeCnt[c] = 0

-----------------------------------------------------------------------------
(* The peers.  owed holds the answers a server still has to give:          *)
(*   GateAlloc   a gate was asked for a session for account acct           *)
(*   AvatarList, AvatarCreate, AvatarSelect   forwarded to the cache       *)
(*   RegionAlloc                              sent to a region server      *)
(*   RegionLeave   a region was asked to let a player leave                *)
(* void marks a gate answer whose session the gate was told to release     *)
(* while the answer was under way.  The master has a handler for the       *)
(* answer to RegionLeave, which the region server never sends: no property *)
(* counts on it.                                                           *)
(*                                                                         *)
(* The master does not repeat a notice it could not send; untold keeps     *)
(* which ones the peers did not get about which session.                   *)
(*                                                                         *)
(* A definition marked "Variant" is not part of the model: it states a     *)
(* plausible slip in the code, which the properties must tell from it.     *)

Answer(kind, s, n, srv) == [kind |-> kind, sid |-> s, acct |-> n, srv |-> srv, void |-> FALSE]

GateKinds == {"GateAlloc"}
CacheKinds == {"AvatarList", "AvatarCreate", "AvatarSelect"}
RegionKinds == {"RegionAlloc", "RegionLeave"}

Answers ==
  [kind : GateKinds, sid : LoginSids, acct : Accounts, srv : Gates, void : BOOLEAN]
    \cup [kind : CacheKinds, sid : Sids, acct : {NULL}, srv : {0}, void : {FALSE}]
    \cup [kind : RegionKinds, sid : Sids, acct : {NULL}, srv : RegionIds, void : {FALSE}]

Notices == { "LoginNtf", "OnLoginFailedAck", "GateReleaseReq", "Disconnect", "OnLogoutReq",
             "RegionReleaseReq" }

PeersType ==
  [ owed      : SUBSET Answers,
    loginWait : SUBSET LoginSids,                       \* clients waiting on the login server
    gateOwner : [GateSids -> Accounts \cup {NULL}],     \* sessions the gates hold
    gateIn    : SUBSET GateSids,                        \* sessions a client logged in to
    cacheOn   : SUBSET Sids,                            \* player contexts of the cache
    regionOn  : SUBSET (RegionIds \X Sids),             \* player contexts of the regions
    untold    : SUBSET (Sids \X Notices) ]              \* history: notices that could not be sent

Owe(p, a)     == [p EXCEPT !.owed = @ \cup {a}]
Settle(p, a)  == [p EXCEPT !.owed = @ \ {a}]
LoginAnswered(p, s) == [p EXCEPT !.loginWait = @ \ {s}]

\* GateReleaseReq names the account: the gate closes the session it holds for it.
GateReleased(p, names) ==
  [p EXCEPT !.owed = { IF a.kind = "GateAlloc" /\ a.acct \in names
                       THEN [a EXCEPT !.void = TRUE] ELSE a : a \in @ },
            !.gateOwner = [g \in GateSids |-> IF @[g] \in names THEN NULL ELSE @[g]]]

\* The gate gives up the sessions in S; what their clients sent before may
\* still be under way, until the gate reports the disconnection.
GateDropped(p, S) ==
  [p EXCEPT !.gateOwner = [g \in GateSids |-> IF g \in S THEN NULL ELSE @[g]]]

Untold(p, s, m) == [p EXCEPT !.untold = @ \cup {<<s, m>>}]

\* The client of s waits on the login server; s is new to everybody else.
NowWaiting(p, s) == [p EXCEPT !.loginWait = @ \cup {s}, !.untold = @ \ ({s} \X Notices)]

\* The notices a sender may fail to get out of those it has to send.
Lossy(S) == IF FALSE \in SendResults THEN SUBSET S ELSE {{}}

\* No server or context refers to session s any more: its number may come back.
Unused(s) ==
  /\ \A c \in Ctx : sess[c] # s
  /\ bySid[s] = NULL /\ loginMap[s] = NULL
  /\ s \notin peers.loginWait \cup peers.cacheOn
  /\ \A a \in peers.owed : a.sid # s
  /\ \A r \in RegionIds : <<r, s>> \notin peers.regionOn
  /\ s \in GateSids => /\ peers.gateOwner[s] = NULL /\ s \notin peers.gateIn
                       /\ gateMap[<<ServerOf[s], s>>] = NULL

-----------------------------------------------------------------------------
(* ShutdownPlayer, for a set C of contexts met in states sv (a single one, *)
(* except in _OnCommandShutdown).                                          *)

\* Variant: the case GATEALLOCACK sends no OnLoginFailedAck.
FailedAckForgotten == {"ONLOGINREQ", "GATEALLOCREQ", "GATEALLOCFAILACK"}

FailedAckStates == {"ONLOGINREQ", "GATEALLOCREQ", "GATEALLOCACK", "GATEALLOCFAILACK"}
\* Variant: the case GATEALLOCREQ sends no GateReleaseReq.
GateReleaseForgotten == {"GATEALLOCACK", "GATEALLOCNTF"}

GateReleaseStates == {"GATEALLOCREQ", "GATEALLOCACK", "GATEALLOCNTF"}
RegionReleaseStates == {"REGIONALLOCREQ", "ONREGIONALLOCACK", "CHANNELSELECTACK"}
RegionLeaveStates == {"REGIONENTERREQ", "ONCHANNELLEAVEREQ", "FINALIZING"}
CacheLogoutStates ==
  { "CACHELOGINREQ", "ONAVATARLISTREQ", "AVATARLISTREQ", "ONAVATARLISTACK", "AVATARLISTACK",
    "ONAVATARCREATEREQ", "AVATARCREATEREQ", "ONAVATARCREATEACK", "ONAVATARSELECTREQ",
    "AVATARSELECTREQ", "ONAVATARSELECTACK", "AVATARSELECTACK", "CHANNELLISTNTF",
    "ONCHANNELSELECTREQ", "ONREGIONALLOCFAILACK", "CHANNELSELECTFAILACK",
    "ONCHANNELLEAVE_ONREGIONLEAVEREQ", "FINALIZING_ONREGIONLEAVEREQ" }
    \cup RegionReleaseStates \cup RegionLeaveStates
DisconnectStates == CacheLogoutStates \cup {"ONGATELOGINREQ", "LOGOUT"}

Releases ==
  [ OnLoginFailedAck |-> FailedAckStates, GateReleaseReq |-> GateReleaseStates,
    Disconnect |-> DisconnectStates, OnLogoutReq |-> CacheLogoutStates,
    RegionReleaseReq |-> RegionReleaseStates ]

\* The notices due about the contexts in gone, as pairs of context and notice.
Due(sv, gone) == { m \in gone \X DOMAIN Releases : sv[m[1]] \in Releases[m[2]] }

\* What the peers are told about the contexts in leave and in gone; the notices
\* in lost cannot be sent, rid is m_iRegionServerId at the time of the call.
TellPeers(p, sv, rid, leave, gone, lost) ==
  LET In(S, m) == { c \in gone : sv[c] \in S /\ <<c, m>> \notin lost }
      p1 == [p EXCEPT
              !.owed = @ \cup { Answer("RegionLeave", sess[c], NULL, rid[c]) : c \in leave },
              !.regionOn = @ \ { <<rid[c], sess[c]>> : c \in In(RegionReleaseStates, "RegionReleaseReq") },
              !.loginWait = @ \ { sess[c] : c \in In(FailedAckStates, "OnLoginFailedAck") },
              !.cacheOn = @ \ { sess[c] : c \in In(CacheLogoutStates, "OnLogoutReq") },
              !.untold = @ \cup { <<sess[m[1]], m[2]>> : m \in lost }]
      p2 == GateReleased(p1, { acct[c] : c \in In(GateReleaseStates, "GateReleaseReq") })
  IN  GateDropped(p2, { sess[c] : c \in In(DisconnectStates, "Disconnect") })

\* The orders in which the elements of S may be pushed.
Orders(S) ==
  { q \in [1 .. Cardinality(S) -> S] :
      /\ \A x \in S : \E i \in 1 .. Cardinality(S) : q[i] = x
      /\ \A i, j \in 1 .. Cardinality(S) : q[i] = q[j] => i = j }

\* m_arrayChannelContext[channel].m_arrayRegionContext[region].m_mPlayerContext
RegionKeys(S, rid) == { <<chan[c], rid[c], sess[c]>> : c \in S }

DeleteFromRegion(keys) ==
  regionMap' = [k \in DOMAIN regionMap |-> IF k \in keys THEN NULL ELSE regionMap[k]]

\* Variant: ShutdownPlayer does not test m_bFinalizing.
FinalizingNotTested(C) == C

\* A player already queued for deletion is left alone.
NotFinalizing(C) == { c \in C : ~fin[c] }

ShutdownSet(C, sv, tv, p, reached, left) ==
  LET todo  == NotFinalizing(C)
      leave == { c \in todo : sv[c] \in RegionLeaveStates /\ c \in reached }
      gone  == todo \ leave
      freed == { c \in gone : sv[c] \in RegionReleaseStates } \cup left
  IN  /\ st' = [c \in Ctx |->
                  IF c \in leave
                  THEN After(After(sv[c], "FINALIZE"), "REGIONLEAVEACK")
                  ELSE IF c \in gone /\ sv[c] \in RegionLeaveStates
                       THEN After(sv[c], "FINALIZE") ELSE tv[c]]
      /\ fin' = [c \in Ctx |-> fin[c] \/ c \in gone]
      /\ \E q \in Orders(gone) : queue' = queue \o q
      /\ DeleteFromRegion(RegionKeys(freed, regionId'))
      /\ \E lost \in Lossy(Due(sv, gone)) : peers' = TellPeers(p, sv, regionId', leave, gone, lost)

\* One player: met in state s; the handler it returns to leaves it in state t.
ShutdownPlayer(c, s, t, p, ok) ==
  ShutdownSet({c}, [st EXCEPT ![c] = s], [st EXCEPT ![c] = t], p, IF ok THEN {c} ELSE {}, {})

StateError(c, p, ok) == ShutdownPlayer(c, st[c], st[c], p, ok)

Move(c, s, p) ==
  /\ st' = [st EXCEPT ![c] = s]
  /\ peers' = p
  /\ UNCHANGED <<fin, queue, regionMap>>

Ignore(p) == peers' = p /\ UNCHANGED <<st, fin, queue, regionMap>>

\* An event finds no player under its key, or one about to leave.
Gone(c) == c # NULL => fin[c]

\* How the handlers of a player's events begin: an event for a player about to
\* leave is ignored, one the state machine has no row for shuts the player down.
Rejected(c, e, p, ok) ==
  \/ fin[c] /\ Ignore(p)
  \/ ~fin[c] /\ Result(st[c], e) = INVALID /\ StateError(c, p, ok)

Admitted(c, e) == ~fin[c] /\ Result(st[c], e) # INVALID

-----------------------------------------------------------------------------
(* The commands.  All of them are dropped once shutdown has started.       *)

Accepting == status = "NOT_SHUTDOWN"

Insert(f, k, c) == IF f[k] = NULL THEN [f EXCEPT ![k] = c] ELSE f

LoginReport ==
  /\ Accepting
  /\ loginUp' = TRUE
  /\ UNCHANGED <<st, fin, queue, regionMap, peers, idVars, ctxVars, mapVars, poolVars,
                 status, gateCnt, overrun>>

\* A gate reports its session count, which replaces the master's own count.
GateReport(g, n) ==
  /\ Accepting
  /\ gateCnt' = [gateCnt EXCEPT ![g] = n]
  /\ UNCHANGED <<st, fin, queue, regionMap, peers, idVars, ctxVars, mapVars, poolVars,
                 status, loginUp, overrun>>

\* GateAllocReq() picks the first gate server, in id order, with room.
GatesWithRoom == { g \in Gates : GateMax[g] > gateCnt[g] }
FirstGate(g) == g \in GatesWithRoom /\ \A h \in GatesWithRoom : g <= h

\* MasterPlayerContext::OnLoginReq; ok: the request to the gate was sent.
PlayerOnLoginReq(c, s, n, p, ok) ==
  \/ /\ Result(st[c], "ONLOGINREQ") = INVALID
     /\ UNCHANGED <<idVars, gateCnt, regionId>>
     /\ StateError(c, p, ok)
  \/ /\ Result(st[c], "ONLOGINREQ") = "ONLOGINREQ"
     /\ acct' = [acct EXCEPT ![c] = n]
     /\ sess' = [sess EXCEPT ![c] = s]
     /\ UNCHANGED regionId
     /\ \/ /\ GatesWithRoom = {}
           /\ Move(c, "ONLOGINREQ", p)
           /\ UNCHANGED <<gateId, gateCnt>>
        \/ \E g \in Gates :
             /\ FirstGate(g)
             /\ gateId' = [gateId EXCEPT ![c] = g]
             /\ gateCnt' = [gateCnt EXCEPT ![g] = @ + 1]
             /\ IF ok THEN Move(c, "GATEALLOCREQ", Owe(p, Answer("GateAlloc", s, n, g)))
                      ELSE Move(c, "ONLOGINREQ", p)

\* _OnCommandOnLoginReq: account n asks for admission through login session s;
\* told: a refusal (OnLoginFailedAck) was sent.
OnLoginReq(n, s, ok, told) ==
  LET p == NowWaiting(peers, s)
      refused == IF told THEN peers ELSE Untold(p, s, "OnLoginFailedAck")
  IN  /\ Accepting
      /\ Unused(s)
      /\ \/ /\ ~loginUp                       \* reason 1
            /\ Ignore(refused)
            /\ UNCHANGED <<idVars, ctxVars, mapVars, poolVars, loopVars>>
         \/ /\ loginUp /\ byName[n] # NULL     \* reason 2, and the old player goes
            /\ UNCHANGED regionId
            /\ StateError(byName[n], refused, ok)
            /\ UNCHANGED <<idVars, chan, avatars, mapVars, poolVars, loopVars>>
         \/ /\ loginUp /\ byName[n] = NULL /\ PoolMax <= used      \* reason 2
            /\ Ignore(refused)
            /\ UNCHANGED <<idVars, ctxVars, mapVars, poolVars, loopVars>>
         \/ /\ loginUp /\ byName[n] = NULL
            /\ \E c \in Ctx :
                 /\ Allocate(c)
                 /\ byName' = [byName EXCEPT ![n] = c]
                 /\ bySid' = Insert(bySid, s, c)
                 /\ loginMap' = Insert(loginMap, s, c)
                 /\ PlayerOnLoginReq(c, s, n, p, ok)
            /\ UNCHANGED <<chan, avatars, gateMap, status, loginUp, overrun>>

LoginSession2GateSession(c, s, g) ==
  /\ loginMap' = [loginMap EXCEPT ![s] = NULL]
  /\ IF g = NoSid                           \* its server id names no gate
     THEN UNCHANGED <<sess, gateMap, bySid>>
     ELSE /\ sess' = [sess EXCEPT ![c] = g]
          /\ gateMap' = Insert(gateMap, <<ServerOf[g], g>>, c)
          /\ bySid' = IF bySid[s] = NULL THEN bySid
                      ELSE Insert([bySid EXCEPT ![s] = NULL], g, c)

\* What could not be said about session s holds for g, which the player has now.
NowUnder(p, s, g) ==
  IF g = NoSid THEN p
  ELSE [p EXCEPT !.untold = { u \in Sids \X Notices :
                                IF u[1] = g THEN <<s, u[2]>> \in @ ELSE u \in @ }]

\* MasterPlayerContext::GateAllocAck; ok: the notification reached the login server.
PlayerGateAllocAck(c, s, srv, g, p, ok) ==
  \/ /\ srv = 0                             \* means failed
     /\ UNCHANGED <<mapVars, sess, gateId>>
     /\ LET t == After(st[c], "GATEALLOCFAILACK") IN ShutdownPlayer(c, t, t, p, ok)
  \/ /\ srv # 0 /\ Result(st[c], "GATEALLOCACK") = INVALID
     /\ UNCHANGED <<mapVars, sess, gateId>>
     /\ StateError(c, p, ok)
  \/ /\ srv # 0 /\ Result(st[c], "GATEALLOCACK") = "GATEALLOCACK"
     /\ gateId' = [gateId EXCEPT ![c] = srv]
     /\ \/ /\ ~ok
           /\ UNCHANGED <<mapVars, sess>>
           /\ ShutdownPlayer(c, "GATEALLOCACK", "GATEALLOCACK", Untold(p, s, "LoginNtf"), TRUE)
        \/ /\ ok
           /\ Move(c, "GATEALLOCNTF", NowUnder(LoginAnswered(p, s), s, g))
           /\ LoginSession2GateSession(c, s, g)
           /\ UNCHANGED byName

\* What a gate answers to a: a session of its own, none because it is full
\* (its own id, session 0), or the refusal the protocol reserves (server id 0).
GateAnswers(a) ==
  { <<a.srv, g>> : g \in { h \in GateSids : ServerOf[h] = a.srv /\ Unused(h) } }
    \cup {<<a.srv, NoSid>>, <<0, NoSid>>}

\* Variant: _OnCommandGateAllocAck trusts the account name alone.
AnyLogin(c, a) == TRUE

\* The answer is for the login the account's player is at work on.
SameLogin(c, a) == sess[c] = a.sid

GateAllocAck(a, srv, g, ok) ==
  LET c == byName[a.acct]
      p == IF g = NoSid \/ a.void THEN Settle(peers, a)
           ELSE [Settle(peers, a) EXCEPT !.gateOwner[g] = a.acct]
  IN  /\ Accepting
      /\ UNCHANGED regionId
      /\ \/ /\ c # NULL => ~SameLogin(c, a)
            /\ Ignore(p)
            /\ UNCHANGED <<mapVars, sess, gateId>>
         \/ /\ c # NULL /\ SameLogin(c, a)
            /\ PlayerGateAllocAck(c, a.sid, srv, g, p, ok)
      /\ UNCHANGED <<acct, chan, avatars, poolVars, loopVars>>

\* What stays as it is while a player's own state machine runs.
Frame == UNCHANGED <<idVars, mapVars, poolVars, loopVars>>

\* _OnCommandOnGateLoginReq: the client has moved to gate session g.
OnGateLoginReq(g, ok) ==
  LET c == bySid[g]
      p == [peers EXCEPT !.gateIn = @ \cup {g}]
  IN  /\ Accepting
      /\ peers.gateOwner[g] # NULL /\ g \notin peers.gateIn
      /\ UNCHANGED ctxVars
      /\ \/ c = NULL /\ Ignore(p)
         \/ c # NULL /\ Rejected(c, "ONGATELOGINREQ", p, ok)
         \/ /\ c # NULL /\ Admitted(c, "ONGATELOGINREQ")
            /\ IF ok THEN Move(c, "CACHELOGINREQ", [p EXCEPT !.cacheOn = @ \cup {g}])
                     ELSE ShutdownPlayer(c, "ONGATELOGINREQ", "ONGATELOGINREQ", p, TRUE)
      /\ Frame

\* _OnCommandOnSessionDisconnect: the client of session s is gone.
OnSessionDisconnect(s, ok) ==
  LET c == bySid[s]
      p == [GateDropped(LoginAnswered(peers, s), {s}) EXCEPT !.gateIn = @ \ {s}]
  IN  /\ Accepting
      /\ s \in peers.gateIn \cup peers.loginWait
      /\ UNCHANGED ctxVars
      /\ IF c = NULL THEN Ignore(p) ELSE StateError(c, p, ok)
      /\ Frame

(***************************************************************************)
(* A client's request that the master passes on to the cache server: event *)
(* on is checked first, then the request itself; the cache owes an answer. *)
(***************************************************************************)
ForwardToCache(c, on, to, valid, kind, ok) ==
  \/ Rejected(c, on, peers, ok)
  \/ /\ Admitted(c, on)
     /\ IF valid /\ ok THEN Move(c, After(on, to), Owe(peers, Answer(kind, sess[c], NULL, 0)))
                       ELSE ShutdownPlayer(c, on, on, peers, ok)

OnAvatarListReq(c, ok) == ForwardToCache(c, "ONAVATARLISTREQ", "AVATARLISTREQ", TRUE, "AvatarList", ok)

\* Variant: the limit on avatars is off by one.
OnAvatarCreateReqOffByOne(c, ok) ==
  ForwardToCache(c, "ONAVATARCREATEREQ", "AVATARCREATEREQ", avatars[c] <= AVATARCOUNT_MAX,
                 "AvatarCreate", ok)

OnAvatarCreateReq(c, ok) ==
  ForwardToCache(c, "ONAVATARCREATEREQ", "AVATARCREATEREQ", avatars[c] < AVATARCOUNT_MAX,
                 "AvatarCreate", ok)

\* known: the name is one of the avatars listed for this account.
OnAvatarSelectReq(c, known, ok) ==
  ForwardToCache(c, "ONAVATARSELECTREQ", "AVATARSELECTREQ", known /\ avatars[c] > 0,
                 "AvatarSelect", ok)

\* OnChannelSelectReq; ch is NULL for a name that is no channel's.
OnChannelSelectReq(c, ch, ok) ==
  \/ Rejected(c, "ONCHANNELSELECTREQ", peers, ok) /\ UNCHANGED chan
  \/ /\ Admitted(c, "ONCHANNELSELECTREQ")
     /\ \/ ch = NULL /\ Move(c, "ONCHANNELSELECTREQ", peers) /\ UNCHANGED chan
        \/ /\ ch # NULL /\ ~ok
           /\ ShutdownPlayer(c, "ONCHANNELSELECTREQ", "ONCHANNELSELECTREQ", peers, TRUE)
           /\ UNCHANGED chan
        \/ /\ ch # NULL /\ ok
           /\ chan' = [chan EXCEPT ![c] = ch]
           /\ LET r == InitialRegion[ch]
                  p == Owe(peers, Answer("RegionAlloc", sess[c], NULL, r))
              IN  Move(c, "REGIONALLOCREQ", [p EXCEPT !.regionOn = @ \cup {<<r, sess[c]>>}])

\* _OnCommandPacketForward, for a packet of the client of gate session g.
ClientPacket(g, ok) ==
  LET c == bySid[g]
  IN  /\ Accepting
      /\ g \in peers.gateIn /\ c # NULL
      /\ UNCHANGED <<regionId, avatars>>
      /\ \/ OnAvatarListReq(c, ok) /\ UNCHANGED chan
         \/ OnAvatarCreateReq(c, ok) /\ UNCHANGED chan
         \/ (\E known \in BOOLEAN : OnAvatarSelectReq(c, known, ok)) /\ UNCHANGED chan
         \/ \E ch \in Channels \cup {NULL} : OnChannelSelectReq(c, ch, ok)
      /\ Frame

-----------------------------------------------------------------------------
(* Answers of the cache server, packets forwarded to the master. *)

\* OnAvatarListAck: ret is the cache's result, n the number of avatars listed.
OnAvatarListAck(c, p, ret, n, ok) ==
  LET s == "ONAVATARLISTACK"
  IN  \/ Rejected(c, s, p, ok) /\ UNCHANGED avatars
      \/ /\ Admitted(c, s)
         /\ \/ ret # 0 /\ ShutdownPlayer(c, s, s, p, ok) /\ UNCHANGED avatars
            \/ /\ ret = 0
               /\ avatars' = [avatars EXCEPT ![c] = n]
               /\ IF ok THEN Move(c, After(s, "AVATARLISTACK"), p)
                        ELSE ShutdownPlayer(c, s, After(s, "AVATARLISTACK"), p, TRUE)

OnAvatarCreateAck(c, p, ret, ok) ==
  LET s == "ONAVATARCREATEACK"
  IN  \/ Rejected(c, s, p, ok) /\ UNCHANGED avatars
      \/ /\ Admitted(c, s)
         /\ \/ ret # 0 /\ ShutdownPlayer(c, s, s, p, ok) /\ UNCHANGED avatars
            \/ /\ ret = 0
               /\ IF avatars[c] >= AVATARCOUNT_MAX
                  THEN Move(c, s, p) /\ UNCHANGED avatars
                  ELSE /\ avatars' = [avatars EXCEPT ![c] = @ + 1]
                       /\ IF ok THEN Move(c, After(s, "AVATARCREATEACK"), p)
                                ELSE ShutdownPlayer(c, s, After(s, "AVATARCREATEACK"), p, TRUE)

\* OnAvatarSelectAck: ch is the channel the avatar was last in; ok and listed
\* are the results of sending the answer and the channel list to the client.
OnAvatarSelectAck(c, p, ret, ch, ok, listed) ==
  LET s == "ONAVATARSELECTACK"
      t == After(s, "AVATARSELECTACK")
  IN  \/ Rejected(c, s, p, ok) /\ UNCHANGED chan
      \/ /\ Admitted(c, s)
         /\ \/ ret # 0 /\ ShutdownPlayer(c, s, s, p, ok) /\ UNCHANGED chan
            \/ /\ ret = 0
               /\ chan' = [chan EXCEPT ![c] = ch]
               /\ LET u == IF listed THEN After(t, "CHANNELLISTNTF") ELSE t
                  IN  IF ok /\ listed THEN Move(c, u, p)
                      ELSE ShutdownPlayer(c, IF ok THEN t ELSE s, u, p, TRUE)

Returns == {0, -1}

\* _OnCommandPacketForward, for a packet of the cache server.
CacheAck(a, ok) ==
  LET c == bySid[a.sid]
      p == Settle(peers, a)
  IN  /\ Accepting
      /\ UNCHANGED regionId
      /\ \/ c = NULL /\ Ignore(p) /\ UNCHANGED <<chan, avatars>>
         \/ /\ c # NULL /\ a.kind = "AvatarList"
            /\ \E ret \in Returns, n \in 0 .. AVATARCOUNT_MAX : OnAvatarListAck(c, p, ret, n, ok)
            /\ UNCHANGED chan
         \/ /\ c # NULL /\ a.kind = "AvatarCreate"
            /\ \E ret \in Returns : OnAvatarCreateAck(c, p, ret, ok)
            /\ UNCHANGED chan
         \/ /\ c # NULL /\ a.kind = "AvatarSelect"
            /\ \E ret \in Returns, ch \in Channels, listed \in SendResults :
                 OnAvatarSelectAck(c, p, ret, ch, ok, listed)
            /\ UNCHANGED avatars
      /\ Frame

-----------------------------------------------------------------------------
(* Answers of the region servers. *)

\* OnRegionAllocAck refused by the region: the code fires ONREGIONALLOCFAILACK,
\* CHANNELSELECTACK and CHANNELLISTNTF in turn, whatever they return.
RegionRefused(c, p, ok, listed) ==
  LET s1 == After("ONREGIONALLOCACK", "ONREGIONALLOCFAILACK")
      s2 == After(s1, "CHANNELSELECTACK")
      s3 == After(s2, "CHANNELLISTNTF")
  IN  /\ UNCHANGED regionId
      /\ \/ ~ok /\ ShutdownPlayer(c, s1, s1, p, TRUE)
         \/ ok /\ ~listed /\ ShutdownPlayer(c, s2, s2, p, TRUE)
         \/ ok /\ listed /\ Move(c, s3, p)

\* OnRegionAllocAck granted; ok: the client was told, entered: the region was told.
RegionGranted(c, r, p, ok, entered) ==
  /\ regionId' = [regionId EXCEPT ![c] = r]
  /\ \/ ~ok /\ ShutdownPlayer(c, "ONREGIONALLOCACK", "ONREGIONALLOCACK", p, TRUE)
     \/ ok /\ ~entered /\ ShutdownPlayer(c, "CHANNELSELECTACK", "CHANNELSELECTACK", p, TRUE)
     \/ /\ ok /\ entered
        /\ st' = [st EXCEPT ![c] = "REGIONENTERREQ"]
        /\ regionMap' = Insert(regionMap, <<chan[c], r, sess[c]>>, c)
        /\ peers' = p
        /\ UNCHANGED <<fin, queue>>

OnRegionAllocAck(a, ret, ok, ok2) ==
  LET c == bySid[a.sid]
      p == IF ret = 0 THEN Settle(peers, a)
           ELSE [Settle(peers, a) EXCEPT !.regionOn = @ \ {<<a.srv, a.sid>>}]
  IN  /\ Accepting
      /\ \/ c = NULL /\ Ignore(p) /\ UNCHANGED regionId
         \/ /\ c # NULL
            /\ UNCHANGED regionId
            /\ Rejected(c, "ONREGIONALLOCACK", p, ok)
         \/ /\ c # NULL /\ Admitted(c, "ONREGIONALLOCACK")
            /\ IF ret # 0 THEN RegionRefused(c, p, ok, ok2)
                          ELSE RegionGranted(c, a.srv, p, ok, ok2)
      /\ UNCHANGED <<chan, avatars>>
      /\ Frame

\* OnRegionLeaveReq: the player has left the region; the client is told (ok).
OnRegionLeaveReq(a, ok) ==
  LET c == bySid[a.sid]
      s == Result(st[c], "ONREGIONLEAVEREQ")
      p == [Settle(peers, a) EXCEPT !.regionOn = @ \ {<<a.srv, a.sid>>}]
  IN  /\ Accepting
      /\ UNCHANGED ctxVars
      /\ \/ c = NULL /\ Ignore(p)
         \/ c # NULL /\ s = INVALID /\ StateError(c, p, ok)
         \/ /\ c # NULL /\ s # INVALID /\ ~ok
            /\ ShutdownSet({c}, [st EXCEPT ![c] = s], [st EXCEPT ![c] = s], p, {c}, {c})
         \/ /\ c # NULL /\ s # INVALID /\ ok
            /\ st' = [st EXCEPT ![c] = After(s, "CHANNELLISTNTF")]
            /\ DeleteFromRegion(RegionKeys({c}, regionId))
            /\ peers' = p
            /\ UNCHANGED <<fin, queue>>
      /\ Frame

\* The notices of OnRegionPlayerFailReq about session s, but those in lost.
PlayerFailed(p, s, lost) ==
  LET q == [p EXCEPT !.cacheOn = IF "OnLogoutReq" \in lost THEN @ ELSE @ \ {s},
                     !.untold = @ \cup ({s} \X lost)]
  IN  GateDropped(q, IF "Disconnect" \in lost THEN {} ELSE {s})

\* OnRegionPlayerFailReq: region r gives up the player of session s.
OnRegionPlayerFailReq(r, s) ==
  LET c == bySid[s]
      p == [peers EXCEPT !.regionOn = @ \ {<<r, s>>}]
  IN  /\ Accepting
      /\ <<r, s>> \in peers.regionOn
      /\ \/ Gone(c) /\ Ignore(p)
         \/ /\ ~Gone(c)
            /\ fin' = [fin EXCEPT ![c] = TRUE]
            /\ queue' = Append(queue, c)
            /\ \E lost \in Lossy({"Disconnect", "OnLogoutReq"}) : peers' = PlayerFailed(p, s, lost)
            /\ UNCHANGED <<st, regionMap>>
      /\ UNCHANGED ctxVars
      /\ Frame

-----------------------------------------------------------------------------
(* Shutdown and the periodic pass. *)

\* _OnCommandShutdown: every player of m_mPlayerContextByName is shut down;
\* reached are those whose region server could be told.
Shutdown(reached) ==
  /\ Accepting
  /\ status' = "START_SHUTDOWN"
  /\ UNCHANGED ctxVars
  /\ ShutdownSet({ byName[n] : n \in Accounts } \ {NULL}, st, st, peers, reached, {})
  /\ UNCHANGED <<idVars, mapVars, poolVars, loginUp, gateCnt, overrun>>

\* Variant: DeletePlayer's switch has no case GATEALLOCREQ.
LoginMapCaseMissing == {"ONLOGINREQ", "GATEALLOCFAILACK"}

LoginMapStates == {"ONLOGINREQ", "GATEALLOCREQ", "GATEALLOCFAILACK"}
GateMapStates == States \ (LoginMapStates \cup {"NONE"})
\* Variant: DeletePlayer's switch has no case for a player waiting to leave.
RegionMapCaseMissing ==
  { "ONREGIONALLOCFAILACK", "CHANNELSELECTFAILACK", "ONCHANNELLEAVE_ONREGIONLEAVEREQ",
    "FINALIZING_ONREGIONLEAVEREQ", "REGIONALLOCREQ", "ONREGIONALLOCACK", "CHANNELSELECTACK",
    "REGIONENTERREQ", "ONCHANNELLEAVEREQ", "FINALIZING", "LOGOUT" }

RegionMapStates ==
  { "ONREGIONALLOCFAILACK", "CHANNELSELECTFAILACK", "ONCHANNELLEAVE_ONREGIONLEAVEREQ",
    "ONCHANNELLEAVE_REGIONLEAVEACK", "FINALIZING_ONREGIONLEAVEREQ", "REGIONALLOCREQ",
    "ONREGIONALLOCACK", "CHANNELSELECTACK", "REGIONENTERREQ", "ONCHANNELLEAVEREQ",
    "FINALIZING", "FINALIZING_REGIONLEAVEACK", "LOGOUT" }

Erase(f, k) == [f EXCEPT ![k] = NULL]

\* Variant: Clear does not reset m_bFinalizing.
ClearKeepsFinalizing(c) ==
  /\ st' = [st EXCEPT ![c] = "NONE"]
  /\ acct' = [acct EXCEPT ![c] = NULL] /\ sess' = [sess EXCEPT ![c] = NoSid]
  /\ gateId' = [gateId EXCEPT ![c] = 0] /\ regionId' = [regionId EXCEPT ![c] = 0]
  /\ chan' = [chan EXCEPT ![c] = 0] /\ avatars' = [avatars EXCEPT ![c] = 0]
  /\ UNCHANGED fin

\* MasterPlayerContext::Clear
Clear(c) ==
  /\ st' = [st EXCEPT ![c] = "NONE"]
  /\ fin' = [fin EXCEPT ![c] = FALSE]
  /\ acct' = [acct EXCEPT ![c] = NULL]
  /\ sess' = [sess EXCEPT ![c] = NoSid]
  /\ gateId' = [gateId EXCEPT ![c] = 0]
  /\ regionId' = [regionId EXCEPT ![c] = 0]
  /\ chan' = [chan EXCEPT ![c] = 0]
  /\ avatars' = [avatars EXCEPT ![c] = 0]

\* DeletePlayer called n times in a row on c: after the first call the context
\* is cleared, is in no index and its state is NONE, so the others only Free it.
DeletePlayer(c, n) ==
  /\ loginMap' = IF st[c] \in LoginMapStates THEN Erase(loginMap, sess[c]) ELSE loginMap
  /\ gateMap' = IF st[c] \in GateMapStates THEN Erase(gateMap, <<gateId[c], sess[c]>>) ELSE gateMap
  /\ DeleteFromRegion(IF st[c] \in RegionMapStates THEN RegionKeys({c}, regionId) ELSE {})
  /\ byName' = Erase(byName, acct[c])
  /\ bySid' = Erase(bySid, sess[c])
  /\ Clear(c)
  /\ Free(c, n)

\* The drain of _Loop: as long as the queue is not empty, DeletePlayer(back())
\* and pop().  pop() takes the front away, so back() is the same player until
\* the queue is empty.
DrainFinalizingQueue ==
  IF queue = <<>>
  THEN UNCHANGED <<st, fin, queue, regionMap, idVars, ctxVars, mapVars, poolVars>>
  ELSE /\ DeletePlayer(queue[Len(queue)], Len(queue))
       /\ queue' = <<>>

\* Variant: the test is made only by a pass that deletes a player.
NoPlayersLeftAfterDelete == queue # <<>> /\ \A s \in Sids : bySid'[s] = NULL

\* m_mPlayerContextBySessionId is empty after the drain.
NoPlayersLeft == \A s \in Sids : bySid'[s] = NULL

Loop ==
  /\ DrainFinalizingQueue
  /\ status' = IF status = "START_SHUTDOWN" /\ NoPlayersLeft
               THEN "READY_FOR_SHUTDOWN" ELSE status
  /\ overrun' = (overrun \/ Len(queue) > 1)
  /\ UNCHANGED <<peers, loginUp, gateCnt>>

-----------------------------------------------------------------------------

Init ==
  /\ st = [c \in Ctx |-> "NONE"]
  /\ fin = [c \in Ctx |-> FALSE]
  /\ acct = [c \in Ctx |-> NULL]
  /\ sess = [c \in Ctx |-> NoSid]
  /\ gateId = [c \in Ctx |-> 0]
  /\ regionId = [c \in Ctx |-> 0]
  /\ chan = [c \in Ctx |-> 0]
  /\ avatars = [c \in Ctx |-> 0]
  /\ byName = [n \in Accounts |-> NULL]
  /\ bySid = [s \in Sids |-> NULL]
  /\ loginMap = [s \in Sids |-> NULL]
  /\ gateMap = [k \in Gates \X Sids |-> NULL]
  /\ regionMap = [k \in Channels \X RegionIds \X Sids |-> NULL]
  /\ created = {}
  /\ freeCnt = [c \in Ctx |-> 0]
  /\ used = 0
  /\ queue = <<>>
  /\ status = "NOT_SHUTDOWN"
  /\ loginUp = FALSE
  /\ gateCnt = [g \in Gates |-> 0]
  /\ peers = [ owed |-> {}, loginWait |-> {}, gateOwner |-> [g \in GateSids |-> NULL],
               gateIn |-> {}, cacheOn |-> {}, regionOn |-> {}, untold |-> {} ]
  /\ overrun = FALSE

\* The answer a peer owes arrives.
PeerAnswer(a, ok) ==
  \/ a.kind = "GateAlloc" /\ \E x \in GateAnswers(a) : GateAllocAck(a, x[1], x[2], ok)
  \/ a.kind \in CacheKinds /\ CacheAck(a, ok)
  \/ a.kind = "RegionAlloc" /\ \E ret \in Returns, ok2 \in SendResults : OnRegionAllocAck(a, ret, ok, ok2)
  \/ a.kind = "RegionLeave" /\ OnRegionLeaveReq(a, ok)

Command ==
  \/ LoginReport
  \/ \E g \in Gates : \E n \in 0 .. GateMax[g] : GateReport(g, n)
  \/ \E ok \in SendResults :
       \/ \E n \in Accounts, s \in LoginSids, told \in SendResults : OnLoginReq(n, s, ok, told)
       \/ \E g \in GateSids : OnGateLoginReq(g, ok) \/ ClientPacket(g, ok)
       \/ \E s \in Sids : OnSessionDisconnect(s, ok)
       \/ \E a \in peers.owed : PeerAnswer(a, ok)
  \/ \E k \in peers.regionOn : OnRegionPlayerFailReq(k[1], k[2])
  \/ \E reached \in IF FALSE \in SendResults THEN SUBSET Ctx ELSE {Ctx} : Shutdown(reached)

Next == Command \/ Loop

Spec == Init /\ [][Next]_vars

\* The logic thread runs _Loop again and again.
FairSpec == Spec /\ WF_vars(Loop)

-----------------------------------------------------------------------------
(* Type invariant *)

Ptr == Ctx \cup {NULL}

\* The variables hold what their C++ declarations let them hold.
TypeOK ==
  /\ st \in [Ctx -> States] /\ fin \in [Ctx -> BOOLEAN]
  /\ acct \in [Ctx -> Accounts \cup {NULL}] /\ sess \in [Ctx -> Sids]
  /\ gateId \in [Ctx -> GateIds] /\ regionId \in [Ctx -> RegionIds]
  /\ chan \in [Ctx -> Channels] /\ avatars \in [Ctx -> 0 .. AVATARCOUNT_MAX]
  /\ byName \in [Accounts -> Ptr] /\ bySid \in [Sids -> Ptr] /\ loginMap \in [Sids -> Ptr]
  /\ gateMap \in [Gates \X Sids -> Ptr]
  /\ regionMap \in [Channels \X RegionIds \X Sids -> Ptr]
  /\ created \subseteq Ctx /\ freeCnt \in [Ctx -> Nat] /\ used \in Uint16
  /\ queue \in Seq(Ctx)
  /\ status \in {"NOT_SHUTDOWN", "START_SHUTDOWN", "READY_FOR_SHUTDOWN"}
  /\ loginUp \in BOOLEAN /\ gateCnt \in [Gates -> Uint16]
  /\ peers \in PeersType
  /\ overrun \in BOOLEAN

-----------------------------------------------------------------------------
(* The bookkeeping of player contexts, while every pass of _Loop met at    *)
(* most one player (overrun says when it no longer holds).                 *)

Queued(c) == \E i \in 1 .. Len(queue) : queue[i] = c

\* Every context in use is found under its account and under its session id,
\* and what the two indexes hold is in use and carries that key.
NamesAndSessions ==
  /\ \A n \in Accounts : byName[n] # NULL => Live(byName[n]) /\ acct[byName[n]] = n
  /\ \A s \in Sids : bySid[s] # NULL => Live(bySid[s]) /\ sess[bySid[s]] = s
  /\ \A c \in Ctx : Live(c) => /\ acct[c] \in Accounts /\ byName[acct[c]] = c
                              /\ bySid[sess[c]] = c

\* m_bFinalizing is set exactly for the contexts in m_PlayerFinalizingQueue,
\* each of which is in use and queued once.
QueueExact ==
  /\ \A c \in Ctx : fin[c] <=> Queued(c)
  /\ \A c \in Ctx : fin[c] => Live(c)
  /\ \A i, j \in 1 .. Len(queue) : queue[i] = queue[j] => i = j

\* No object is on the free list twice, a free object is cleared, and
\* m_iUsedSize is the number of contexts in use.
PoolSound ==
  /\ \A c \in Ctx : freeCnt[c] <= 1 /\ (freeCnt[c] = 1 => c \in created)
  /\ \A c \in Ctx : ~Live(c) => st[c] = "NONE" /\ sess[c] = NoSid /\ acct[c] = NULL
  /\ used = Cardinality({c \in Ctx : Live(c)}) /\ used <= PoolMax

\* NamesAndSessions, QueueExact and PoolSound hold until a pass of _Loop meets
\* two players at once.
Bookkeeping == ~overrun => NamesAndSessions /\ QueueExact /\ PoolSound

\* The gate and region contexts only list players in use, under the gate,
\* region, channel and session they are in: DeletePlayer's two switches and
\* LoginSession2GateSession leave no entry behind.
ServerListsExact ==
  ~overrun =>
    /\ \A k \in DOMAIN gateMap : LET c == gateMap[k] IN
         c # NULL => Live(c) /\ k = <<gateId[c], sess[c]>>
    /\ \A k \in DOMAIN regionMap : LET c == regionMap[k] IN
         c # NULL => Live(c) /\ k = <<chan[c], regionId[c], sess[c]>>

\* The login server's context lists exactly the players that still have their
\* login session: a player that is deleted is deleted from it, too.  The one
\* exception is a session whose login notification could not be sent: the
\* player is then shut down in GATEALLOCACK, for which DeletePlayer does not
\* look into this list.
LoginListExact ==
  ~overrun => \A s \in Sids : loginMap[s] # NULL =>
    \/ Live(loginMap[s]) /\ sess[loginMap[s]] = s
    \/ <<s, "LoginNtf">> \in peers.untold

-----------------------------------------------------------------------------
(* What the peers are left with *)

\* A client that waits on the login server has a player at work on its
\* request, or the refusal meant for it could not be sent: no path through
\* OnLoginReq, GateAllocAck and ShutdownPlayer forgets to answer.
LoginClientsAnswered ==
  ~overrun => \A s \in peers.loginWait :
    \/ <<s, "OnLoginFailedAck">> \in peers.untold
    \/ \E c \in Ctx : Live(c) /\ ~fin[c] /\ sess[c] = s /\ st[c] \in {"ONLOGINREQ", "GATEALLOCREQ"}

\* An answer that a peer owes to a player who is still in the game finds the
\* state machine waiting for it: the state error assertions of the ack
\* handlers do not fire, whatever became of earlier logins of the account.
AnswersExpected ==
  LET Event(a) == CASE a.kind = "GateAlloc"    -> "GATEALLOCACK"
                    [] a.kind = "AvatarList"   -> "ONAVATARLISTACK"
                    [] a.kind = "AvatarCreate" -> "ONAVATARCREATEACK"
                    [] a.kind = "AvatarSelect" -> "ONAVATARSELECTACK"
                    [] a.kind = "RegionAlloc"  -> "ONREGIONALLOCACK"
                    [] a.kind = "RegionLeave"  -> "ONREGIONLEAVEREQ"
  IN  ~overrun => \A a \in peers.owed :
        ~Gone(bySid[a.sid]) => Result(st[bySid[a.sid]], Event(a)) # INVALID

\* A player past the login phase owns the gate session it is filed under: an
\* answer to an earlier, released request is never taken for its own.
GateSessionHeld ==
  ~overrun => \A c \in Ctx :
    /\ Live(c) /\ ~fin[c] /\ sess[c] \in GateSids
    /\ st[c] \notin {"FINALIZING_REGIONLEAVEACK", "FINALIZING_ONREGIONLEAVEREQ"}
    => peers.gateOwner[sess[c]] = acct[c]

\* A player queued for deletion has been logged out of the cache and its gate
\* session ended or its request for one withdrawn, as far as the notices could
\* be sent, except one queued while it waited to leave its region.
QueuedPlayersReleased ==
  LET Told(c, m) == <<sess[c], m>> \notin peers.untold
  IN  ~overrun => \A c \in Ctx :
        fin[c] /\ st[c] \notin {"FINALIZING_REGIONLEAVEACK", "FINALIZING_ONREGIONLEAVEREQ"} =>
          /\ Told(c, "OnLogoutReq") => sess[c] \notin peers.cacheOn
          /\ Told(c, "OnLoginFailedAck") => sess[c] \notin peers.loginWait
          /\ Told(c, "GateReleaseReq") =>
               /\ Told(c, "Disconnect") /\ sess[c] \in GateSids => peers.gateOwner[sess[c]] = NULL
               /\ \A a \in peers.owed : a.kind = "GateAlloc" /\ a.sid = sess[c] => a.void

\* From ClientsTurn the client's next request leads on, from DeadEnds only its
\* disconnection; AwaitedAnswer is what the other states wait for.
ClientsTurn == {"GATEALLOCNTF", "CACHELOGINREQ", "AVATARLISTACK", "CHANNELLISTNTF", "REGIONENTERREQ"}
DeadEnds == {"ONLOGINREQ", "ONCHANNELSELECTREQ", "CHANNELSELECTACK"}
AwaitedAnswer ==
  [ GATEALLOCREQ |-> "GateAlloc", AVATARLISTREQ |-> "AvatarList", AVATARCREATEREQ |-> "AvatarCreate",
    AVATARSELECTREQ |-> "AvatarSelect", REGIONALLOCREQ |-> "RegionAlloc" ]

\* The client can still be heard of: it waits on the login server, is logged in
\* to the player's gate session, or was told to go there.
ClientThere(c) ==
  \/ sess[c] \in peers.loginWait \cup peers.gateIn
  \/ st[c] = "GATEALLOCNTF"

\* Every player that is not about to be deleted waits for an answer some peer
\* owes it, or for a client that is still there.  The only players nothing
\* moves any more are those that were asked to leave their region: the master
\* waits for an answer that the region server never sends.
NobodyWaitsInVain ==
  ~overrun => \A c \in Ctx : Live(c) /\ ~fin[c] =>
    \/ st[c] \in DOMAIN AwaitedAnswer
       /\ \E a \in peers.owed : a.sid = sess[c] /\ a.kind = AwaitedAnswer[st[c]] /\ ~a.void
    \/ st[c] \in ClientsTurn \cup DeadEnds /\ ClientThere(c)
    \/ st[c] \in {"FINALIZING_REGIONLEAVEACK", "FINALIZING_ONREGIONLEAVEREQ"}

-----------------------------------------------------------------------------
(* Liveness *)

\* A player marked as leaving does leave, if no pass of _Loop meets two.
FinalizingPlayersLeave == \A c \in Ctx : fin[c] ~> (~fin[c] \/ overrun)

\* A shutdown comes to its end, unless it met a player inside a region or a
\* pass of _Loop meets two players.
ShutdownCompletes ==
  status = "START_SHUTDOWN" ~>
    \/ status = "READY_FOR_SHUTDOWN" \/ overrun
    \/ \E c \in Ctx : ~fin[c] /\ st[c] = "FINALIZING_REGIONLEAVEACK"

-----------------------------------------------------------------------------
(* What comments and assertions of the code say, and the code does not do. *)

\* master_player_context.h: m_bFinalizing, "almost leave or not".
AlmostLeavingPlayersLeave == \A c \in Ctx : fin[c] ~> ~fin[c]
=============================================================================
