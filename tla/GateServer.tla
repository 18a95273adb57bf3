----------------------------- MODULE GateServer -----------------------------
(***************************************************************************)
(* The logic thread of a gate server: GateServerLoop and its GateSessions  *)
(* (GateServer/gate_server_loop.cpp, gate_session.cpp) on top of           *)
(* ServerBase/session.cpp and session_server_loop.inl, with the            *)
(* connections of StarNet/connection.cpp.                                  *)
(*                                                                         *)
(* A client connects and gets a temporary session.  Its login packet names *)
(* an account; if the master has had a session allocated for that account, *)
(* the connection moves over to that session and the temporary one goes.   *)
(*                                                                         *)
(* One action is one command handled to the end, one timed check of a      *)
(* session, one pass of _Loop, or the loss of a connection.  Commands of   *)
(* one connection come in the order connect, data, disconnect; all other   *)
(* orders are possible.  The master is external: asked, granted and known  *)
(* are its side of the protocol, at the time its commands are handled here.*)
(***************************************************************************)
EXTENDS Integers, Sequences, FiniteSets, GateSessionFsm

CONSTANTS
  Accounts,      \* account names
  Conns,         \* Connection objects of the acceptor
  Sessions,      \* the sessions of m_arraySession
  Checked,       \* the sessions whose index is below the gate's m_iSessionMax
  SessionMax,    \* m_iSessionMax of GateServerLoop
  TempMax,       \* m_iTempSessionMax
  SendResults,   \* can sending to the master fail? {TRUE} or {TRUE, FALSE}
  NULL           \* the null pointer, the empty name

Uint16 == { n \in Nat : n < 65536 }
Uint8 == { n \in Nat : n < 256 }

ASSUME GateAssumption ==
  /\ IsFiniteSet(Sessions)
  /\ SessionMax \in Uint16 /\ TempMax \in Uint16
  /\ Cardinality(Sessions) = SessionMax + TempMax /\ SessionMax + TempMax \in Uint16
  /\ Checked \subseteq Sessions
  /\ SendResults \subseteq BOOLEAN
  /\ NULL \notin Accounts \cup Conns \cup Sessions \cup (Sessions \X Uint8)

VARIABLES
  st, seq, conn, acct, temp, fin, bound,    \* GateSession
  byName,        \* m_mSessionMapByName
  queue,         \* m_SessionFinalizingQueue
  count,         \* m_iSessionCount
  tempCount,     \* m_iTempSessionCount
  freeCnt, used, \* m_SessionPool
  status,        \* m_iShutdownStatus
  net,           \* the state of each connection
  client,        \* client_ of each connection
  auth,          \* history: the account a connection logged in with
  asked,         \* accounts the master has a player for, waiting for or using a session
  granted,       \* the session id the master was given for an account
  known,         \* session ids announced to the master with OnGateLoginReq
  overrun,       \* history: one pass of _Loop found two or more sessions
  orphaned,      \* history: a session was cleared before its connection ended
  wild           \* history: a null m_pConnection was followed

sessVars   == <<seq, temp, bound>>
poolVars   == <<freeCnt, used>>
countVars  == <<byName, count, tempCount>>
netVars    == <<client, auth>>
masterVars == <<asked, granted, known>>
histVars   == <<overrun, orphaned, wild>>
vars == <<st, conn, acct, fin, queue, net, status, sessVars, poolVars, countVars, netVars,
          masterVars, histVars>>

\* A Connection is unused (none), connected (up), or disconnected with the
\* OnDisconnect command still to come (down).  lost: that command has been
\* handled and Connection::Close was not called.
NetStates == {"none", "up", "down", "lost"}

\* Its client may have sent data whose command is still in the list.
InUse(c) == net[c] \in {"up", "down"}

\* Connection::AsyncDisconnect, which only the first caller gets through.
AsyncDisconnect(c) == [net EXCEPT ![c] = IF @ = "up" THEN "down" ELSE @]

SessionId(s) == <<s, seq[s]>>

\* GetSession: the session an id names, unless it has been used again since.
GetSession(sid) == IF seq[sid[1]] = sid[2] THEN sid[1] ELSE NULL

Accepting == status = "NOT_SHUTDOWN"

-----------------------------------------------------------------------------
(* ObjectPool: the free list is a bag of objects; its order is immaterial. *)
(* Init allocates every session once, so the list runs empty only when     *)
(* m_iUsedSize has reached the maximum.                                    *)

Free(s, n) ==                 \* Free called n times on s
  /\ freeCnt' = [freeCnt EXCEPT ![s] = @ + n]
  /\ used' = (used - n) % 65536

PoolEmpty == Cardinality(Sessions) <= used

Allocate(s) ==
  /\ ~PoolEmpty
  /\ freeCnt[s] > 0
  /\ freeCnt' = [freeCnt EXCEPT ![s] = @ - 1]
  /\ used' = used + 1

\* In the hands of the loop.
Live(s) == freeCnt[s] = 0

-----------------------------------------------------------------------------
(* CloseSession: a session with a live connection is only disconnected,    *)
(* the others are queued.  (Its GateAllocAck for a session in              *)
(* ONGATEALLOCREQ is reached by no caller but the master.)                 *)

\* Variant: a session waiting in HOLDCONNECTION is disconnected first, too.
DisconnectHeldToo == {"ONCONNECTION", "LOGGEDIN", "GATELOGINREQ", "HOLDCONNECTION"}

DisconnectFirst == {"ONCONNECTION", "LOGGEDIN", "GATELOGINREQ"}

\* Variant: m_bFinalizing is not tested.
PushAgain(s) ==
  /\ queue' = Append(queue, s)
  /\ fin' = [fin EXCEPT ![s] = TRUE]

\* The second part of CloseSession.
Push(s) ==
  /\ queue' = IF fin[s] THEN queue ELSE Append(queue, s)
  /\ fin' = [fin EXCEPT ![s] = TRUE]

\* GateSession::Disconnect for a session that is not finalizing.
DisconnectSession(s) ==
  IF Result(st[s], "DISCONNECT") = INVALID
  THEN UNCHANGED <<st, net>>
  ELSE st' = [st EXCEPT ![s] = After(@, "DISCONNECT")] /\ net' = AsyncDisconnect(conn[s])

-----------------------------------------------------------------------------
(* Connections.  m_mSessionMap stays empty: the gate's handler of          *)
(* OnConnect, unlike the one it overrides, does not file the session.      *)

\* The connection is turned away.
NoRoom == tempCount >= TempMax \/ PoolEmpty

\* Session::OnConnection; a session of the pool is in state NONE.
OnConnection(s, c) ==
  LET fresh == Result(st[s], "ONCONNECTION") # INVALID
  IN  /\ st' = [st EXCEPT ![s] = After(@, "ONCONNECTION")]
      /\ seq' = IF fresh THEN [seq EXCEPT ![s] = (@ + 1) % 256] ELSE seq
      /\ conn' = IF fresh THEN [conn EXCEPT ![s] = c] ELSE conn
      /\ client' = [client EXCEPT ![c] = IF fresh THEN s ELSE NULL]
      /\ temp' = [temp EXCEPT ![s] = TRUE]

\* _OnCommandOnConnect
OnConnect(c) ==
  /\ net[c] = "none"
  /\ auth' = [auth EXCEPT ![c] = NULL]
  /\ \/ /\ ~Accepting                      \* the command is dropped
        /\ net' = [net EXCEPT ![c] = "up"]
        /\ client' = [client EXCEPT ![c] = NULL]
        /\ UNCHANGED <<st, seq, conn, temp, tempCount, poolVars>>
     \/ /\ Accepting /\ NoRoom
        /\ net' = [net EXCEPT ![c] = "down"]
        /\ client' = [client EXCEPT ![c] = NULL]
        /\ UNCHANGED <<st, seq, conn, temp, tempCount, poolVars>>
     \/ /\ Accepting /\ ~NoRoom
        /\ net' = [net EXCEPT ![c] = "up"]
        /\ tempCount' = tempCount + 1
        /\ \E s \in Sessions : Allocate(s) /\ OnConnection(s, c)
  /\ UNCHANGED <<acct, fin, queue, status, bound, byName, count, masterVars, histVars>>

\* The client goes away, or an operation on the socket fails.
ConnectionLost(c) ==
  /\ net[c] = "up"
  /\ net' = AsyncDisconnect(c)
  /\ UNCHANGED <<st, conn, acct, fin, queue, status, sessVars, poolVars, countVars, netVars,
                 masterVars, histVars>>

\* The master is told that a session has ended.
MasterForgets(sid) ==
  /\ asked' = { n \in asked : granted[n] # sid }
  /\ granted' = [n \in Accounts |-> IF granted[n] = sid THEN NULL ELSE granted[n]]
  /\ UNCHANGED known

\* Variant: the connection is not closed.
NotClosed(s, c) == [net EXCEPT ![c] = "lost"]

\* OnDisconnect of connection c calls Connection::Close for the connection of s.
Closed(s, c) ==
  [d \in Conns |-> IF d = conn[s] /\ net[d] = "down" THEN "none"
                   ELSE IF d = c THEN "lost" ELSE net[d]]

\* GateSession::OnDisconnect in a state with a row for the event: the
\* connection is closed, the master told, the session queued.
SessionOnDisconnect(s, c, ok) ==
  LET t     == Result(st[s], "ONDISCONNECT")
      quiet == t = "HOLDCONNECTION" /\ status = "START_SHUTDOWN"
      sent  == ~quiet /\ ok
  IN  /\ st' = [st EXCEPT ![s] = IF sent THEN After(t, "SESSIONDISCONNECTREQ") ELSE t]
      /\ net' = Closed(s, c)
      /\ conn' = [conn EXCEPT ![s] = NULL]
      /\ IF quiet \/ sent THEN Push(s) ELSE UNCHANGED <<queue, fin>>
      /\ IF sent THEN MasterForgets(SessionId(s)) ELSE UNCHANGED masterVars

\* _OnCommandOnDisconnect
OnDisconnect(c, ok) ==
  LET s == client[c]
      unexpected == IF s = NULL THEN TRUE ELSE Result(st[s], "ONDISCONNECT") = INVALID
  IN  /\ net[c] = "down"
      /\ \/ /\ unexpected
            /\ net' = [net EXCEPT ![c] = "lost"]
            /\ UNCHANGED <<st, conn, fin, queue, masterVars>>
         \/ /\ ~unexpected
            /\ SessionOnDisconnect(s, c, ok)
      /\ UNCHANGED <<acct, status, sessVars, poolVars, countVars, netVars, histVars>>

-----------------------------------------------------------------------------
(* Data from the client: a login packet, then packets for the servers.     *)

\* OnGateLoginReq reaches the master, which knows the session or ignores it.
Announced(t) == known \cup { x \in {SessionId(t)} : granted[acct[t]] = x }

\* TransferSession, Clone and OnSessionTransfered: temporary session s hands
\* its connection to session t.  A failed OnGateLoginReq leaves t in LOGGEDIN,
\* from where Disconnect has no row.
Transfer(s, t, ok) ==
  LET u == After(st[t], "TRANSFERED")
  IN  /\ st' = [st EXCEPT ![t] = IF ok THEN After(u, "GATELOGINREQ") ELSE u,
                          ![s] = After(@, "LOGGEDIN")]
      /\ conn' = [conn EXCEPT ![t] = conn[s]]
      /\ client' = [client EXCEPT ![conn[s]] = t]
      /\ known' = IF u = "LOGGEDIN" /\ ok THEN Announced(t) ELSE known
      /\ Push(s)

\* Variant: TransferSession does not check the state of the session it finds.
Anybody(t) == TRUE

\* TransferSession accepts the session filed under the account.
Transferable(t) == st[t] \in {"GATEALLOCACK", "HOLDCONNECTION"}

\* HandleLoginPacket: the token names account n, or is not valid (NULL).
LoginPacket(c, n, ok) ==
  LET s == client[c]
      t == IF n = NULL THEN NULL ELSE byName[n]
      found == IF t = NULL THEN FALSE ELSE Transferable(t)
  IN  /\ Accepting /\ InUse(c) /\ s # NULL
      /\ ~fin[s] /\ st[s] = "ONCONNECTION"
      /\ acct' = [acct EXCEPT ![s] = n]
      /\ \/ /\ ~found
            /\ DisconnectSession(s)
            /\ UNCHANGED <<conn, fin, queue, client, auth, known>>
         \/ /\ found
            /\ Transfer(s, t, ok)
            /\ auth' = [auth EXCEPT ![c] = n]
            /\ UNCHANGED net
      /\ UNCHANGED <<status, sessVars, poolVars, countVars, asked, granted, histVars>>

\* A packet of a logged-in client is forwarded; if that fails (and only then
\* does anything change) the client is disconnected.
ClientPacket(c) ==
  LET s == client[c]
  IN  /\ Accepting /\ InUse(c) /\ s # NULL /\ FALSE \in SendResults
      /\ ~fin[s] /\ st[s] = "GATELOGINREQ"
      /\ DisconnectSession(s)
      /\ UNCHANGED <<conn, acct, fin, queue, status, sessVars, poolVars, countVars, netVars,
                     masterVars, histVars>>

-----------------------------------------------------------------------------
(* Commands of the master and of the region servers. *)

\* GateSession::OnGateAllocReq
SessionOnGateAllocReq(s, n, ok) ==
  LET fresh == Result(st[s], "ONGATEALLOCREQ") # INVALID
      q == (seq[s] + 1) % 256
  IN  IF fresh
      THEN /\ st' = [st EXCEPT ![s] = IF ok THEN After("ONGATEALLOCREQ", "GATEALLOCACK")
                                            ELSE "ONGATEALLOCREQ"]
           /\ seq' = [seq EXCEPT ![s] = q]
           /\ acct' = [acct EXCEPT ![s] = n]
           /\ temp' = [temp EXCEPT ![s] = FALSE]
           /\ granted' = [granted EXCEPT ![n] = IF ok THEN <<s, q>> ELSE NULL]
      ELSE UNCHANGED <<st, seq, acct, temp, granted>>

\* _OnCommandGateAllocReq.  A request for an account that is on file, or that
\* there is no room for, gets no session.
GateAllocReq(n, ok) ==
  LET none == byName[n] # NULL \/ count >= SessionMax
  IN  /\ Accepting /\ n \notin asked
      /\ asked' = asked \cup {n}
      /\ \/ /\ none
            /\ UNCHANGED <<st, acct, seq, temp, byName, count, poolVars, granted>>
         \/ /\ ~none
            /\ \E s \in Sessions :
                 /\ Allocate(s)
                 /\ count' = count + 1
                 /\ byName' = [byName EXCEPT ![n] = s]
                 /\ SessionOnGateAllocReq(s, n, ok)
      /\ UNCHANGED <<conn, fin, queue, net, status, bound, tempCount, netVars, known, histVars>>

\* The master gives up the player of account n.
MasterDrops(n) ==
  /\ asked' = asked \ {n}
  /\ granted' = [granted EXCEPT ![n] = NULL]
  /\ UNCHANGED known

\* Variant: OnGateReleaseReq returns when GATERELEASEREQ is refused.
ReleaseRefused(s) == UNCHANGED <<queue, fin, net>>

\* OnGateReleaseReq: GATERELEASEREQ has no row in any state, which ends in
\* CloseSession all the same.
Release(s) ==
  IF st[s] \in DisconnectFirst /\ ~fin[s]
  THEN net' = AsyncDisconnect(conn[s]) /\ UNCHANGED <<queue, fin>>
  ELSE Push(s) /\ UNCHANGED net

\* _OnCommandGateReleaseReq
GateReleaseReq(n) ==
  LET s == byName[n]
  IN  /\ Accepting /\ n \in asked
      /\ MasterDrops(n)
      /\ IF s = NULL THEN UNCHANGED <<queue, fin, net>> ELSE Release(s)
      /\ UNCHANGED <<st, conn, acct, status, sessVars, poolVars, countVars, netVars, histVars>>

\* _OnCommandDisconnect and OnMasterDisconnect.  The master sends it for every
\* player past OnGateLoginReq that it shuts down, also for one whose
\* disconnection it has just been told of.
Disconnect(sid) ==
  LET s == GetSession(sid)
      valid == IF s = NULL THEN FALSE
               ELSE ~fin[s] /\ Result(st[s], "ONMASTERDISCONNECT") # INVALID
  IN  /\ sid \in known
      /\ asked' = { n \in asked : granted[n] # sid }
      /\ granted' = [n \in Accounts |-> IF granted[n] = sid THEN NULL ELSE granted[n]]
      /\ UNCHANGED known
      /\ st' = IF valid THEN [st EXCEPT ![s] = After(@, "ONMASTERDISCONNECT")] ELSE st
      /\ net' = IF valid THEN AsyncDisconnect(conn[s]) ELSE net
      /\ UNCHANGED <<conn, acct, fin, queue, status, sessVars, poolVars, countVars, netVars, histVars>>

\* RegionBindReq of a region server that a known session was sent to.
RegionBindReq(sid) ==
  LET s == GetSession(sid)
  IN  /\ Accepting /\ sid \in known
      /\ s # NULL
      /\ ~fin[s]
      /\ bound' = [bound EXCEPT ![s] = TRUE]
      /\ UNCHANGED <<st, conn, acct, fin, queue, net, status, seq, temp, poolVars, countVars,
                     netVars, masterVars, histVars>>

\* SendData and BroadcastData for a known session; only a send that fails
\* changes anything: AsyncSend disconnects.
SendData(sid) ==
  LET s == GetSession(sid)
  IN  /\ Accepting /\ sid \in known
      /\ s # NULL
      /\ ~fin[s] /\ Result(st[s], "SEND") # INVALID
      /\ net[conn[s]] = "up"
      /\ net' = AsyncDisconnect(conn[s])
      /\ UNCHANGED <<st, conn, acct, fin, queue, status, sessVars, poolVars, countVars, netVars,
                     masterVars, histVars>>

\* SessionServerLoop::_OnCommandPacketForward, for a session known to the peers:
\* unlike GateSession's own senders it tests no state, no m_bFinalizing and no
\* m_pConnection before Session::SendData follows the pointer.
PacketForward(sid) ==
  LET s == GetSession(sid)
  IN  /\ Accepting /\ sid \in known
      /\ s # NULL
      /\ IF conn[s] = NULL THEN wild' = TRUE /\ UNCHANGED net
                           ELSE net' = AsyncDisconnect(conn[s]) /\ UNCHANGED wild
      /\ UNCHANGED <<st, conn, acct, fin, queue, status, sessVars, poolVars, countVars, netVars,
                     masterVars, overrun, orphaned>>

-----------------------------------------------------------------------------
(* The timed check, shutdown, and the periodic pass. *)

\* _CheckSessionState finds that session s has not logged in for too long.
ConnectionTimeout(s) ==
  /\ Accepting
  /\ s \in Checked /\ st[s] = "ONCONNECTION" /\ ~fin[s]
  /\ DisconnectSession(s)
  /\ UNCHANGED <<conn, acct, fin, queue, status, sessVars, poolVars, countVars, netVars,
                 masterVars, histVars>>

\* _OnCommandShutdown, with its loop over the empty m_mSessionMap.
Shutdown ==
  /\ Accepting
  /\ status' = "START_SHUTDOWN"
  /\ UNCHANGED <<st, conn, acct, fin, queue, net, sessVars, poolVars, countVars, netVars,
                 masterVars, histVars>>

\* GateSession::Clear; the session keeps its id.
Clear(s) ==
  /\ st' = [st EXCEPT ![s] = "NONE"]
  /\ conn' = [conn EXCEPT ![s] = NULL]
  /\ acct' = [acct EXCEPT ![s] = NULL]
  /\ temp' = [temp EXCEPT ![s] = TRUE]
  /\ fin' = [fin EXCEPT ![s] = FALSE]
  /\ bound' = [bound EXCEPT ![s] = FALSE]
  /\ UNCHANGED seq

\* Variant: the entry of m_mSessionMapByName goes with temporary sessions, too.
ClearAnyName(s, n) ==
  /\ tempCount' = (tempCount - (IF temp[s] THEN n ELSE n - 1)) % 65536
  /\ count' = (count - (IF temp[s] THEN 0 ELSE 1)) % 65536
  /\ byName' = [x \in Accounts |-> IF x = acct[s] THEN NULL ELSE byName[x]]
  /\ Clear(s)
  /\ Free(s, n)

\* ClearSession called n times in a row on s: the first call clears it, the
\* others find a temporary session.
ClearSession(s, n) ==
  /\ IF temp[s]
     THEN tempCount' = (tempCount - n) % 65536 /\ UNCHANGED <<count, byName>>
     ELSE /\ tempCount' = (tempCount - (n - 1)) % 65536
          /\ count' = (count - 1) % 65536
          /\ byName' = [byName EXCEPT ![acct[s]] = NULL]
  /\ Clear(s)
  /\ Free(s, n)

\* The drain of _Loop clears the back of the queue and pops the front.
Drain ==
  LET n == Len(queue)
  IN  IF n = 0
      THEN UNCHANGED <<st, conn, acct, fin, queue, sessVars, poolVars, countVars, orphaned>>
      ELSE /\ ClearSession(queue[n], n)
           /\ queue' = <<>>
           /\ orphaned' = (orphaned \/ \E c \in Conns : InUse(c) /\ client[c] = queue[n])

\* _Loop and _ReadyForShutdown
Loop ==
  /\ Drain
  /\ overrun' = (overrun \/ Len(queue) > 1)
  /\ status' = IF status = "START_SHUTDOWN" THEN "READY_FOR_SHUTDOWN" ELSE status
  /\ UNCHANGED <<net, netVars, masterVars, wild>>

-----------------------------------------------------------------------------

Init ==
  /\ st = [s \in Sessions |-> "NONE"]
  /\ seq = [s \in Sessions |-> 0]
  /\ conn = [s \in Sessions |-> NULL]
  /\ acct = [s \in Sessions |-> NULL]
  /\ temp = [s \in Sessions |-> TRUE]
  /\ fin = [s \in Sessions |-> FALSE]
  /\ bound = [s \in Sessions |-> FALSE]
  /\ byName = [n \in Accounts |-> NULL]
  /\ queue = <<>>
  /\ count = 0 /\ tempCount = 0
  /\ freeCnt = [s \in Sessions |-> 1]
  /\ used = 0
  /\ status = "NOT_SHUTDOWN"
  /\ net = [c \in Conns |-> "none"]
  /\ client = [c \in Conns |-> NULL]
  /\ auth = [c \in Conns |-> NULL]
  /\ asked = {}
  /\ granted = [n \in Accounts |-> NULL]
  /\ known = {}
  /\ overrun = FALSE /\ orphaned = FALSE /\ wild = FALSE

Next ==
  \/ \E c \in Conns :
       \/ OnConnect(c) \/ ConnectionLost(c) \/ ClientPacket(c)
       \/ \E ok \in SendResults : OnDisconnect(c, ok)
       \/ \E n \in Accounts \cup {NULL}, ok \in SendResults : LoginPacket(c, n, ok)
  \/ \E n \in Accounts :
       \/ \E ok \in SendResults : GateAllocReq(n, ok)
       \/ GateReleaseReq(n)
  \/ \E sid \in known :
       Disconnect(sid) \/ RegionBindReq(sid) \/ SendData(sid) \/ PacketForward(sid)
  \/ \E s \in Sessions : ConnectionTimeout(s)
  \/ Shutdown
  \/ Loop

Spec == Init /\ [][Next]_vars

\* The logic thread runs _Loop again and again, and the network reports the
\* end of every connection.
FairSpec ==
  /\ Spec
  /\ WF_vars(Loop)
  /\ \A c \in Conns : WF_vars(\E ok \in SendResults : OnDisconnect(c, ok))

-----------------------------------------------------------------------------
(* Type invariant *)

SessionIds == Sessions \X Uint8

\* The variables hold what their C++ declarations let them hold.
TypeOK ==
  /\ st \in [Sessions -> States]
  /\ seq \in [Sessions -> Uint8]
  /\ conn \in [Sessions -> Conns \cup {NULL}]
  /\ acct \in [Sessions -> Accounts \cup {NULL}]
  /\ temp \in [Sessions -> BOOLEAN]
  /\ fin \in [Sessions -> BOOLEAN]
  /\ bound \in [Sessions -> BOOLEAN]
  /\ byName \in [Accounts -> Sessions \cup {NULL}]
  /\ queue \in Seq(Sessions)
  /\ count \in Uint16 /\ tempCount \in Uint16
  /\ freeCnt \in [Sessions -> Nat] /\ used \in Uint16
  /\ status \in {"NOT_SHUTDOWN", "START_SHUTDOWN", "READY_FOR_SHUTDOWN"}
  /\ net \in [Conns -> NetStates]
  /\ client \in [Conns -> Sessions \cup {NULL}]
  /\ auth \in [Conns -> Accounts \cup {NULL}]
  /\ asked \subseteq Accounts
  /\ granted \in [Accounts -> SessionIds \cup {NULL}]
  /\ known \subseteq SessionIds
  /\ overrun \in BOOLEAN
  /\ orphaned \in BOOLEAN
  /\ wild \in BOOLEAN

-----------------------------------------------------------------------------
(* The bookkeeping of sessions, while every pass of _Loop met at most one. *)

Queued(s) == \E i \in 1 .. Len(queue) : queue[i] = s
Temps == { s \in Sessions : Live(s) /\ temp[s] }
Filed == { s \in Sessions : Live(s) /\ ~temp[s] }

\* m_mSessionMapByName holds exactly the sessions allocated for an account.
NamesExact ==
  /\ \A n \in Accounts : byName[n] # NULL => byName[n] \in Filed /\ acct[byName[n]] = n
  /\ \A s \in Filed : acct[s] \in Accounts /\ byName[acct[s]] = s

\* m_bFinalizing is set exactly for the sessions in the finalizing queue, each
\* of which is in use and queued once.
QueueExact ==
  /\ \A s \in Sessions : fin[s] <=> Queued(s)
  /\ \A s \in Sessions : fin[s] => Live(s)
  /\ \A i, j \in 1 .. Len(queue) : queue[i] = queue[j] => i = j

\* Free sessions are cleared and free once; the three counters agree with what
\* is in use and keep their limits.  Hence _OnCommandGateAllocReq, which does not
\* test it, never gets NULL from Allocate: the temporary sessions do not take the
\* room of the others.
PoolSound ==
  /\ \A s \in Sessions : freeCnt[s] <= 1
  /\ \A s \in Sessions : ~Live(s) => st[s] = "NONE"
  /\ count = Cardinality(Filed) /\ count <= SessionMax
  /\ tempCount = Cardinality(Temps) /\ tempCount <= TempMax
  /\ used = count + tempCount

\* Names, queue, pool and counters describe the same set of sessions until a
\* pass of _Loop meets two at once.
SessionBookkeeping == ~overrun => NamesExact /\ QueueExact /\ PoolSound

-----------------------------------------------------------------------------
(* Sessions and connections *)

\* Where a handler of the gate uses m_pConnection after testing only the state,
\* there is one: CloseSession, OnMasterDisconnect, SendData, the answer to a bad
\* login and the login timeout.  _OnCommandPacketForward, which does not even test
\* the state, may find none (wild); no server in the repository sends the gate
\* that command.
ConnectionThere ==
  ~overrun => \A s \in Sessions :
    st[s] \in DisconnectFirst \cup {"DISCONNECT"} => conn[s] # NULL

\* A session at work on a connection is the one the connection's commands are
\* for, no second connection leads to it, and a session that is past the login
\* only ever talks to a client that logged in with its account: until a session
\* is cleared under its connection.  A session left in HOLDCONNECTION after a
\* failed send may be given a second connection while it still has one.
OwnClient ==
  ~overrun /\ ~orphaned =>
    /\ \A s \in Sessions :
         /\ conn[s] # NULL /\ st[s] # "TRANSFERED" => net[conn[s]] # "none" /\ client[conn[s]] = s
         /\ conn[s] # NULL /\ ~temp[s] => auth[conn[s]] = acct[s]
    /\ \A c \in Conns : InUse(c) /\ client[c] # NULL =>
         conn[client[c]] = c \/ st[client[c]] = "HOLDCONNECTION"

-----------------------------------------------------------------------------
(* Sessions and the master *)

\* What the master was granted it can use, until it gives it up or is told of
\* the disconnection: the account's session is there under the id it has.
GrantedSessionsExist ==
  ~overrun /\ Accepting => \A n \in Accounts :
    granted[n] # NULL => byName[n] = granted[n][1] /\ GetSession(granted[n]) = byName[n]

\* A failed OnGateLoginReq, or OnSessionDisconnect, leaves the session here.
StuckStates == {"LOGGEDIN", "HOLDCONNECTION", "ONDISCONNECT"}

\* A session the master no longer has is on its way out: queued, or its
\* connection is about to report its end.  It stays only where the code is
\* stuck after a failed send.
AbandonedSessionsEnd ==
  ~overrun => \A s \in Filed :
    \/ granted[acct[s]] = SessionId(s) \/ fin[s]
    \/ st[s] = "ONGATEALLOCREQ" /\ acct[s] \in asked
    \/ FALSE \in SendResults /\ st[s] \in StuckStates
    \/ IF conn[s] = NULL THEN FALSE ELSE net[conn[s]] = "down"

-----------------------------------------------------------------------------
(* Liveness *)

\* An account that the master has given up can log in again: the gate does not
\* keep its session for ever.
AccountsFreed ==
  \A n \in Accounts :
    n \notin asked ~> (n \in asked \/ byName[n] = NULL \/ overrun \/ orphaned \/ ~Accepting)

\* A connection that has ended goes back to the acceptor, and the session that
\* used it to the pool.
EndedConnectionsReturn ==
  \A c \in Conns :
    net[c] = "down" /\ client[c] # NULL ~> (net[c] = "none" \/ overrun \/ orphaned \/ ~Accepting)
=============================================================================
