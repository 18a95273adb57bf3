-------------------------- MODULE GateServerProofs --------------------------
(***************************************************************************)
(* Proofs about GateServer, for any number of accounts, connections and    *)
(* sessions, with sends that may fail.                                     *)
(***************************************************************************)
EXTENDS GateServer, TLAPS, FiniteSetTheorems, SequenceTheorems

-----------------------------------------------------------------------------
(* The state machine *)

\* No two rows of the table disagree.
LEMMA Deterministic ==
  \A t, u \in Transitions : t[1] = u[1] /\ t[2] = u[2] => t[3] = u[3]
  BY DEF Transitions, SessionTransitions, GateTransitions

\* Result reads a row of the table.
LEMMA ResultIsRow ==
  ASSUME NEW s, NEW e, Result(s, e) # INVALID
  PROVE  \E t \in Transitions : t[1] = s /\ t[2] = e /\ t[3] = Result(s, e)
<1>1. <<s, e>> \in DOMAIN Table /\ Result(s, e) = Table[<<s, e>>]
  BY DEF Result
<1>2. PICK t \in Transitions : <<t[1], t[2]>> = <<s, e>>
  BY <1>1 DEF Table
<1> DEFINE u == CHOOSE u \in Transitions : <<u[1], u[2]>> = <<s, e>>
<1>3. Table[<<s, e>>] = u[3]
  BY <1>1 DEF Table
<1>4. u \in Transitions /\ <<u[1], u[2]>> = <<s, e>>
  BY <1>2
<1> QED
  BY <1>1, <1>3, <1>4

\* Every row is read.
LEMMA RowIsResult ==
  ASSUME NEW t \in Transitions PROVE Result(t[1], t[2]) = t[3]
<1> DEFINE k == <<t[1], t[2]>>
           u == CHOOSE u \in Transitions : <<u[1], u[2]>> = k
<1>1. k \in DOMAIN Table
  BY DEF Table
<1>2. Table[k] = u[3]
  BY <1>1 DEF Table
<1>3. u \in Transitions /\ <<u[1], u[2]>> = k
  OBVIOUS
<1>4. u[3] = t[3]
  BY <1>3, Deterministic
<1> QED
  BY <1>1, <1>2, <1>4 DEF Result

\* StateTransition returns a state of the machine or INVALID.
LEMMA AfterType == ASSUME NEW s \in States, NEW e PROVE After(s, e) \in States
  BY ResultIsRow DEF After, States

\* The rows for the events that end a connection.
LEMMA EndRows ==
  ASSUME NEW x
  PROVE  /\ Result(x, "DISCONNECT") # INVALID =>
              x \in {"ONCONNECTION", "GATELOGINREQ"} /\ After(x, "DISCONNECT") = "DISCONNECT"
         /\ Result(x, "ONDISCONNECT") # INVALID =>
              \/ x = "GATELOGINREQ" /\ Result(x, "ONDISCONNECT") = "HOLDCONNECTION"
              \/ /\ x \in {"ONCONNECTION", "DISCONNECT", "ONMASTERDISCONNECT"}
                 /\ Result(x, "ONDISCONNECT") = "ONDISCONNECT"
         /\ Result(x, "ONMASTERDISCONNECT") # INVALID =>
              x = "GATELOGINREQ" /\ After(x, "ONMASTERDISCONNECT") = "ONMASTERDISCONNECT"
         /\ Result(x, "SEND") # INVALID => x = "GATELOGINREQ"
<1> DEFINE Row(e) == \E t \in Transitions : t[1] = x /\ t[2] = e /\ t[3] = Result(x, e)
<1>1. \A e : Result(x, e) # INVALID => Row(e)
  BY ResultIsRow
<1>2. \A t \in Transitions :
        /\ t[2] = "DISCONNECT" => t[1] \in {"ONCONNECTION", "GATELOGINREQ"} /\ t[3] = "DISCONNECT"
        /\ t[2] = "ONDISCONNECT" =>
             \/ t[1] = "GATELOGINREQ" /\ t[3] = "HOLDCONNECTION"
             \/ /\ t[1] \in {"ONCONNECTION", "DISCONNECT", "ONMASTERDISCONNECT"}
                /\ t[3] = "ONDISCONNECT"
        /\ t[2] = "ONMASTERDISCONNECT" => t[1] = "GATELOGINREQ" /\ t[3] = "ONMASTERDISCONNECT"
        /\ t[2] = "SEND" => t[1] = "GATELOGINREQ"
  BY DEF Transitions, SessionTransitions, GateTransitions
<1> QED
  BY <1>1, <1>2 DEF After

\* A connection that ends is reported in these states.
LEMMA EndExpected ==
  ASSUME NEW x \in {"ONCONNECTION", "GATELOGINREQ", "DISCONNECT", "ONMASTERDISCONNECT"}
  PROVE  Result(x, "ONDISCONNECT") # INVALID
<1>1. PICK t \in Transitions : t[1] = x /\ t[2] = "ONDISCONNECT" /\ t[3] # INVALID
  BY DEF Transitions, SessionTransitions, GateTransitions, INVALID
<1> QED
  BY <1>1, RowIsResult

\* The master's disconnection is taken while the client is logged in.
LEMMA MasterEndExpected == Result("GATELOGINREQ", "ONMASTERDISCONNECT") # INVALID
<1>1. PICK t \in Transitions : t[1] = "GATELOGINREQ" /\ t[2] = "ONMASTERDISCONNECT" /\ t[3] # INVALID
  BY DEF Transitions, SessionTransitions, GateTransitions, INVALID
<1> QED
  BY <1>1, RowIsResult

\* The rows on the way into the game.
LEMMA WayIn ==
  /\ Result("NONE", "ONCONNECTION") # INVALID /\ After("NONE", "ONCONNECTION") = "ONCONNECTION"
  /\ Result("NONE", "ONGATEALLOCREQ") # INVALID
  /\ After("ONGATEALLOCREQ", "GATEALLOCACK") = "GATEALLOCACK"
  /\ After("ONCONNECTION", "LOGGEDIN") = "TRANSFERED"
  /\ After("GATEALLOCACK", "TRANSFERED") = "LOGGEDIN"
  /\ After("LOGGEDIN", "GATELOGINREQ") = "GATELOGINREQ"
  /\ After("HOLDCONNECTION", "SESSIONDISCONNECTREQ") = "ONDISCONNECT"
<1>1. /\ <<"NONE", "ONCONNECTION", "ONCONNECTION">> \in Transitions
      /\ <<"NONE", "ONGATEALLOCREQ", "ONGATEALLOCREQ">> \in Transitions
      /\ <<"ONGATEALLOCREQ", "GATEALLOCACK", "GATEALLOCACK">> \in Transitions
      /\ <<"ONCONNECTION", "LOGGEDIN", "TRANSFERED">> \in Transitions
      /\ <<"GATEALLOCACK", "TRANSFERED", "LOGGEDIN">> \in Transitions
      /\ <<"LOGGEDIN", "GATELOGINREQ", "GATELOGINREQ">> \in Transitions
      /\ <<"HOLDCONNECTION", "SESSIONDISCONNECTREQ", "ONDISCONNECT">> \in Transitions
  BY DEF Transitions, SessionTransitions, GateTransitions
<1>2. \A a, b, c : <<a, b, c>> \in Transitions => Result(a, b) = c
  BY RowIsResult
<1> QED
  BY <1>1, <1>2 DEF After, INVALID

\* These events have no row where the code raises them all the same.
LEMMA NoRow ==
  /\ After("HOLDCONNECTION", "TRANSFERED") = "HOLDCONNECTION"
  /\ After("HOLDCONNECTION", "GATELOGINREQ") = "HOLDCONNECTION"
  /\ After("ONDISCONNECT", "SESSIONDISCONNECTREQ") = "ONDISCONNECT"
<1>1. \A t \in Transitions :
        /\ t[1] = "HOLDCONNECTION" => t[2] = "SESSIONDISCONNECTREQ"
        /\ t[1] # "ONDISCONNECT"
  BY DEF Transitions, SessionTransitions, GateTransitions
<1> QED
  BY <1>1, ResultIsRow DEF After

\* The states the handlers name are states of the machine.
LEMMA NamedStates ==
  {"NONE", "ONCONNECTION", "DISCONNECT", "ONDISCONNECT", "ONGATEALLOCREQ", "GATEALLOCACK",
   "TRANSFERED", "LOGGEDIN", "GATELOGINREQ", "HOLDCONNECTION", "ONMASTERDISCONNECT"} \subseteq States
<1>1. /\ <<"NONE", "ONCONNECTION", "ONCONNECTION">> \in Transitions
      /\ <<"DISCONNECT", "ONDISCONNECT", "ONDISCONNECT">> \in Transitions
      /\ <<"ONGATEALLOCREQ", "GATEALLOCACK", "GATEALLOCACK">> \in Transitions
      /\ <<"ONCONNECTION", "LOGGEDIN", "TRANSFERED">> \in Transitions
      /\ <<"LOGGEDIN", "GATELOGINREQ", "GATELOGINREQ">> \in Transitions
      /\ <<"GATELOGINREQ", "ONDISCONNECT", "HOLDCONNECTION">> \in Transitions
      /\ <<"GATELOGINREQ", "ONMASTERDISCONNECT", "ONMASTERDISCONNECT">> \in Transitions
  BY DEF Transitions, SessionTransitions, GateTransitions
<1>2. \A a, b, c : <<a, b, c>> \in Transitions => a \in States /\ c \in States
  BY DEF States
<1> QED
  BY <1>1, <1>2

-----------------------------------------------------------------------------
(* Types *)

LEMMA SeqNoType == \A q \in Uint8 : (q + 1) % 256 \in Uint8
  BY DEF Uint8

LEMMA Uint16Type == \A m \in Uint16, n \in Nat : (m - n) % 65536 \in Uint16
  BY DEF Uint16

LEMMA DisconnectSessionType ==
  ASSUME TypeOK, NEW s \in Sessions, DisconnectSession(s)
  PROVE  st' \in [Sessions -> States] /\ net' \in [Conns -> NetStates]
<1>1. After(st[s], "DISCONNECT") \in States
  BY AfterType DEF TypeOK
<1>2. \A x : AsyncDisconnect(x) \in [Conns -> NetStates]
  BY DEF TypeOK, AsyncDisconnect, NetStates
<1>3. CASE UNCHANGED <<st, net>>
  BY <1>3 DEF TypeOK
<1>4. CASE st' = [st EXCEPT ![s] = After(@, "DISCONNECT")] /\ net' = AsyncDisconnect(conn[s])
  BY <1>1, <1>2, <1>4 DEF TypeOK
<1> QED
  BY <1>3, <1>4 DEF DisconnectSession

LEMMA PushType ==
  ASSUME TypeOK, NEW s \in Sessions, Push(s)
  PROVE  queue' \in Seq(Sessions) /\ fin' \in [Sessions -> BOOLEAN]
  BY DEF TypeOK, Push

LEMMA MasterForgetsType ==
  ASSUME TypeOK, NEW sid, MasterForgets(sid)
  PROVE  asked' \subseteq Accounts /\ granted' \in [Accounts -> SessionIds \cup {NULL}] /\ known' = known
  BY DEF TypeOK, MasterForgets

LEMMA OnConnectType == ASSUME TypeOK, NEW c \in Conns, OnConnect(c) PROVE TypeOK'
<1>1. /\ auth' \in [Conns -> Accounts \cup {NULL}] /\ net' \in [Conns -> NetStates]
      /\ UNCHANGED <<acct, fin, queue, status, bound, byName, count, masterVars, histVars>>
  BY DEF OnConnect, TypeOK, NetStates
<1>2. CASE ~Accepting \/ NoRoom
  <2>1. client' \in [Conns -> Sessions \cup {NULL}]
        /\ UNCHANGED <<st, seq, conn, temp, tempCount, poolVars>>
    BY <1>2 DEF OnConnect, TypeOK
  <2> QED
    BY <1>1, <2>1 DEF TypeOK, poolVars, masterVars, histVars
<1>3. CASE Accepting /\ ~NoRoom
  <2>1. PICK s \in Sessions : Allocate(s) /\ OnConnection(s, c)
    BY <1>3 DEF OnConnect
  <2>2. tempCount' \in Uint16
    BY <1>3, GateAssumption DEF OnConnect, NoRoom, Uint16, TypeOK
  <2>3. freeCnt' \in [Sessions -> Nat] /\ used' \in Uint16
    BY <2>1, GateAssumption DEF Allocate, PoolEmpty, Uint16, TypeOK
  <2>4. /\ st' \in [Sessions -> States] /\ conn' \in [Sessions -> Conns \cup {NULL}]
        /\ client' \in [Conns -> Sessions \cup {NULL}] /\ temp' \in [Sessions -> BOOLEAN]
    BY <2>1, AfterType DEF OnConnection, TypeOK
  <2>5. seq' \in [Sessions -> Uint8]
    BY <2>1, SeqNoType DEF OnConnection, TypeOK
  <2> QED
    BY <1>1, <2>2, <2>3, <2>4, <2>5 DEF TypeOK, masterVars, histVars
<1> QED
  BY <1>2, <1>3

LEMMA OnDisconnectType ==
  ASSUME TypeOK, NEW c \in Conns, NEW ok \in SendResults, OnDisconnect(c, ok)
  PROVE  TypeOK'
<1> DEFINE s == client[c]
<1>1. UNCHANGED <<acct, status, sessVars, poolVars, countVars, netVars, histVars>>
  BY DEF OnDisconnect
<1>2. CASE net' = [net EXCEPT ![c] = "lost"] /\ UNCHANGED <<st, conn, fin, queue, masterVars>>
  BY <1>1, <1>2 DEF TypeOK, NetStates, sessVars, poolVars, countVars, netVars, masterVars, histVars
<1>3. CASE s # NULL /\ Result(st[s], "ONDISCONNECT") # INVALID /\ SessionOnDisconnect(s, c, ok)
  <2>1. s \in Sessions
    BY <1>3 DEF TypeOK
  <2>2. /\ net' \in [Conns -> NetStates] /\ conn' \in [Sessions -> Conns \cup {NULL}]
    BY <1>3 DEF SessionOnDisconnect, Closed, TypeOK, NetStates
  <2>3. queue' \in Seq(Sessions) /\ fin' \in [Sessions -> BOOLEAN]
    BY <1>3, <2>1, PushType DEF SessionOnDisconnect, TypeOK
  <2>4. asked' \subseteq Accounts /\ granted' \in [Accounts -> SessionIds \cup {NULL}] /\ known' = known
    BY <1>3, MasterForgetsType DEF SessionOnDisconnect, TypeOK, masterVars
  <2>5. st' \in [Sessions -> States]
    <3>1. Result(st[s], "ONDISCONNECT") \in States
      BY <1>3, EndRows, NamedStates
    <3>2. After(Result(st[s], "ONDISCONNECT"), "SESSIONDISCONNECTREQ") \in States
      BY <3>1, AfterType
    <3> QED
      BY <1>3, <2>1, <3>1, <3>2 DEF SessionOnDisconnect, TypeOK
  <2> HIDE DEF s
  <2> QED
    BY <1>1, <2>2, <2>3, <2>4, <2>5
      DEF TypeOK, sessVars, poolVars, countVars, netVars, histVars
<1> QED
  BY <1>2, <1>3 DEF OnDisconnect

LEMMA LoginPacketType ==
  ASSUME TypeOK, NEW c \in Conns, NEW n \in Accounts \cup {NULL}, NEW ok \in SendResults,
         LoginPacket(c, n, ok)
  PROVE  TypeOK'
<1> DEFINE s == client[c]
           t == IF n = NULL THEN NULL ELSE byName[n]
           found == IF t = NULL THEN FALSE ELSE Transferable(t)
<1>1. /\ s \in Sessions
      /\ UNCHANGED <<status, sessVars, poolVars, countVars, asked, granted, histVars>>
      /\ acct' \in [Sessions -> Accounts \cup {NULL}]
  BY DEF LoginPacket, TypeOK
<1>2. CASE ~found
  <2>1. /\ UNCHANGED <<conn, fin, queue, client, auth, known>> /\ DisconnectSession(s)
    BY <1>2 DEF LoginPacket
  <2> QED
    BY <1>1, <2>1, DisconnectSessionType
      DEF TypeOK, sessVars, poolVars, countVars, histVars
<1>3. CASE found
  <2>1. Transfer(s, t, ok) /\ t \in Sessions /\ UNCHANGED net
        /\ auth' \in [Conns -> Accounts \cup {NULL}]
    BY <1>3 DEF LoginPacket, TypeOK
  <2>2. queue' \in Seq(Sessions) /\ fin' \in [Sessions -> BOOLEAN]
    BY <1>1, <2>1, PushType DEF Transfer
  <2>3. conn' \in [Sessions -> Conns \cup {NULL}] /\ client' \in [Conns -> Sessions \cup {NULL}]
    BY <1>1, <2>1 DEF Transfer, TypeOK
  <2>4. known' \subseteq SessionIds
    BY <1>1, <2>1 DEF Transfer, TypeOK, Announced, SessionId, SessionIds
  <2>5. st' \in [Sessions -> States]
    <3>1. \A x \in Sessions : \A e : After(st[x], e) \in States
      BY AfterType DEF TypeOK
    <3>2. \A e, f : After(After(st[t], e), f) \in States
      BY <2>1, <3>1, AfterType
    <3> DEFINE x == IF ok THEN After(After(st[t], "TRANSFERED"), "GATELOGINREQ")
                    ELSE After(st[t], "TRANSFERED")
               y == After(st[s], "LOGGEDIN")
    <3>3. st' = [st EXCEPT ![t] = x, ![s] = After(@, "LOGGEDIN")] /\ s # t
      BY <1>3, <2>1 DEF Transfer, LoginPacket, Transferable
    <3>4. x \in States /\ y \in States
      BY <1>1, <2>1, <3>1, <3>2
    <3>5. st' = [st EXCEPT ![t] = x, ![s] = y]
      BY <3>3
    <3> HIDE DEF s, t, x, y
    <3> QED
      BY <3>4, <3>5 DEF TypeOK
  <2> QED
    BY <1>1, <2>1, <2>2, <2>3, <2>4, <2>5 DEF TypeOK, sessVars, poolVars, countVars, histVars
<1> QED
  BY <1>2, <1>3

LEMMA GateAllocReqType ==
  ASSUME TypeOK, NEW n \in Accounts, NEW ok \in SendResults, GateAllocReq(n, ok)
  PROVE  TypeOK'
<1>1. /\ UNCHANGED <<conn, fin, queue, net, status, bound, tempCount, netVars, known, histVars>>
      /\ asked' \subseteq Accounts
  BY DEF GateAllocReq, TypeOK
<1>2. CASE UNCHANGED <<st, acct, seq, temp, byName, count, poolVars, granted>>
  BY <1>1, <1>2 DEF TypeOK, poolVars, netVars, histVars
<1>3. ASSUME NEW s \in Sessions, Allocate(s), ~(count >= SessionMax), count' = count + 1,
             byName' = [byName EXCEPT ![n] = s], SessionOnGateAllocReq(s, n, ok)
      PROVE  TypeOK'
  <2>1. count' \in Uint16 /\ byName' \in [Accounts -> Sessions \cup {NULL}]
    BY <1>3, GateAssumption DEF Uint16, TypeOK
  <2>2. freeCnt' \in [Sessions -> Nat] /\ used' \in Uint16
    BY <1>3, GateAssumption DEF Allocate, PoolEmpty, Uint16, TypeOK
  <2>3. After("ONGATEALLOCREQ", "GATEALLOCACK") \in States /\ "ONGATEALLOCREQ" \in States
    BY WayIn, NamedStates
  <2>4. (seq[s] + 1) % 256 \in Uint8
    BY SeqNoType DEF TypeOK
  <2>5. /\ st' \in [Sessions -> States] /\ acct' \in [Sessions -> Accounts \cup {NULL}]
        /\ temp' \in [Sessions -> BOOLEAN] /\ seq' \in [Sessions -> Uint8]
        /\ granted' \in [Accounts -> SessionIds \cup {NULL}]
    <3>1. CASE UNCHANGED <<st, seq, acct, temp, granted>>
      BY <3>1 DEF TypeOK
    <3>2. CASE ~UNCHANGED <<st, seq, acct, temp, granted>>
      <4> DEFINE q == (seq[s] + 1) % 256
      <4>1. /\ st' = [st EXCEPT ![s] = IF ok THEN After("ONGATEALLOCREQ", "GATEALLOCACK")
                                             ELSE "ONGATEALLOCREQ"]
            /\ seq' = [seq EXCEPT ![s] = q]
            /\ acct' = [acct EXCEPT ![s] = n]
            /\ temp' = [temp EXCEPT ![s] = FALSE]
            /\ granted' = [granted EXCEPT ![n] = IF ok THEN <<s, q>> ELSE NULL]
        BY <1>3, <3>2 DEF SessionOnGateAllocReq
      <4>2. q \in Uint8 /\ <<s, q>> \in SessionIds
        BY <2>4 DEF SessionIds
      <4> HIDE DEF q
      <4> QED
        BY <2>3, <4>1, <4>2 DEF TypeOK
    <3> QED
      BY <3>1, <3>2
  <2> QED
    BY <1>1, <2>1, <2>2, <2>5 DEF TypeOK, netVars, histVars
<1> QED
  BY <1>2, <1>3 DEF GateAllocReq

LEMMA LoopType == ASSUME TypeOK, Loop PROVE TypeOK'
<1>1. /\ UNCHANGED <<net, netVars, masterVars, wild>> /\ overrun' \in BOOLEAN
      /\ status' \in {"NOT_SHUTDOWN", "START_SHUTDOWN", "READY_FOR_SHUTDOWN"}
  BY DEF Loop, TypeOK
<1>2. CASE UNCHANGED <<st, conn, acct, fin, queue, sessVars, poolVars, countVars, orphaned>>
  BY <1>1, <1>2 DEF TypeOK, netVars, masterVars, sessVars, poolVars, countVars
<1>3. CASE Len(queue) # 0
  <2> DEFINE n == Len(queue)
             s == queue[n]
  <2>1. n \in Nat /\ n > 0 /\ s \in Sessions
    BY <1>3 DEF TypeOK
  <2>2. /\ ClearSession(s, n) /\ queue' = <<>>
        /\ orphaned' = (orphaned \/ \E c \in Conns : InUse(c) /\ client[c] = s)
    BY <1>3 DEF Loop, Drain
  <2> HIDE DEF n, s
  <2>3. /\ st' \in [Sessions -> States] /\ conn' \in [Sessions -> Conns \cup {NULL}]
        /\ acct' \in [Sessions -> Accounts \cup {NULL}] /\ temp' \in [Sessions -> BOOLEAN]
        /\ fin' \in [Sessions -> BOOLEAN] /\ bound' \in [Sessions -> BOOLEAN] /\ seq' = seq
    BY <2>1, <2>2, NamedStates DEF ClearSession, Clear, TypeOK
  <2>4. freeCnt' \in [Sessions -> Nat] /\ used' \in Uint16
    <3>1. freeCnt' = [freeCnt EXCEPT ![s] = @ + n] /\ used' = (used - n) % 65536
      BY <2>2 DEF ClearSession, Free
    <3>2. used' \in Uint16
      BY <2>1, <3>1, Uint16Type DEF TypeOK
    <3> QED
      BY <2>1, <3>1, <3>2 DEF TypeOK
  <2>5. count' \in Uint16 /\ tempCount' \in Uint16 /\ byName' \in [Accounts -> Sessions \cup {NULL}]
    <3>1. n - 1 \in Nat /\ 1 \in Nat
      BY <2>1
    <3>2. (tempCount - n) % 65536 \in Uint16 /\ (tempCount - (n - 1)) % 65536 \in Uint16
          /\ (count - 1) % 65536 \in Uint16
      BY <2>1, <3>1, Uint16Type DEF TypeOK
    <3>3. tempCount' \in Uint16
      <4>1. tempCount' = (tempCount - n) % 65536 \/ tempCount' = (tempCount - (n - 1)) % 65536
        BY <2>2 DEF ClearSession
      <4> QED
        BY <3>2, <4>1
    <3>4. count' \in Uint16
      <4>1. count' = count \/ count' = (count - 1) % 65536
        BY <2>2 DEF ClearSession
      <4> QED
        BY <3>2, <4>1 DEF TypeOK
    <3>5. byName' = byName \/ byName' = [byName EXCEPT ![acct[s]] = NULL]
      BY <2>2 DEF ClearSession
    <3> QED
      BY <3>3, <3>4, <3>5 DEF TypeOK
  <2>6. queue' \in Seq(Sessions) /\ orphaned' \in BOOLEAN
    BY <2>2
  <2> QED
    BY <1>1, <2>3, <2>4, <2>5, <2>6 DEF TypeOK, netVars, masterVars
<1> QED
  BY <1>2, <1>3 DEF Loop, Drain

LEMMA GateReleaseReqType == ASSUME TypeOK, NEW n \in Accounts, GateReleaseReq(n) PROVE TypeOK'
<1>1. /\ UNCHANGED <<st, conn, acct, status, sessVars, poolVars, countVars, netVars, histVars, known>>
      /\ asked' \subseteq Accounts /\ granted' \in [Accounts -> SessionIds \cup {NULL}]
  BY DEF GateReleaseReq, MasterDrops, TypeOK
<1>2. queue' \in Seq(Sessions) /\ fin' \in [Sessions -> BOOLEAN] /\ net' \in [Conns -> NetStates]
  <2>1. CASE UNCHANGED <<queue, fin, net>>
    BY <2>1 DEF TypeOK
  <2>2. CASE byName[n] # NULL /\ Push(byName[n]) /\ UNCHANGED net
    BY <2>2, PushType DEF TypeOK
  <2>3. CASE net' = AsyncDisconnect(conn[byName[n]]) /\ UNCHANGED <<queue, fin>>
    BY <2>3 DEF TypeOK, AsyncDisconnect, NetStates
  <2> QED
    BY <2>1, <2>2, <2>3 DEF GateReleaseReq, Release
<1> QED
  BY <1>1, <1>2 DEF TypeOK, sessVars, poolVars, countVars, netVars, histVars

LEMMA DisconnectType == ASSUME TypeOK, NEW sid \in known, Disconnect(sid) PROVE TypeOK'
<1>1. /\ UNCHANGED <<conn, acct, fin, queue, status, sessVars, poolVars, countVars, netVars,
                     histVars, known>>
      /\ asked' \subseteq Accounts /\ granted' \in [Accounts -> SessionIds \cup {NULL}]
  BY DEF Disconnect, TypeOK
<1>2. st' \in [Sessions -> States] /\ net' \in [Conns -> NetStates]
  <2> DEFINE s == GetSession(sid)
  <2>1. \A x : AsyncDisconnect(x) \in [Conns -> NetStates]
    BY DEF TypeOK, AsyncDisconnect, NetStates
  <2>2. s # NULL => s \in Sessions
    BY DEF TypeOK, GetSession, SessionIds
  <2>3. s # NULL => After(st[s], "ONMASTERDISCONNECT") \in States
    BY <2>2, AfterType DEF TypeOK
  <2>4. /\ st' = st \/ (s # NULL /\ st' = [st EXCEPT ![s] = After(@, "ONMASTERDISCONNECT")])
        /\ net' = net \/ net' = AsyncDisconnect(conn[s])
    BY DEF Disconnect
  <2> HIDE DEF s
  <2>5. net' \in [Conns -> NetStates]
    BY <2>1, <2>4 DEF TypeOK
  <2>6. st' \in [Sessions -> States]
    BY <2>2, <2>3, <2>4 DEF TypeOK
  <2> QED
    BY <2>5, <2>6
<1> QED
  BY <1>1, <1>2 DEF TypeOK, sessVars, poolVars, countVars, netVars, histVars

\* The steps that only disconnect, bind a region, or change the status.
LEMMA SmallStepsType ==
  ASSUME TypeOK,
         \/ \E c \in Conns : ConnectionLost(c) \/ ClientPacket(c)
         \/ \E sid \in known : RegionBindReq(sid) \/ SendData(sid) \/ PacketForward(sid)
         \/ \E s \in Sessions : ConnectionTimeout(s)
         \/ Shutdown
         \/ UNCHANGED vars
  PROVE  TypeOK'
<1> USE DEF sessVars, poolVars, countVars, netVars, masterVars, histVars
<1>1. \A x : AsyncDisconnect(x) \in [Conns -> NetStates]
  BY DEF TypeOK, AsyncDisconnect, NetStates
<1>2. ASSUME NEW c \in Conns, ConnectionLost(c) PROVE TypeOK'
  BY <1>1, <1>2 DEF ConnectionLost, TypeOK
<1>3. ASSUME NEW c \in Conns, ClientPacket(c) PROVE TypeOK'
  <2>1. client[c] \in Sessions /\ DisconnectSession(client[c])
    BY <1>3 DEF ClientPacket, TypeOK
  <2> QED
    BY <1>3, <2>1, DisconnectSessionType DEF ClientPacket, TypeOK
<1>4. ASSUME NEW sid \in known, RegionBindReq(sid) PROVE TypeOK'
  BY <1>4 DEF RegionBindReq, TypeOK
<1>5. ASSUME NEW sid \in known, SendData(sid) PROVE TypeOK'
  BY <1>1, <1>5 DEF SendData, TypeOK
<1>9. ASSUME NEW sid \in known, PacketForward(sid) PROVE TypeOK'
  <2>1. /\ UNCHANGED <<st, conn, acct, fin, queue, status, sessVars, poolVars, countVars, netVars,
                       masterVars, overrun, orphaned>>
        /\ \/ net' = net /\ wild' = TRUE
           \/ net' = AsyncDisconnect(conn[GetSession(sid)]) /\ wild' = wild
    BY <1>9 DEF PacketForward, TypeOK
  <2>2. net' \in [Conns -> NetStates] /\ wild' \in BOOLEAN
    BY <1>1, <2>1 DEF TypeOK
  <2> QED
    BY <2>1, <2>2 DEF TypeOK
<1>6. ASSUME NEW s \in Sessions, ConnectionTimeout(s) PROVE TypeOK'
  BY <1>6, DisconnectSessionType DEF ConnectionTimeout, TypeOK
<1>7. CASE Shutdown
  BY <1>7 DEF Shutdown, TypeOK
<1>8. CASE UNCHANGED vars
  BY <1>8 DEF vars, TypeOK
<1> QED
  BY <1>2, <1>3, <1>4, <1>5, <1>6, <1>7, <1>8, <1>9

\* Every step is one of these.
LEMMA Steps ==
  ASSUME [Next]_vars
  PROVE  \/ \E c \in Conns : OnConnect(c)
         \/ \E c \in Conns, ok \in SendResults : OnDisconnect(c, ok)
         \/ \E c \in Conns, n \in Accounts \cup {NULL}, ok \in SendResults : LoginPacket(c, n, ok)
         \/ \E n \in Accounts, ok \in SendResults : GateAllocReq(n, ok)
         \/ \E n \in Accounts : GateReleaseReq(n)
         \/ \E sid \in known : Disconnect(sid)
         \/ Loop
         \/ \/ \E c \in Conns : ConnectionLost(c) \/ ClientPacket(c)
            \/ \E sid \in known : RegionBindReq(sid) \/ SendData(sid) \/ PacketForward(sid)
            \/ \E s \in Sessions : ConnectionTimeout(s)
            \/ Shutdown
            \/ UNCHANGED vars
  BY Zenon DEF Next

LEMMA TypeStep == ASSUME TypeOK, [Next]_vars PROVE TypeOK'
  BY Steps, OnConnectType, OnDisconnectType, LoginPacketType, GateAllocReqType, GateReleaseReqType,
     DisconnectType, LoopType, SmallStepsType

LEMMA TypeStart == Init => TypeOK
<1> SUFFICES ASSUME Init PROVE TypeOK
  OBVIOUS
<1> USE DEF Init
<1>1. /\ st \in [Sessions -> States] /\ net \in [Conns -> NetStates]
  BY NamedStates DEF NetStates
<1>2. /\ seq \in [Sessions -> Uint8] /\ count \in Uint16 /\ tempCount \in Uint16 /\ used \in Uint16
      /\ freeCnt \in [Sessions -> Nat]
  BY DEF Uint8, Uint16
<1>3. /\ queue \in Seq(Sessions) /\ temp \in [Sessions -> BOOLEAN] /\ fin \in [Sessions -> BOOLEAN]
      /\ bound \in [Sessions -> BOOLEAN] /\ acct \in [Sessions -> Accounts \cup {NULL}]
      /\ conn \in [Sessions -> Conns \cup {NULL}]
  OBVIOUS
<1> QED
  BY <1>1, <1>2, <1>3 DEF TypeOK

\* The variables of GateServerLoop, its sessions and the object pool keep their
\* types, the 16-bit counters and the 8-bit sequence numbers included; also
\* after a pass of _Loop that meets two sessions.
THEOREM GateTypeCorrect == Spec => []TypeOK
<1>1. Init => TypeOK
  BY TypeStart
<1>2. TypeOK /\ [Next]_vars => TypeOK'
  BY TypeStep
<1> QED
  BY <1>1, <1>2, PTL DEF Spec

-----------------------------------------------------------------------------
(* What holds of every session until a pass of _Loop meets two of them.    *)

TempStates == {"ONCONNECTION", "TRANSFERED", "DISCONNECT", "ONDISCONNECT"}
FiledStates == {"ONGATEALLOCREQ", "GATEALLOCACK", "LOGGEDIN", "GATELOGINREQ", "HOLDCONNECTION",
                "ONMASTERDISCONNECT", "DISCONNECT", "ONDISCONNECT"}

\* Which states a session goes through depends on what it was allocated for.
Fits(s) ==
  /\ ~Live(s) => conn[s] = NULL /\ temp[s]
  /\ Live(s) /\ temp[s] => st[s] \in TempStates
  /\ Live(s) /\ ~temp[s] => st[s] \in FiledStates

\* A session and its connection: there is one in these states and none in
\* those, it leads back, and its end has not been handled yet.
Wired(s) ==
  /\ st[s] \in DisconnectFirst \cup {"DISCONNECT", "ONMASTERDISCONNECT"} => conn[s] # NULL
  /\ st[s] \in {"NONE", "ONGATEALLOCREQ", "GATEALLOCACK", "ONDISCONNECT"} => conn[s] = NULL
  /\ conn[s] # NULL /\ st[s] # "TRANSFERED" => net[conn[s]] # "none" /\ client[conn[s]] = s
  /\ st[s] \in {"ONCONNECTION", "GATELOGINREQ"} => net[conn[s]] # "lost"
  /\ st[s] \in {"DISCONNECT", "ONMASTERDISCONNECT"} => net[conn[s]] = "down"

\* Only a failed send leaves a session stuck.
FailedOnly(s) == st[s] \in StuckStates /\ ~fin[s] => FALSE \in SendResults

Sound ==
  /\ NamesExact /\ QueueExact /\ PoolSound
  /\ \A s \in Sessions : Fits(s) /\ Wired(s) /\ FailedOnly(s)

GateInv == TypeOK /\ (~overrun => Sound)

\* The index by name only depends on the sessions it holds.
LEMMA NamesSame ==
  ASSUME NamesExact, UNCHANGED <<freeCnt, temp, byName>>,
         \A s \in Sessions : Live(s) /\ ~temp[s] => acct'[s] = acct[s]
  PROVE  NamesExact'
<1>1. Filed' = Filed /\ \A s \in Filed : acct'[s] = acct[s]
  BY DEF Filed, Live
<1> HIDE DEF Filed
<1> QED
  BY <1>1 DEF NamesExact

LEMMA PoolSame ==
  ASSUME PoolSound, UNCHANGED <<freeCnt, temp, count, tempCount, used>>,
         \A s \in Sessions : ~Live(s) => st'[s] = st[s]
  PROVE  PoolSound'
<1>1. Filed' = Filed /\ Temps' = Temps
  BY DEF Filed, Temps, Live
<1>2. \A s \in Sessions : Live(s)' = Live(s)
  BY DEF Live
<1> QED
  BY <1>1, <1>2 DEF PoolSound

\* CloseSession queues a session in use, once.
LEMMA PushKeeps ==
  ASSUME TypeOK, QueueExact, NEW s \in Sessions, Live(s), Push(s), UNCHANGED freeCnt
  PROVE  QueueExact' /\ \A x \in Sessions : fin'[x] <=> fin[x] \/ x = s
<1>1. fin' = [fin EXCEPT ![s] = TRUE] /\ fin \in [Sessions -> BOOLEAN] /\ queue \in Seq(Sessions)
  BY DEF Push, TypeOK
<1>2. \A x \in Sessions : fin'[x] <=> fin[x] \/ x = s
  BY <1>1
<1>3. CASE fin[s]
  <2>1. queue' = queue /\ \A x \in Sessions : fin'[x] <=> fin[x]
    BY <1>2, <1>3 DEF Push
  <2> QED
    BY <1>2, <2>1 DEF QueueExact, Queued, Live
<1>4. CASE ~fin[s]
  <2>1. queue' = Append(queue, s)
    BY <1>4 DEF Push
  <2>2. /\ Len(queue) \in Nat /\ Len(queue') = Len(queue) + 1
        /\ \A i \in 1 .. Len(queue) : queue'[i] = queue[i]
        /\ queue'[Len(queue) + 1] = s
    BY <1>1, <2>1
  <2>3. 1 .. Len(queue') = 1 .. Len(queue) \cup {Len(queue) + 1}
    BY <2>2
  <2>4. \A x \in Sessions : Queued(x)' <=> Queued(x) \/ x = s
    BY <2>2, <2>3 DEF Queued
  <2>5. \A i \in 1 .. Len(queue) : queue[i] # s
    BY <1>4 DEF QueueExact, Queued
  <2>6. \A i, j \in 1 .. Len(queue') : queue'[i] = queue'[j] => i = j
    <3>1. \A i, j \in 1 .. Len(queue) : queue[i] = queue[j] => i = j
      BY DEF QueueExact
    <3> QED
      BY <2>2, <2>3, <2>5, <3>1
  <2>7. \A x \in Sessions : (fin[x] <=> Queued(x)) /\ (fin[x] => Live(x))
    BY DEF QueueExact
  <2> QED
    BY <1>2, <2>4, <2>6, <2>7 DEF QueueExact, Live
<1> QED
  BY <1>3, <1>4

\* A session that a step leaves alone, with its connection.
LEMMA WiredSame ==
  ASSUME TypeOK, NEW s \in Sessions, Wired(s), st'[s] = st[s], conn'[s] = conn[s],
         conn[s] # NULL /\ st[s] # "TRANSFERED" =>
           /\ client'[conn[s]] = client[conn[s]]
           /\ net'[conn[s]] = net[conn[s]] \/ (net[conn[s]] = "up" /\ net'[conn[s]] = "down")
  PROVE  Wired(s)'
  BY DEF Wired, DisconnectFirst

\* A session in use has left NONE, and is not in it while it works.
LEMMA LiveStates ==
  ASSUME Sound, NEW s \in Sessions
  PROVE  (st[s] = "NONE" <=> ~Live(s))
  BY DEF Sound, PoolSound, Fits, TempStates, FiledStates

-----------------------------------------------------------------------------
(* Steps that disconnect.  At most one session moves, the one whose        *)
(* connection is told to end.                                              *)

\* Session s moves to a state where it waits for the end of its connection.
Leaves(s) ==
  /\ \/ st[s] = "ONCONNECTION" /\ st'[s] = "DISCONNECT"
     \/ st[s] = "GATELOGINREQ" /\ st'[s] \in {"DISCONNECT", "ONMASTERDISCONNECT"}
  /\ net' = AsyncDisconnect(conn[s])

\* Nothing else changes but the queue, the master's side, and the name a session
\* that is not filed carries.
HangsUp ==
  /\ UNCHANGED <<conn, temp, byName, count, tempCount, freeCnt, used, client, auth, seq>>
  /\ \A s \in Sessions : Live(s) /\ ~temp[s] => acct'[s] = acct[s]
  /\ net' = net \/ \E x : net' = AsyncDisconnect(x)
  /\ \A s \in Sessions : st'[s] = st[s] \/ Leaves(s)

LEMMA HangUp ==
  ASSUME TypeOK, Sound, HangsUp, QueueExact', \A s \in Sessions : fin[s] => fin'[s]
  PROVE  Sound'
<1> USE DEF HangsUp
<1>1. NamesExact'
  BY NamesSame DEF Sound
<1>2. \A s \in Sessions : Live(s)' = Live(s)
  BY DEF Live
<1>3. PoolSound'
  <2>1. \A s \in Sessions : ~Live(s) => st'[s] = st[s]
    BY LiveStates DEF Leaves
  <2> QED
    BY <2>1, PoolSame DEF Sound
<1>4. \A d \in Conns : net'[d] = net[d] \/ (net[d] = "up" /\ net'[d] = "down")
  BY DEF TypeOK, AsyncDisconnect
<1>5. ASSUME NEW s \in Sessions PROVE (Fits(s) /\ Wired(s) /\ FailedOnly(s))'
  <2>1. CASE st'[s] = st[s]
    <3>1. Wired(s)'
      <4>1. Wired(s)
        BY DEF Sound
      <4>2. conn[s] # NULL => conn[s] \in Conns
        BY DEF TypeOK
      <4> QED
        BY <1>4, <2>1, <4>1, <4>2, WiredSame
    <3>2. Fits(s)' /\ FailedOnly(s)'
      BY <1>2, <2>1 DEF Sound, Fits, FailedOnly
    <3> QED
      BY <3>1, <3>2
  <2>2. CASE Leaves(s)
    <3>1. /\ conn[s] # NULL /\ conn[s] \in Conns
          /\ net[conn[s]] \in {"up", "down"} /\ client[conn[s]] = s
      BY <2>2 DEF Leaves, Sound, Wired, DisconnectFirst, TypeOK, NetStates
    <3>2. net'[conn[s]] = "down"
      BY <2>2, <3>1 DEF Leaves, AsyncDisconnect, TypeOK
    <3>3. Wired(s)'
      BY <2>2, <3>1, <3>2 DEF Leaves, Wired, DisconnectFirst
    <3>4. Fits(s)' /\ FailedOnly(s)'
      BY <1>2, <2>2 DEF Leaves, Sound, Fits, FailedOnly, TempStates, FiledStates, StuckStates
    <3> QED
      BY <3>3, <3>4
  <2> QED
    BY <2>1, <2>2
<1> QED
  BY <1>1, <1>3, <1>5 DEF Sound

\* Where nothing is queued.
LEMMA QueueSame ==
  ASSUME QueueExact, UNCHANGED <<fin, queue, freeCnt>> PROVE QueueExact'
  BY DEF QueueExact, Queued, Live

\* GateSession::Disconnect of a session that is connected.
LEMMA DisconnectSessionLeaves ==
  ASSUME TypeOK, NEW s \in Sessions, DisconnectSession(s)
  PROVE  /\ net' = net \/ \E x : net' = AsyncDisconnect(x)
         /\ \A x \in Sessions : st'[x] = st[x] \/ Leaves(x)
<1>1. CASE UNCHANGED <<st, net>>
  BY <1>1
<1>2. CASE /\ Result(st[s], "DISCONNECT") # INVALID
           /\ st' = [st EXCEPT ![s] = After(@, "DISCONNECT")] /\ net' = AsyncDisconnect(conn[s])
  <2>1. st[s] \in {"ONCONNECTION", "GATELOGINREQ"} /\ st'[s] = "DISCONNECT"
    BY <1>2, EndRows DEF TypeOK
  <2> QED
    BY <1>2, <2>1 DEF Leaves, TypeOK
<1> QED
  BY <1>1, <1>2 DEF DisconnectSession

\* The steps that do no more than that.
LEMMA SmallStepsHangUp ==
  ASSUME TypeOK,
         \/ \E c \in Conns : ConnectionLost(c) \/ ClientPacket(c)
         \/ \E sid \in known : RegionBindReq(sid) \/ SendData(sid) \/ PacketForward(sid)
         \/ \E s \in Sessions : ConnectionTimeout(s)
         \/ Shutdown
         \/ UNCHANGED vars
  PROVE  HangsUp /\ UNCHANGED <<acct, fin, queue, asked, granted, known, overrun, orphaned>>
<1> USE DEF sessVars, poolVars, countVars, netVars, masterVars, histVars
<1>1. /\ UNCHANGED <<conn, acct, fin, queue, seq, temp, poolVars, countVars, netVars, masterVars,
                     overrun, orphaned>>
      /\ \/ UNCHANGED st /\ (net' = net \/ \E x : net' = AsyncDisconnect(x))
         \/ \E s \in Sessions : DisconnectSession(s)
  <2>1. ASSUME NEW c \in Conns, ConnectionLost(c) PROVE <1>1
    BY <2>1 DEF ConnectionLost
  <2>2. ASSUME NEW c \in Conns, ClientPacket(c) PROVE <1>1
    BY <2>2 DEF ClientPacket, TypeOK
  <2>3. ASSUME NEW sid \in known, RegionBindReq(sid) PROVE <1>1
    BY <2>3 DEF RegionBindReq
  <2>4. ASSUME NEW sid \in known, SendData(sid) PROVE <1>1
    BY <2>4 DEF SendData
  <2>8. ASSUME NEW sid \in known, PacketForward(sid) PROVE <1>1
    BY <2>8 DEF PacketForward
  <2>5. ASSUME NEW s \in Sessions, ConnectionTimeout(s) PROVE <1>1
    BY <2>5 DEF ConnectionTimeout
  <2>6. CASE Shutdown
    BY <2>6 DEF Shutdown
  <2>7. CASE UNCHANGED vars
    BY <2>7 DEF vars
  <2> QED
    BY <2>1, <2>2, <2>3, <2>4, <2>5, <2>6, <2>7, <2>8
<1>2. /\ net' = net \/ \E x : net' = AsyncDisconnect(x)
      /\ \A x \in Sessions : st'[x] = st[x] \/ Leaves(x)
  BY <1>1, DisconnectSessionLeaves
<1> QED
  BY <1>1, <1>2 DEF HangsUp

LEMMA HangUpSound ==
  ASSUME TypeOK, Sound, HangsUp, UNCHANGED <<fin, queue>> PROVE Sound'
<1>1. QueueExact'
  BY QueueSame DEF Sound, HangsUp
<1> QED
  BY <1>1, HangUp

LEMMA DisconnectHangUp ==
  ASSUME TypeOK, NEW sid \in known, Disconnect(sid)
  PROVE  HangsUp /\ UNCHANGED <<fin, queue, acct, known, overrun, orphaned, status>>
<1> DEFINE s == GetSession(sid)
<1>1. /\ UNCHANGED <<conn, acct, fin, queue, seq, temp, freeCnt, used, byName, count, tempCount>>
      /\ UNCHANGED <<client, auth, known, overrun, orphaned, status>>
  BY DEF Disconnect, sessVars, poolVars, countVars, netVars, histVars
<1>3. \/ UNCHANGED <<st, net>>
      \/ /\ s # NULL /\ Result(st[s], "ONMASTERDISCONNECT") # INVALID
         /\ st' = [st EXCEPT ![s] = After(@, "ONMASTERDISCONNECT")]
         /\ net' = AsyncDisconnect(conn[s])
  BY DEF Disconnect
<1>4. s # NULL => s \in Sessions
  BY DEF TypeOK, GetSession, SessionIds
<1> HIDE DEF s
<1>5. /\ net' = net \/ \E x : net' = AsyncDisconnect(x)
      /\ \A x \in Sessions : st'[x] = st[x] \/ Leaves(x)
  <2>1. CASE UNCHANGED <<st, net>>
    BY <2>1
  <2>2. CASE ~UNCHANGED <<st, net>>
    <3>1. st[s] = "GATELOGINREQ" /\ st'[s] = "ONMASTERDISCONNECT"
      BY <1>3, <1>4, <2>2, EndRows DEF TypeOK
    <3> QED
      BY <1>3, <1>4, <2>2, <3>1 DEF Leaves, TypeOK
  <2> QED
    BY <2>1, <2>2
<1> QED
  BY <1>1, <1>5 DEF HangsUp

LEMMA GateReleaseReqSound ==
  ASSUME TypeOK, Sound, NEW n \in Accounts, GateReleaseReq(n) PROVE Sound'
<1> DEFINE s == byName[n]
<1>1. UNCHANGED <<st, conn, acct, seq, temp, freeCnt, used, byName, count, tempCount, client, auth>>
  BY DEF GateReleaseReq, sessVars, poolVars, countVars, netVars
<1>2. \/ UNCHANGED <<queue, fin>> /\ (net' = net \/ \E x : net' = AsyncDisconnect(x))
      \/ s # NULL /\ Push(s) /\ UNCHANGED net
  BY DEF GateReleaseReq, Release
<1>3. QueueExact' /\ \A x \in Sessions : fin[x] => fin'[x]
  <2>1. CASE UNCHANGED <<queue, fin>>
    BY <1>1, <2>1, QueueSame DEF Sound
  <2>2. CASE s # NULL /\ Push(s)
    <3>1. s \in Sessions /\ Live(s) /\ QueueExact
      BY <2>2 DEF TypeOK, Sound, NamesExact, Filed
    <3> HIDE DEF s
    <3> QED
      BY <1>1, <2>2, <3>1, PushKeeps
  <2> QED
    BY <1>2, <2>1, <2>2
<1>4. HangsUp
  BY <1>1, <1>2 DEF HangsUp
<1> QED
  BY <1>3, <1>4, HangUp

\* A login packet that names no session waiting for it.
LEMMA LoginRefusedHangUp ==
  ASSUME TypeOK, Sound, NEW s \in Sessions, st[s] = "ONCONNECTION", DisconnectSession(s),
         UNCHANGED <<conn, temp, byName, count, tempCount, freeCnt, used, client, auth, seq>>,
         \A x \in Sessions \ {s} : acct'[x] = acct[x]
  PROVE  HangsUp
<1>1. \A x \in Sessions : Live(x) /\ ~temp[x] => acct'[x] = acct[x]
  BY DEF Sound, Fits, FiledStates
<1> QED
  BY <1>1, DisconnectSessionLeaves DEF HangsUp

-----------------------------------------------------------------------------
(* The end of a connection *)

\* Nobody expected the end, and nobody waits for it.
LEMMA UnexpectedEndSound ==
  ASSUME TypeOK, Sound, NEW c \in Conns, net[c] = "down", net' = [net EXCEPT ![c] = "lost"],
         client[c] # NULL => Result(st[client[c]], "ONDISCONNECT") = INVALID,
         UNCHANGED <<st, conn, acct, fin, queue, temp, byName, count, tempCount, freeCnt, used, client>>
  PROVE  Sound'
<1>1. NamesExact' /\ PoolSound' /\ QueueExact'
  BY NamesSame, PoolSame, QueueSame DEF Sound
<1>2. ASSUME NEW s \in Sessions PROVE (Fits(s) /\ Wired(s) /\ FailedOnly(s))'
  <2>1. Fits(s)' /\ FailedOnly(s)'
    BY DEF Sound, Fits, FailedOnly, Live
  <2>2. Wired(s)
    BY DEF Sound
  <2>3. conn[s] # NULL => conn[s] \in Conns
    BY DEF TypeOK
  <2>4. CASE conn[s] = c /\ st[s] # "TRANSFERED" /\ conn[s] # NULL
    <3>1. client[c] = s /\ s # NULL
      BY <2>2, <2>4, GateAssumption DEF Wired
    <3>2. st[s] \notin {"ONCONNECTION", "GATELOGINREQ", "DISCONNECT", "ONMASTERDISCONNECT"}
      BY <3>1, EndExpected
    <3>3. net'[c] = "lost"
      BY DEF TypeOK
    <3> QED
      BY <2>1, <2>2, <2>4, <3>1, <3>2, <3>3 DEF Wired, DisconnectFirst
  <2>5. CASE ~(conn[s] = c /\ st[s] # "TRANSFERED" /\ conn[s] # NULL)
    <3>1. conn[s] # NULL /\ st[s] # "TRANSFERED" => net'[conn[s]] = net[conn[s]]
      BY <2>3, <2>5 DEF TypeOK
    <3> QED
      BY <2>1, <2>2, <3>1, WiredSame
  <2> QED
    BY <2>4, <2>5
<1> QED
  BY <1>1, <1>2 DEF Sound

\* GateSession::OnDisconnect, in short: session s loses its connection and is
\* queued, unless the master could not be told.
Ends(s, c) ==
  /\ Live(s)
  /\ \A x \in Sessions \ {s} : st'[x] = st[x] /\ conn'[x] = conn[x]
  /\ conn'[s] = NULL
  /\ \/ st'[s] = "ONDISCONNECT"
     \/ st[s] = "GATELOGINREQ" /\ st'[s] = "HOLDCONNECTION"
  /\ \A d \in Conns : d # c /\ d # conn[s] => net'[d] = net[d]
  /\ \/ Push(s)
     \/ UNCHANGED <<queue, fin>> /\ FALSE \in SendResults

LEMMA SessionOnDisconnectFacts ==
  ASSUME TypeOK, Sound, NEW c \in Conns, NEW ok \in SendResults, NEW s \in Sessions,
         client[c] = s, Result(st[s], "ONDISCONNECT") # INVALID, SessionOnDisconnect(s, c, ok)
  PROVE  Ends(s, c)
<1>1. \/ st[s] = "GATELOGINREQ" /\ Result(st[s], "ONDISCONNECT") = "HOLDCONNECTION"
      \/ /\ st[s] \in {"ONCONNECTION", "DISCONNECT", "ONMASTERDISCONNECT"}
         /\ Result(st[s], "ONDISCONNECT") = "ONDISCONNECT"
  BY EndRows
<1> DEFINE t == Result(st[s], "ONDISCONNECT")
           quiet == t = "HOLDCONNECTION" /\ status = "START_SHUTDOWN"
           sent  == ~quiet /\ ok
           y == IF sent THEN After(t, "SESSIONDISCONNECTREQ") ELSE t
<1>2. Live(s)
  BY <1>1, LiveStates
<1>3. /\ st' = [st EXCEPT ![s] = y] /\ conn' = [conn EXCEPT ![s] = NULL] /\ net' = Closed(s, c)
      /\ IF quiet \/ sent THEN Push(s) ELSE UNCHANGED <<queue, fin>>
  BY DEF SessionOnDisconnect
<1>4. \/ y = "ONDISCONNECT"
      \/ st[s] = "GATELOGINREQ" /\ y = "HOLDCONNECTION"
  BY <1>1, WayIn, NoRow
<1>5. Push(s) \/ (UNCHANGED <<queue, fin>> /\ FALSE \in SendResults)
  BY <1>3, GateAssumption
<1>6. \A d \in Conns : d # c /\ d # conn[s] => net'[d] = net[d]
  BY <1>3 DEF Closed
<1> HIDE DEF y
<1> QED
  BY <1>2, <1>3, <1>4, <1>5, <1>6 DEF TypeOK, Ends

LEMMA ExpectedEndSound ==
  ASSUME TypeOK, Sound, NEW c \in Conns, NEW ok \in SendResults, NEW s \in Sessions,
         client[c] = s, Result(st[s], "ONDISCONNECT") # INVALID, SessionOnDisconnect(s, c, ok),
         UNCHANGED <<acct, temp, byName, count, tempCount, freeCnt, used, client>>
  PROVE  Sound'
<1>1. /\ Live(s)
      /\ \A x \in Sessions \ {s} : st'[x] = st[x] /\ conn'[x] = conn[x]
      /\ conn'[s] = NULL
      /\ \/ st'[s] = "ONDISCONNECT"
         \/ st[s] = "GATELOGINREQ" /\ st'[s] = "HOLDCONNECTION"
      /\ \A d \in Conns : d # c /\ d # conn[s] => net'[d] = net[d]
      /\ Push(s) \/ (UNCHANGED <<queue, fin>> /\ FALSE \in SendResults)
  <2>1. Ends(s, c)
    BY SessionOnDisconnectFacts, Zenon
  <2> QED
    BY <2>1 DEF Ends
<1>2. st[s] # "TRANSFERED" /\ conn[s] # NULL /\ client[conn[s]] = s
  BY EndRows DEF Sound, Wired, DisconnectFirst
<1>3. NamesExact' /\ PoolSound'
  BY <1>1, NamesSame, PoolSame DEF Sound
<1>4. QueueExact' /\ (\A x \in Sessions : fin[x] => fin'[x]) /\ (fin'[s] \/ FALSE \in SendResults)
  <2>1. CASE UNCHANGED <<queue, fin>>
    <3>1. QueueExact'
      BY <2>1, QueueSame DEF Sound
    <3>2. fin'[s] \/ FALSE \in SendResults
      BY <1>1, <2>1 DEF Push, TypeOK
    <3> QED
      BY <2>1, <3>1, <3>2
  <2>2. CASE Push(s)
    BY <1>1, <2>2, PushKeeps DEF Sound
  <2> QED
    BY <1>1, <2>1, <2>2
<1>5. ASSUME NEW x \in Sessions PROVE (Fits(x) /\ Wired(x) /\ FailedOnly(x))'
  <2>1. CASE x # s
    <3>1. Fits(x)' /\ FailedOnly(x)'
      BY <1>1, <1>4, <2>1 DEF Sound, Fits, FailedOnly, Live
    <3>2. Wired(x) /\ (conn[x] # NULL => conn[x] \in Conns)
      BY DEF Sound, TypeOK
    <3>3. conn[x] # NULL /\ st[x] # "TRANSFERED" => net'[conn[x]] = net[conn[x]]
      BY <1>1, <1>2, <2>1, <3>2 DEF Wired
    <3> QED
      BY <1>1, <2>1, <3>1, <3>2, <3>3, WiredSame
  <2>2. CASE x = s
    <3>1. Wired(s)'
      BY <1>1 DEF Wired, DisconnectFirst
    <3>2. Fits(s)'
      <4>1. Fits(s) /\ Live(s)'
        BY <1>1 DEF Sound, Live
      <4> QED
        BY <1>1, <4>1 DEF Fits, TempStates, FiledStates
    <3>3. FailedOnly(s)'
      BY <1>4 DEF FailedOnly
    <3> QED
      BY <2>2, <3>1, <3>2, <3>3
  <2> QED
    BY <2>1, <2>2
<1> QED
  BY <1>3, <1>4, <1>5 DEF Sound

LEMMA OnDisconnectSound ==
  ASSUME TypeOK, Sound, NEW c \in Conns, NEW ok \in SendResults, OnDisconnect(c, ok)
  PROVE  Sound'
<1>1. /\ net[c] = "down"
      /\ UNCHANGED <<acct, temp, byName, count, tempCount, freeCnt, used, client>>
  BY DEF OnDisconnect, sessVars, poolVars, countVars, netVars
<1>2. CASE /\ client[c] # NULL => Result(st[client[c]], "ONDISCONNECT") = INVALID
           /\ net' = [net EXCEPT ![c] = "lost"]
           /\ UNCHANGED <<st, conn, fin, queue>>
  BY <1>1, <1>2, UnexpectedEndSound
<1>3. CASE /\ client[c] # NULL /\ Result(st[client[c]], "ONDISCONNECT") # INVALID
           /\ SessionOnDisconnect(client[c], c, ok)
  <2>1. client[c] \in Sessions
    BY <1>3 DEF TypeOK
  <2> QED
    BY <1>1, <1>3, <2>1, ExpectedEndSound
<1> QED
  BY <1>2, <1>3 DEF OnDisconnect

-----------------------------------------------------------------------------
(* New sessions *)

\* A session from the pool is cleared, and in use once.
LEMMA Taken ==
  ASSUME TypeOK, Sound, NEW s \in Sessions, Allocate(s)
  PROVE  /\ ~Live(s) /\ st[s] = "NONE" /\ conn[s] = NULL /\ temp[s] /\ ~fin[s]
         /\ \A x \in Sessions : Live(x)' <=> Live(x) \/ x = s
         /\ \A x \in Sessions : freeCnt'[x] <= 1
<1>1. freeCnt \in [Sessions -> Nat] /\ freeCnt[s] > 0 /\ freeCnt' = [freeCnt EXCEPT ![s] = @ - 1]
  BY DEF Allocate, TypeOK
<1>2. \A x \in Sessions : freeCnt[x] <= 1
  BY DEF Sound, PoolSound
<1>3. freeCnt[s] = 1 /\ freeCnt'[s] = 0 /\ \A x \in Sessions \ {s} : freeCnt'[x] = freeCnt[x]
  BY <1>1, <1>2
<1>4. ~Live(s) /\ (\A x \in Sessions : Live(x)' <=> Live(x) \/ x = s)
  BY <1>1, <1>3 DEF Live
<1>5. st[s] = "NONE" /\ conn[s] = NULL /\ temp[s] /\ ~fin[s]
  BY <1>4 DEF Sound, PoolSound, Fits, QueueExact
<1> QED
  BY <1>2, <1>3, <1>4, <1>5

\* Counting one session more or one less.
LEMMA CountSessions ==
  ASSUME NEW S \in SUBSET Sessions, NEW s \in Sessions
  PROVE  /\ Cardinality(S) \in Nat
         /\ s \notin S => Cardinality(S \cup {s}) = Cardinality(S) + 1
         /\ s \in S => Cardinality(S \ {s}) = Cardinality(S) - 1 /\ Cardinality(S) >= 1
<1>1. IsFiniteSet(S) /\ IsFiniteSet(S \ {s})
  BY GateAssumption, FS_Subset
<1>2. Cardinality(S) \in Nat /\ Cardinality(S \ {s}) \in Nat
  BY <1>1, FS_CardinalityType
<1>3. s \notin S => Cardinality(S \cup {s}) = Cardinality(S) + 1
  BY <1>1, FS_AddElement
<1>4. s \in S => Cardinality(S \ {s}) = Cardinality(S) - 1
  BY <1>1, FS_RemoveElement
<1> QED
  BY <1>2, <1>3, <1>4

\* A queue survives a session's leaving the pool.
LEMMA QueueGrown ==
  ASSUME QueueExact, UNCHANGED <<fin, queue>>, \A s \in Sessions : Live(s) => Live(s)'
  PROVE  QueueExact'
  BY DEF QueueExact, Queued

LEMMA NoRoomSound ==
  ASSUME TypeOK, Sound, NEW c \in Conns, net[c] = "none",
         NEW x \in NetStates, net' = [net EXCEPT ![c] = x], client' = [client EXCEPT ![c] = NULL],
         UNCHANGED <<st, conn, acct, fin, queue, temp, byName, count, tempCount, freeCnt, used>>
  PROVE  Sound'
<1>1. NamesExact' /\ PoolSound' /\ QueueExact'
  BY NamesSame, PoolSame, QueueSame DEF Sound
<1>2. ASSUME NEW s \in Sessions PROVE (Fits(s) /\ Wired(s) /\ FailedOnly(s))'
  <2>1. Fits(s)' /\ FailedOnly(s)'
    BY DEF Sound, Fits, FailedOnly, Live
  <2>2. Wired(s) /\ (conn[s] # NULL => conn[s] \in Conns)
    BY DEF Sound, TypeOK
  <2>3. conn[s] # NULL /\ st[s] # "TRANSFERED" =>
          net'[conn[s]] = net[conn[s]] /\ client'[conn[s]] = client[conn[s]]
    BY <2>2 DEF TypeOK, Wired
  <2> QED
    BY <2>1, <2>2, <2>3, WiredSame
<1> QED
  BY <1>1, <1>2 DEF Sound

LEMMA ConnectedSound ==
  ASSUME TypeOK, Sound, NEW c \in Conns, net[c] = "none", ~NoRoom,
         net' = [net EXCEPT ![c] = "up"], tempCount' = tempCount + 1,
         NEW s \in Sessions, Allocate(s), OnConnection(s, c),
         UNCHANGED <<acct, fin, queue, byName, count>>
  PROVE  Sound'
<1>1. /\ ~Live(s) /\ st[s] = "NONE" /\ conn[s] = NULL /\ temp[s] /\ ~fin[s]
      /\ \A x \in Sessions : Live(x)' <=> Live(x) \/ x = s
      /\ \A x \in Sessions : freeCnt'[x] <= 1
  BY Taken
<1>2. /\ st' = [st EXCEPT ![s] = "ONCONNECTION"]
      /\ conn' = [conn EXCEPT ![s] = c]
      /\ client' = [client EXCEPT ![c] = s]
      /\ temp' = [temp EXCEPT ![s] = TRUE]
  BY <1>1, WayIn DEF OnConnection
<1>3. /\ st'[s] = "ONCONNECTION" /\ conn'[s] = c /\ client'[c] = s /\ net'[c] = "up"
      /\ \A x \in Sessions \ {s} : st'[x] = st[x] /\ conn'[x] = conn[x]
      /\ \A x \in Sessions : temp'[x] <=> temp[x]
      /\ \A d \in Conns \ {c} : net'[d] = net[d] /\ client'[d] = client[d]
  BY <1>1, <1>2 DEF TypeOK
<1>4. Filed' = Filed
  BY <1>1, <1>3 DEF Filed
<1>5. Temps' = Temps \cup {s} /\ s \notin Temps
  BY <1>1, <1>3 DEF Temps
<1>6. NamesExact'
  BY <1>4 DEF Sound, NamesExact
<1>7. QueueExact'
  BY <1>1, QueueGrown DEF Sound
<1>8. PoolSound'
  <2>1. count = Cardinality(Filed) /\ count <= SessionMax
        /\ tempCount = Cardinality(Temps) /\ used = count + tempCount
        /\ \A x \in Sessions : ~Live(x) => st[x] = "NONE"
    BY DEF Sound, PoolSound
  <2>2. Temps \in SUBSET Sessions
    BY DEF Temps
  <2>3. tempCount' = Cardinality(Temps')
    BY <1>5, <2>1, <2>2, CountSessions
  <2>4. tempCount' <= TempMax /\ used' = count' + tempCount'
    <3>1. /\ count \in Nat /\ tempCount \in Nat /\ TempMax \in Nat
          /\ tempCount < TempMax /\ used' = used + 1 /\ count' = count
      BY GateAssumption DEF NoRoom, Allocate, TypeOK, Uint16
    <3> QED
      BY <2>1, <3>1
  <2>5. \A x \in Sessions : ~Live(x)' => st'[x] = "NONE"
    BY <1>1, <1>3, <2>1
  <2>6. count' = Cardinality(Filed') /\ count' <= SessionMax
    BY <1>4, <2>1
  <2> QED
    BY <1>1, <2>3, <2>4, <2>5, <2>6 DEF PoolSound
<1>9. ASSUME NEW x \in Sessions PROVE (Fits(x) /\ Wired(x) /\ FailedOnly(x))'
  <2>1. CASE x = s
    <3>1. Fits(s)' /\ FailedOnly(s)'
      BY <1>1, <1>3 DEF Fits, FailedOnly, TempStates, StuckStates
    <3>2. Wired(s)'
      BY <1>3, GateAssumption DEF Wired, DisconnectFirst
    <3> QED
      BY <2>1, <3>1, <3>2
  <2>2. CASE x # s
    <3>1. Fits(x) /\ Wired(x) /\ FailedOnly(x) /\ (conn[x] # NULL => conn[x] \in Conns)
      BY DEF Sound, TypeOK
    <3>2. Fits(x)' /\ FailedOnly(x)'
      BY <1>1, <1>3, <2>2, <3>1 DEF Fits, FailedOnly
    <3>3. conn[x] # NULL /\ st[x] # "TRANSFERED" =>
            net'[conn[x]] = net[conn[x]] /\ client'[conn[x]] = client[conn[x]]
      BY <1>3, <3>1 DEF Wired
    <3> QED
      BY <1>3, <2>2, <3>1, <3>2, <3>3, WiredSame
  <2> QED
    BY <2>1, <2>2
<1> QED
  BY <1>6, <1>7, <1>8, <1>9 DEF Sound

LEMMA OnConnectSound ==
  ASSUME TypeOK, Sound, NEW c \in Conns, OnConnect(c) PROVE Sound'
<1>1. net[c] = "none" /\ UNCHANGED <<acct, fin, queue, byName, count>>
  BY DEF OnConnect
<1>2. CASE ~Accepting \/ NoRoom
  <2>1. /\ \E x \in NetStates : net' = [net EXCEPT ![c] = x]
        /\ client' = [client EXCEPT ![c] = NULL]
        /\ UNCHANGED <<st, conn, temp, tempCount, freeCnt, used>>
    BY <1>2 DEF OnConnect, poolVars, NetStates
  <2> QED
    BY <1>1, <2>1, NoRoomSound
<1>3. CASE Accepting /\ ~NoRoom
  <2>1. /\ net' = [net EXCEPT ![c] = "up"] /\ tempCount' = tempCount + 1
        /\ \E s \in Sessions : Allocate(s) /\ OnConnection(s, c)
    BY <1>3 DEF OnConnect
  <2> QED
    BY <1>1, <1>3, <2>1, ConnectedSound
<1> QED
  BY <1>2, <1>3

LEMMA AllocatedSound ==
  ASSUME TypeOK, Sound, NEW n \in Accounts, NEW ok \in SendResults, NEW s \in Sessions,
         byName[n] = NULL, ~(count >= SessionMax), Allocate(s), count' = count + 1,
         byName' = [byName EXCEPT ![n] = s], SessionOnGateAllocReq(s, n, ok),
         UNCHANGED <<conn, fin, queue, net, tempCount, client>>
  PROVE  Sound'
<1>1. /\ ~Live(s) /\ st[s] = "NONE" /\ conn[s] = NULL /\ temp[s] /\ ~fin[s]
      /\ \A x \in Sessions : Live(x)' <=> Live(x) \/ x = s
      /\ \A x \in Sessions : freeCnt'[x] <= 1
  BY Taken
<1>2. /\ st' = [st EXCEPT ![s] = IF ok THEN "GATEALLOCACK" ELSE "ONGATEALLOCREQ"]
      /\ acct' = [acct EXCEPT ![s] = n]
      /\ temp' = [temp EXCEPT ![s] = FALSE]
  BY <1>1, WayIn DEF SessionOnGateAllocReq
<1>3. /\ st'[s] \in {"GATEALLOCACK", "ONGATEALLOCREQ"} /\ acct'[s] = n /\ ~temp'[s]
      /\ \A x \in Sessions \ {s} : st'[x] = st[x] /\ acct'[x] = acct[x] /\ temp'[x] = temp[x]
  BY <1>2 DEF TypeOK
<1>4. Filed' = Filed \cup {s} /\ s \notin Filed
  BY <1>1, <1>3 DEF Filed
<1>5. Temps' = Temps
  BY <1>1, <1>3 DEF Temps
<1>6. NamesExact'
  <2>1. byName'[n] = s /\ \A m \in Accounts \ {n} : byName'[m] = byName[m]
    BY DEF TypeOK
  <2>2. /\ \A m \in Accounts : byName[m] # NULL => byName[m] \in Filed /\ acct[byName[m]] = m
        /\ \A x \in Filed : acct[x] \in Accounts /\ byName[acct[x]] = x
    BY DEF Sound, NamesExact
  <2>3. \A x \in Filed : x \in Sessions /\ x # s /\ acct'[x] = acct[x] /\ acct[x] # n
    <3>1. \A x \in Filed : x \in Sessions /\ x # NULL
      BY GateAssumption DEF Filed
    <3> QED
      BY <1>3, <1>4, <2>2, <3>1
  <2>4. \A m \in Accounts : byName'[m] # NULL => byName'[m] \in Filed' /\ acct'[byName'[m]] = m
    BY <1>3, <1>4, <2>1, <2>2, <2>3
  <2>5. \A x \in Filed' : acct'[x] \in Accounts /\ byName'[acct'[x]] = x
    BY <1>3, <1>4, <2>1, <2>2, <2>3
  <2> QED
    BY <2>4, <2>5 DEF NamesExact
<1>7. QueueExact'
  BY <1>1, QueueGrown DEF Sound
<1>8. PoolSound'
  <2>1. count = Cardinality(Filed) /\ tempCount = Cardinality(Temps) /\ tempCount <= TempMax
        /\ used = count + tempCount /\ \A x \in Sessions : ~Live(x) => st[x] = "NONE"
    BY DEF Sound, PoolSound
  <2>2. Filed \in SUBSET Sessions
    BY DEF Filed
  <2>3. count' = Cardinality(Filed')
    BY <1>4, <2>1, <2>2, CountSessions
  <2>4. count' <= SessionMax /\ used' = count' + tempCount'
    <3>1. /\ count \in Nat /\ tempCount \in Nat /\ SessionMax \in Nat
          /\ count < SessionMax /\ used' = used + 1 /\ tempCount' = tempCount
      BY GateAssumption DEF Allocate, TypeOK, Uint16
    <3> QED
      BY <2>1, <3>1
  <2>5. \A x \in Sessions : ~Live(x)' => st'[x] = "NONE"
    BY <1>1, <1>3, <2>1
  <2>6. tempCount' = Cardinality(Temps') /\ tempCount' <= TempMax
    BY <1>5, <2>1
  <2> QED
    BY <1>1, <2>3, <2>4, <2>5, <2>6 DEF PoolSound
<1>9. ASSUME NEW x \in Sessions PROVE (Fits(x) /\ Wired(x) /\ FailedOnly(x))'
  <2>1. Fits(x) /\ Wired(x) /\ FailedOnly(x)
    BY DEF Sound
  <2>2. CASE x = s
    BY <1>1, <1>3, <2>2
      DEF Fits, FailedOnly, Wired, FiledStates, StuckStates, DisconnectFirst
  <2>3. CASE x # s
    <3>1. Fits(x)' /\ FailedOnly(x)'
      BY <1>1, <1>3, <2>1, <2>3 DEF Fits, FailedOnly
    <3>2. Wired(x)'
      BY <1>3, <2>1, <2>3, WiredSame
    <3> QED
      BY <3>1, <3>2
  <2> QED
    BY <2>2, <2>3
<1> QED
  BY <1>6, <1>7, <1>8, <1>9 DEF Sound

LEMMA GateAllocReqSound ==
  ASSUME TypeOK, Sound, NEW n \in Accounts, NEW ok \in SendResults, GateAllocReq(n, ok)
  PROVE  Sound'
<1>1. UNCHANGED <<conn, fin, queue, net, tempCount, client, auth>>
  BY DEF GateAllocReq, netVars
<1>2. CASE UNCHANGED <<st, acct, seq, temp, byName, count, freeCnt, used>>
  <2>1. HangsUp
    BY <1>1, <1>2 DEF HangsUp
  <2> QED
    BY <1>1, <2>1, HangUpSound
<1>3. CASE /\ byName[n] = NULL /\ ~(count >= SessionMax)
           /\ \E s \in Sessions : /\ Allocate(s) /\ count' = count + 1
                                  /\ byName' = [byName EXCEPT ![n] = s]
                                  /\ SessionOnGateAllocReq(s, n, ok)
  <2>1. PICK s \in Sessions : /\ Allocate(s) /\ count' = count + 1
                              /\ byName' = [byName EXCEPT ![n] = s]
                              /\ SessionOnGateAllocReq(s, n, ok)
    BY <1>3
  <2> QED
    BY <1>1, <1>3, <2>1, AllocatedSound
<1> QED
  BY <1>2, <1>3 DEF GateAllocReq, poolVars

-----------------------------------------------------------------------------
(* The periodic pass *)

\* A 16-bit counter that does not wrap.
LEMMA NoWrap == \A m \in Nat : m < 65536 => m % 65536 = m
  OBVIOUS

\* A pass that meets one session clears it and takes it out of every index.
LEMMA ClearSessionSound ==
  ASSUME TypeOK, Sound, Len(queue) = 1, NEW s \in Sessions, s = queue[1], ClearSession(s, 1),
         queue' = <<>>, UNCHANGED <<net, client>>
  PROVE  Sound'
<1>1. /\ \A x \in Sessions : fin[x] <=> x = s
      /\ Live(s)
  BY DEF Sound, QueueExact, Queued
<1>2. /\ st' = [st EXCEPT ![s] = "NONE"] /\ conn' = [conn EXCEPT ![s] = NULL]
      /\ acct' = [acct EXCEPT ![s] = NULL] /\ temp' = [temp EXCEPT ![s] = TRUE]
      /\ fin' = [fin EXCEPT ![s] = FALSE]
      /\ freeCnt' = [freeCnt EXCEPT ![s] = @ + 1] /\ used' = (used - 1) % 65536
  BY DEF ClearSession, Clear, Free
<1>3. /\ st'[s] = "NONE" /\ conn'[s] = NULL /\ temp'[s] /\ freeCnt'[s] = 1
      /\ \A x \in Sessions \ {s} : /\ st'[x] = st[x] /\ conn'[x] = conn[x] /\ acct'[x] = acct[x]
                                   /\ temp'[x] = temp[x] /\ freeCnt'[x] = freeCnt[x]
      /\ \A x \in Sessions : ~fin'[x]
  BY <1>1, <1>2 DEF TypeOK, Live
<1>4. \A x \in Sessions : Live(x)' <=> Live(x) /\ x # s
  BY <1>1, <1>3 DEF Live
<1>5. Filed' = Filed \ {s} /\ Temps' = Temps \ {s}
  BY <1>3, <1>4 DEF Filed, Temps
<1>6. QueueExact'
  BY <1>3 DEF QueueExact, Queued
<1>7. NamesExact'
  <2>1. /\ \A m \in Accounts : byName[m] # NULL => byName[m] \in Filed /\ acct[byName[m]] = m
        /\ \A x \in Filed : acct[x] \in Accounts /\ byName[acct[x]] = x
        /\ \A x \in Filed : x \in Sessions
        /\ \A x \in Filed \ {s} : acct'[x] = acct[x]
    BY <1>3 DEF Sound, NamesExact, Filed
  <2>2. CASE temp[s]
    <3>1. byName' = byName /\ s \notin Filed
      BY <2>2 DEF ClearSession, Filed
    <3>2. Filed' = Filed
      BY <1>5, <3>1
    <3> QED
      BY <2>1, <3>1, <3>2 DEF NamesExact
  <2>3. CASE ~temp[s]
    <3>1. s \in Filed /\ byName' = [byName EXCEPT ![acct[s]] = NULL]
      BY <1>1, <2>3 DEF ClearSession, Filed
    <3>2. /\ acct[s] \in Accounts /\ byName[acct[s]] = s
          /\ byName'[acct[s]] = NULL
          /\ \A m \in Accounts \ {acct[s]} : byName'[m] = byName[m]
      BY <2>1, <3>1 DEF TypeOK
    <3>3. \A m \in Accounts : byName'[m] # NULL => byName'[m] \in Filed' /\ acct'[byName'[m]] = m
      BY <1>5, <2>1, <3>2
    <3>4. \A x \in Filed' : acct'[x] \in Accounts /\ byName'[acct'[x]] = x
      BY <1>5, <2>1, <3>1, <3>2
    <3> QED
      BY <3>3, <3>4 DEF NamesExact
  <2> QED
    BY <2>2, <2>3
<1>8. PoolSound'
  <2>1. /\ count = Cardinality(Filed) /\ count <= SessionMax
        /\ tempCount = Cardinality(Temps) /\ tempCount <= TempMax
        /\ used = count + tempCount
        /\ \A x \in Sessions : freeCnt[x] <= 1
        /\ \A x \in Sessions : ~Live(x) => st[x] = "NONE"
    BY DEF Sound, PoolSound
  <2>2. Filed \in SUBSET Sessions /\ Temps \in SUBSET Sessions
    BY DEF Filed, Temps
  <2>3. count \in Nat /\ tempCount \in Nat /\ used \in Nat /\ SessionMax \in Nat /\ TempMax \in Nat
        /\ count < 65536 /\ tempCount < 65536 /\ used < 65536
    BY GateAssumption DEF TypeOK, Uint16
  <2>4. /\ \A x \in Sessions : freeCnt'[x] <= 1
        /\ \A x \in Sessions : ~Live(x)' => st'[x] = "NONE"
    BY <1>3, <1>4, <2>1
  <2>5. used = count + tempCount /\ count <= SessionMax /\ tempCount <= TempMax
    BY <2>1
  <2>6. CASE temp[s]
    <3>1. s \in Temps /\ s \notin Filed
      BY <1>1, <2>6 DEF Temps, Filed
    <3>2. Filed' = Filed
      BY <1>5, <3>1
    <3>3. tempCount >= 1 /\ Cardinality(Temps') = tempCount - 1
      BY <1>5, <2>1, <2>2, <3>1, CountSessions
    <3>4. tempCount' = (tempCount - 1) % 65536 /\ count' = count
      BY <2>6 DEF ClearSession
    <3>5. /\ tempCount - 1 \in Nat /\ tempCount - 1 < 65536
          /\ used - 1 \in Nat /\ used - 1 < 65536
      BY <2>1, <2>3, <3>3
    <3>6. tempCount' = tempCount - 1 /\ used' = used - 1
      BY <1>2, <3>4, <3>5, NoWrap
    <3>7. /\ count' = Cardinality(Filed') /\ tempCount' = Cardinality(Temps')
      BY <2>1, <3>2, <3>3, <3>4, <3>6
    <3>8. used' = count' + tempCount' /\ count' <= SessionMax /\ tempCount' <= TempMax
      BY <2>3, <2>5, <3>4, <3>6
    <3> QED
      BY <2>4, <3>7, <3>8 DEF PoolSound
  <2>7. CASE ~temp[s]
    <3>1. s \in Filed /\ s \notin Temps
      BY <1>1, <2>7 DEF Temps, Filed
    <3>2. Temps' = Temps
      BY <1>5, <3>1
    <3>3. count >= 1 /\ Cardinality(Filed') = count - 1
      BY <1>5, <2>1, <2>2, <3>1, CountSessions
    <3>4. tempCount' = (tempCount - (1 - 1)) % 65536 /\ count' = (count - 1) % 65536
      BY <2>7 DEF ClearSession
    <3>5. /\ count - 1 \in Nat /\ count - 1 < 65536 /\ tempCount - (1 - 1) = tempCount
          /\ used - 1 \in Nat /\ used - 1 < 65536
      BY <2>1, <2>3, <3>3
    <3>6. tempCount' = tempCount /\ count' = count - 1 /\ used' = used - 1
      BY <1>2, <2>3, <3>4, <3>5, NoWrap
    <3>7. /\ count' = Cardinality(Filed') /\ tempCount' = Cardinality(Temps')
      BY <2>1, <3>2, <3>3, <3>6
    <3>8. used' = count' + tempCount' /\ count' <= SessionMax /\ tempCount' <= TempMax
      BY <2>3, <2>5, <3>3, <3>6
    <3> QED
      BY <2>4, <3>7, <3>8 DEF PoolSound
  <2> QED
    BY <2>6, <2>7
<1>9. ASSUME NEW x \in Sessions PROVE (Fits(x) /\ Wired(x) /\ FailedOnly(x))'
  <2>1. Fits(x) /\ Wired(x) /\ FailedOnly(x)
    BY DEF Sound
  <2>2. CASE x = s
    BY <1>3, <1>4, <2>2 DEF Fits, FailedOnly, Wired, StuckStates, DisconnectFirst
  <2>3. CASE x # s
    <3>1. Fits(x)' /\ FailedOnly(x)'
      BY <1>1, <1>3, <1>4, <2>1, <2>3 DEF Fits, FailedOnly
    <3>2. Wired(x)'
      BY <1>3, <2>1, <2>3, WiredSame
    <3> QED
      BY <3>1, <3>2
  <2> QED
    BY <2>2, <2>3
<1> QED
  BY <1>6, <1>7, <1>8, <1>9 DEF Sound

LEMMA LoopSound ==
  ASSUME TypeOK, Sound, Loop, ~overrun' PROVE Sound'
<1>1. Len(queue) \in {0, 1} /\ UNCHANGED <<net, client, auth>>
  <2>1. Len(queue) \in Nat
    BY DEF TypeOK
  <2>2. ~(Len(queue) > 1) /\ UNCHANGED <<net, client, auth>>
    BY Zenon DEF Loop, netVars
  <2> DEFINE n == Len(queue)
  <2>3. n \in Nat /\ ~(n > 1)
    BY <2>1, <2>2
  <2> HIDE DEF n
  <2>4. n \in {0, 1}
    BY <2>3
  <2> QED
    BY <2>2, <2>4 DEF n
<1>2. CASE Len(queue) = 0
  <2>1. UNCHANGED <<st, conn, acct, fin, queue, temp, seq, freeCnt, used, byName, count, tempCount>>
    BY <1>2 DEF Loop, Drain, sessVars, poolVars, countVars
  <2>2. HangsUp
    BY <1>1, <2>1 DEF HangsUp
  <2> QED
    BY <2>1, <2>2, HangUpSound
<1>3. CASE Len(queue) = 1
  <2>1. ClearSession(queue[1], 1) /\ queue' = <<>> /\ queue[1] \in Sessions
    <3>1. Drain /\ queue \in Seq(Sessions)
      BY DEF Loop, TypeOK
    <3>2. ClearSession(queue[1], 1) /\ queue' = <<>>
      BY <1>3, <3>1 DEF Drain
    <3> QED
      BY <1>3, <3>1, <3>2
  <2> QED
    BY <1>1, <1>3, <2>1, ClearSessionSound
<1> QED
  BY <1>1, <1>2, <1>3

-----------------------------------------------------------------------------
(* The login *)

\* TransferSession in short: session s hands its connection to t, which moves on
\* to the game, or stays where a failed send has left it.
HandsOver(s, t, ok) ==
  /\ s # t /\ st'[s] = "TRANSFERED" /\ conn'[s] = conn[s]
  /\ conn'[t] = conn[s]
  /\ \/ st[t] = "GATEALLOCACK" /\ st'[t] = IF ok THEN "GATELOGINREQ" ELSE "LOGGEDIN"
     \/ st[t] = "HOLDCONNECTION" /\ st'[t] = "HOLDCONNECTION"
  /\ \A x \in Sessions \ {s, t} : st'[x] = st[x] /\ conn'[x] = conn[x]
  /\ client' = [client EXCEPT ![conn[s]] = t]

LEMMA TransferFacts ==
  ASSUME TypeOK, NEW s \in Sessions, NEW t \in Sessions, NEW ok \in SendResults,
         st[s] = "ONCONNECTION", Transferable(t), Transfer(s, t, ok)
  PROVE  HandsOver(s, t, ok)
<1> DEFINE u == After(st[t], "TRANSFERED")
           y == IF ok THEN After(u, "GATELOGINREQ") ELSE u
<1>1. s # t /\ st[t] \in {"GATEALLOCACK", "HOLDCONNECTION"}
  BY DEF Transferable
<1>2. \/ st[t] = "GATEALLOCACK" /\ y = IF ok THEN "GATELOGINREQ" ELSE "LOGGEDIN"
      \/ st[t] = "HOLDCONNECTION" /\ y = "HOLDCONNECTION"
  BY <1>1, WayIn, NoRow
<1>3. st' = [st EXCEPT ![t] = y, ![s] = After(@, "LOGGEDIN")] /\ st \in [Sessions -> States]
  BY DEF Transfer, TypeOK
<1> HIDE DEF y
<1>4. st'[t] = y /\ st'[s] = After(st[s], "LOGGEDIN") /\ \A x \in Sessions \ {s, t} : st'[x] = st[x]
  BY <1>1, <1>3
<1>5. st'[s] = "TRANSFERED"
  BY <1>4, WayIn
<1>6. /\ conn' = [conn EXCEPT ![t] = conn[s]] /\ conn \in [Sessions -> Conns \cup {NULL}]
      /\ client' = [client EXCEPT ![conn[s]] = t]
  BY DEF Transfer, TypeOK
<1>7. conn'[t] = conn[s] /\ \A x \in Sessions \ {t} : conn'[x] = conn[x]
  BY <1>6
<1> QED
  BY <1>1, <1>2, <1>4, <1>5, <1>6, <1>7 DEF HandsOver

LEMMA LoginFoundSound ==
  ASSUME TypeOK, Sound, NEW s \in Sessions, NEW t \in Sessions, NEW ok \in SendResults,
         st[s] = "ONCONNECTION", HandsOver(s, t, ok), Push(s),
         \A x \in Sessions \ {s} : acct'[x] = acct[x],
         UNCHANGED <<temp, byName, count, tempCount, freeCnt, used, net>>
  PROVE  Sound'
<1>1. /\ Fits(s) /\ Wired(s) /\ Fits(t) /\ Wired(t) /\ FailedOnly(t) /\ QueueExact
  BY DEF Sound
<1>2. Live(s) /\ temp[s]
  BY <1>1, LiveStates DEF Fits, FiledStates
<1>3. Live(t) /\ ~temp[t]
  BY <1>1, LiveStates DEF Fits, TempStates, HandsOver
<1>4. conn[s] \in Conns /\ conn[s] # NULL /\ client[conn[s]] = s /\ net[conn[s]] \in {"up", "down"}
  BY <1>1 DEF Wired, DisconnectFirst, TypeOK, NetStates
<1>5. client'[conn[s]] = t /\ \A d \in Conns : d # conn[s] => client'[d] = client[d]
  BY <1>4 DEF HandsOver, TypeOK
<1>6. NamesExact'
  BY <1>2, NamesSame DEF Sound
<1>7. PoolSound'
  <2>1. \A x \in Sessions : ~Live(x) => st'[x] = st[x]
    BY <1>2, <1>3 DEF HandsOver
  <2> QED
    BY <2>1, PoolSame DEF Sound
<1>8. QueueExact' /\ \A x \in Sessions : fin'[x] <=> fin[x] \/ x = s
  BY <1>1, <1>2, PushKeeps
<1>9. ASSUME NEW x \in Sessions PROVE (Fits(x) /\ Wired(x) /\ FailedOnly(x))'
  <2>1. Live(x)' = Live(x) /\ temp'[x] = temp[x] /\ Fits(x) /\ Wired(x) /\ FailedOnly(x)
    BY DEF Live, Sound
  <2>2. CASE x = s
    BY <1>2, <2>1, <2>2
      DEF HandsOver, Fits, Wired, FailedOnly, TempStates, StuckStates, DisconnectFirst
  <2>3. CASE x = t
    <3>1. Fits(t)'
      BY <1>3, <2>1, <2>3 DEF HandsOver, Fits, FiledStates
    <3>2. Wired(t)'
      BY <1>4, <1>5 DEF HandsOver, Wired, DisconnectFirst
    <3>3. FailedOnly(t)'
      BY <1>1, <1>8, GateAssumption DEF HandsOver, FailedOnly, StuckStates
    <3> QED
      BY <2>3, <3>1, <3>2, <3>3
  <2>4. CASE x # s /\ x # t
    <3>1. st'[x] = st[x] /\ conn'[x] = conn[x]
      BY <2>4 DEF HandsOver
    <3>2. Fits(x)' /\ FailedOnly(x)'
      BY <1>8, <2>1, <2>4, <3>1 DEF Fits, FailedOnly
    <3>3. conn[x] # NULL /\ st[x] # "TRANSFERED" => client'[conn[x]] = client[conn[x]]
      BY <1>4, <1>5, <2>1, <2>4 DEF Wired, TypeOK
    <3> QED
      BY <2>1, <3>1, <3>2, <3>3, WiredSame
  <2> QED
    BY <2>2, <2>3, <2>4
<1> QED
  BY <1>6, <1>7, <1>8, <1>9 DEF Sound

\* HandleLoginPacket, in short.
LEMMA LoginPacketFacts ==
  ASSUME TypeOK, NEW c \in Conns, NEW n \in Accounts \cup {NULL}, NEW ok \in SendResults,
         LoginPacket(c, n, ok)
  PROVE  /\ client[c] \in Sessions /\ InUse(c)
         /\ ~fin[client[c]] /\ st[client[c]] = "ONCONNECTION"
         /\ acct' = [acct EXCEPT ![client[c]] = n]
         /\ UNCHANGED <<temp, seq, byName, count, tempCount, freeCnt, used, status>>
         /\ UNCHANGED <<asked, granted, histVars>>
         /\ \/ /\ DisconnectSession(client[c])
               /\ UNCHANGED <<conn, fin, queue, client, auth, known>>
            \/ /\ n \in Accounts /\ byName[n] \in Sessions /\ Transferable(byName[n])
               /\ Transfer(client[c], byName[n], ok)
               /\ auth' = [auth EXCEPT ![c] = n]
               /\ UNCHANGED net
<1>1. /\ client[c] \in Sessions /\ InUse(c)
      /\ ~fin[client[c]] /\ st[client[c]] = "ONCONNECTION"
      /\ acct' = [acct EXCEPT ![client[c]] = n]
  BY DEF LoginPacket, TypeOK
<1>2. UNCHANGED <<temp, seq, byName, count, tempCount, freeCnt, used, status>>
      /\ UNCHANGED <<asked, granted, histVars>>
  BY DEF LoginPacket, sessVars, poolVars, countVars
<1>3. \/ /\ DisconnectSession(client[c])
         /\ UNCHANGED <<conn, fin, queue, client, auth, known>>
      \/ /\ n # NULL /\ byName[n] # NULL /\ Transferable(byName[n])
         /\ Transfer(client[c], byName[n], ok)
         /\ auth' = [auth EXCEPT ![c] = n]
         /\ UNCHANGED net
  BY DEF LoginPacket
<1>4. n # NULL => n \in Accounts /\ (byName[n] # NULL => byName[n] \in Sessions)
  BY DEF TypeOK
<1> QED
  BY <1>1, <1>2, <1>3, <1>4

LEMMA LoginPacketSound ==
  ASSUME TypeOK, Sound, NEW c \in Conns, NEW n \in Accounts \cup {NULL}, NEW ok \in SendResults,
         LoginPacket(c, n, ok)
  PROVE  Sound'
<1> DEFINE s == client[c]
           t == byName[n]
<1>1. /\ s \in Sessions /\ st[s] = "ONCONNECTION"
      /\ acct' = [acct EXCEPT ![s] = n]
      /\ UNCHANGED <<temp, seq, byName, count, tempCount, freeCnt, used>>
  BY LoginPacketFacts
<1>2. \/ DisconnectSession(s) /\ UNCHANGED <<conn, fin, queue, client, auth, known>>
      \/ t \in Sessions /\ Transferable(t) /\ Transfer(s, t, ok) /\ UNCHANGED net
  BY LoginPacketFacts
<1> HIDE DEF s, t
<1>3. \A x \in Sessions \ {s} : acct'[x] = acct[x]
  BY <1>1 DEF TypeOK
<1>4. CASE DisconnectSession(s) /\ UNCHANGED <<conn, fin, queue, client, auth, known>>
  BY <1>1, <1>3, <1>4, LoginRefusedHangUp, HangUpSound
<1>5. CASE t \in Sessions /\ Transferable(t) /\ Transfer(s, t, ok) /\ UNCHANGED net
  <2>1. HandsOver(s, t, ok)
    BY <1>1, <1>5, TransferFacts
  <2>2. Push(s)
    BY <1>5 DEF Transfer
  <2> QED
    BY <1>1, <1>3, <1>5, <2>1, <2>2, LoginFoundSound
<1> QED
  BY <1>2, <1>4, <1>5

-----------------------------------------------------------------------------
(* The invariant *)

\* The history only grows.
LEMMA OverrunStays == ASSUME [Next]_vars, ~overrun' PROVE ~overrun
<1>1. CASE overrun' = overrun
  BY <1>1
<1>2. CASE Loop
  BY <1>2, Zenon DEF Loop
<1>3. Loop \/ overrun' = overrun
  BY Steps DEF OnConnect, OnDisconnect, LoginPacket, GateAllocReq, GateReleaseReq, Disconnect,
     ConnectionLost, ClientPacket, RegionBindReq, SendData, PacketForward, ConnectionTimeout, Shutdown, vars, histVars
<1> QED
  BY <1>1, <1>2, <1>3

LEMMA SoundStep == ASSUME TypeOK, Sound, [Next]_vars, ~overrun' PROVE Sound'
  BY Steps, OnConnectSound, OnDisconnectSound, LoginPacketSound, GateAllocReqSound,
     GateReleaseReqSound, DisconnectHangUp, LoopSound, SmallStepsHangUp, HangUpSound

LEMMA SoundStart == Init => Sound
<1> SUFFICES ASSUME Init PROVE Sound
  OBVIOUS
<1>1. \A s \in Sessions : ~Live(s)
  BY DEF Init, Live
<1>2. Filed = {} /\ Temps = {} /\ Cardinality({}) = 0
  BY <1>1, FS_EmptySet DEF Filed, Temps
<1>3. NamesExact /\ QueueExact
  BY <1>2 DEF Init, NamesExact, QueueExact, Queued
<1>4. PoolSound
  BY <1>2, GateAssumption DEF Init, PoolSound, Uint16
<1>5. ASSUME NEW s \in Sessions PROVE Fits(s) /\ Wired(s) /\ FailedOnly(s)
  BY <1>1 DEF Init, Fits, Wired, FailedOnly, StuckStates, DisconnectFirst
<1> QED
  BY <1>3, <1>4, <1>5 DEF Sound

LEMMA GateInvStep == GateInv /\ [Next]_vars => GateInv'
<1> SUFFICES ASSUME GateInv, [Next]_vars PROVE GateInv'
  OBVIOUS
<1>1. TypeOK'
  BY TypeStep DEF GateInv
<1>2. ASSUME ~overrun' PROVE Sound'
  BY <1>2, OverrunStays, SoundStep DEF GateInv
<1> QED
  BY <1>1, <1>2 DEF GateInv

LEMMA GateInvAlways == Spec => []GateInv
<1>1. Init => GateInv
  BY TypeStart, SoundStart DEF GateInv
<1> QED
  BY <1>1, GateInvStep, PTL DEF Spec

\* m_mSessionMapByName, the finalizing queue, the object pool and the three
\* counters agree, whatever clients, master and network do, as long as no pass
\* of _Loop meets two sessions.
THEOREM SessionBookkeepingAlways == Spec => []SessionBookkeeping
<1>1. GateInv => SessionBookkeeping
  BY DEF GateInv, Sound, SessionBookkeeping
<1> QED
  BY <1>1, GateInvAlways, PTL

\* The gate's own handlers, which test the state of a session before they use its
\* m_pConnection (CloseSession, OnMasterDisconnect, SendData, the refusal of a
\* login, the login timeout), never find it null.  Nothing is said about
\* _OnCommandPacketForward, which uses the pointer without testing the state.
THEOREM ConnectionThereAlways == Spec => []ConnectionThere
<1>1. GateInv => ConnectionThere
  BY DEF GateInv, Sound, Wired, ConnectionThere
<1> QED
  BY <1>1, GateInvAlways, PTL

-----------------------------------------------------------------------------
(* Connections and accounts, until a session is cleared under its           *)
(* connection.                                                              *)

\* The parts of OwnClient that the bookkeeping does not give.
OwnAccount(s) == conn[s] # NULL /\ ~temp[s] => auth[conn[s]] = acct[s]
OwnSession(c) ==
  InUse(c) /\ client[c] # NULL => conn[client[c]] = c \/ st[client[c]] = "HOLDCONNECTION"
Own == (\A s \in Sessions : OwnAccount(s)) /\ (\A c \in Conns : OwnSession(c))

OwnInv == GateInv /\ (~overrun /\ ~orphaned => Own)

\* A session allocated for an account and a connection that is its own.
LEMMA FiledConnection ==
  ASSUME TypeOK, Sound, NEW s \in Sessions, ~temp[s]
  PROVE  /\ Live(s) /\ st[s] \in FiledStates
         /\ conn[s] # NULL => conn[s] \in Conns /\ net[conn[s]] # "none" /\ client[conn[s]] = s
  BY DEF Sound, Fits, Wired, FiledStates, TypeOK

LEMMA HangUpOwn == ASSUME TypeOK, Sound, Own, HangsUp PROVE Own'
<1>1. \A s \in Sessions : OwnAccount(s)'
  BY FiledConnection DEF Own, OwnAccount, HangsUp
<1>2. ASSUME NEW c \in Conns PROVE OwnSession(c)'
  <2>1. InUse(c)' => InUse(c)
    BY DEF HangsUp, AsyncDisconnect, InUse, TypeOK
  <2>2. client[c] # NULL => client[c] \in Sessions
    BY DEF TypeOK
  <2>3. \A s \in Sessions : st[s] = "HOLDCONNECTION" => st'[s] = "HOLDCONNECTION"
    BY DEF HangsUp, Leaves
  <2> QED
    BY <2>1, <2>2, <2>3 DEF Own, OwnSession, HangsUp
<1> QED
  BY <1>1, <1>2 DEF Own

LEMMA OnConnectOwn == ASSUME TypeOK, Sound, Own, NEW c \in Conns, OnConnect(c) PROVE Own'
<1>1. /\ net[c] = "none" /\ auth' = [auth EXCEPT ![c] = NULL] /\ UNCHANGED acct
  BY DEF OnConnect
<1>2. \A d \in Conns \ {c} : auth'[d] = auth[d]
  BY <1>1 DEF TypeOK
<1>3. CASE ~Accepting \/ NoRoom
  <2>1. /\ \E x \in NetStates : net' = [net EXCEPT ![c] = x]
        /\ client' = [client EXCEPT ![c] = NULL]
        /\ UNCHANGED <<st, conn, temp>>
    BY <1>3 DEF OnConnect, NetStates
  <2>2. /\ client'[c] = NULL
        /\ \A d \in Conns \ {c} : net'[d] = net[d] /\ client'[d] = client[d]
    BY <2>1 DEF TypeOK
  <2>3. \A s \in Sessions : OwnAccount(s)'
    BY <1>1, <1>2, <2>1, FiledConnection DEF Own, OwnAccount
  <2>4. \A d \in Conns : OwnSession(d)'
    BY <2>1, <2>2 DEF Own, OwnSession, InUse
  <2> QED
    BY <2>3, <2>4 DEF Own
<1>4. CASE Accepting /\ ~NoRoom
  <2>1. PICK s \in Sessions : Allocate(s) /\ OnConnection(s, c)
    BY <1>4 DEF OnConnect
  <2>2. net' = [net EXCEPT ![c] = "up"]
    BY <1>4 DEF OnConnect
  <2>3. st[s] = "NONE" /\ conn[s] = NULL /\ temp[s]
    BY <2>1, Taken
  <2>4. /\ st' = [st EXCEPT ![s] = "ONCONNECTION"]
        /\ conn' = [conn EXCEPT ![s] = c]
        /\ client' = [client EXCEPT ![c] = s]
        /\ temp' = [temp EXCEPT ![s] = TRUE]
    BY <2>1, <2>3, WayIn DEF OnConnection
  <2>5. /\ conn'[s] = c /\ client'[c] = s /\ temp'[s]
        /\ \A x \in Sessions \ {s} : st'[x] = st[x] /\ conn'[x] = conn[x] /\ temp'[x] = temp[x]
        /\ \A d \in Conns \ {c} : net'[d] = net[d] /\ client'[d] = client[d]
    BY <2>2, <2>4 DEF TypeOK
  <2>6. \A x \in Sessions : OwnAccount(x)'
    BY <1>1, <1>2, <2>5, FiledConnection DEF Own, OwnAccount
  <2>7. ASSUME NEW d \in Conns PROVE OwnSession(d)'
    <3>1. CASE d = c
      BY <2>5, <3>1 DEF OwnSession
    <3>2. CASE d # c
      <4>1. OwnSession(d) /\ (client[d] # NULL => client[d] \in Sessions)
        BY DEF Own, TypeOK
      <4>2. InUse(d)' /\ client'[d] # NULL => InUse(d) /\ client[d] # NULL /\ client[d] # s
        BY <2>3, <2>5, <3>2, <4>1, GateAssumption DEF OwnSession, InUse
      <4> QED
        BY <2>5, <3>2, <4>1, <4>2 DEF OwnSession
    <3> QED
      BY <3>1, <3>2
  <2> QED
    BY <2>6, <2>7 DEF Own
<1> QED
  BY <1>3, <1>4

LEMMA OnDisconnectOwn ==
  ASSUME TypeOK, Sound, Own, NEW c \in Conns, NEW ok \in SendResults, OnDisconnect(c, ok)
  PROVE  Own'
<1>1. net[c] = "down" /\ UNCHANGED <<acct, temp, client, auth>>
  BY DEF OnDisconnect, sessVars, netVars
<1>2. CASE net' = [net EXCEPT ![c] = "lost"] /\ UNCHANGED <<st, conn>>
  <2>1. \A d \in Conns : InUse(d)' => InUse(d)
    BY <1>2 DEF InUse, TypeOK
  <2> QED
    BY <1>1, <1>2, <2>1 DEF Own, OwnAccount, OwnSession
<1>3. CASE /\ client[c] # NULL /\ Result(st[client[c]], "ONDISCONNECT") # INVALID
           /\ SessionOnDisconnect(client[c], c, ok)
  <2> DEFINE s == client[c]
  <2>1. s \in Sessions
    BY <1>3 DEF TypeOK
  <2>2. Ends(s, c) /\ net' = Closed(s, c)
    BY <1>3, <2>1, SessionOnDisconnectFacts DEF SessionOnDisconnect
  <2>3. conn[s] = c /\ \A d \in Conns \ {c} : InUse(d) => client[d] # s
    <3>1. st[s] # "HOLDCONNECTION"
      BY <1>3, EndRows
    <3>2. \A d \in Conns : OwnSession(d)
      BY DEF Own
    <3> QED
      BY <1>1, <1>3, <3>1, <3>2 DEF OwnSession, InUse
  <2> HIDE DEF s
  <2>4. \A x \in Sessions : OwnAccount(x)'
    BY <1>1, <2>2 DEF Ends, Own, OwnAccount
  <2>5. ASSUME NEW d \in Conns PROVE OwnSession(d)'
    <3>1. CASE d = c
      BY <1>1, <2>2, <2>3, <3>1 DEF Closed, OwnSession, InUse
    <3>2. CASE d # c
      <4>1. OwnSession(d) /\ (client[d] # NULL => client[d] \in Sessions) /\ net'[d] = net[d]
        BY <2>2, <2>3, <3>2 DEF Ends, Own, TypeOK
      <4> QED
        BY <1>1, <2>2, <2>3, <3>2, <4>1 DEF Ends, OwnSession, InUse
    <3> QED
      BY <3>1, <3>2
  <2> QED
    BY <2>4, <2>5 DEF Own
<1> QED
  BY <1>2, <1>3 DEF OnDisconnect

LEMMA LoginPacketOwn ==
  ASSUME TypeOK, Sound, Own, NEW c \in Conns, NEW n \in Accounts \cup {NULL}, NEW ok \in SendResults,
         LoginPacket(c, n, ok)
  PROVE  Own'
<1> DEFINE s == client[c]
           t == byName[n]
<1>1. /\ s \in Sessions /\ st[s] = "ONCONNECTION" /\ InUse(c)
      /\ acct' = [acct EXCEPT ![s] = n]
      /\ UNCHANGED <<temp, seq, byName, count, tempCount, freeCnt, used>>
  BY LoginPacketFacts
<1>2. \/ DisconnectSession(s) /\ UNCHANGED <<conn, client, auth>>
      \/ /\ n \in Accounts /\ t \in Sessions /\ Transferable(t) /\ Transfer(s, t, ok)
         /\ auth' = [auth EXCEPT ![c] = n] /\ UNCHANGED net
  BY LoginPacketFacts
<1>3. s # NULL /\ conn[s] = c /\ \A d \in Conns \ {c} : InUse(d) => client[d] # s
  <2>1. \A d \in Conns : OwnSession(d)
    BY DEF Own
  <2> QED
    BY <1>1, <2>1, GateAssumption DEF OwnSession
<1>4. acct'[s] = n /\ \A x \in Sessions \ {s} : acct'[x] = acct[x]
  BY <1>1 DEF TypeOK
<1>5. client[c] = s
  OBVIOUS
<1>6. t \in Sessions /\ n \in Accounts => ~temp[t] /\ acct[t] = n
  BY GateAssumption DEF Sound, NamesExact, Filed
<1> HIDE DEF s, t
<1>7. CASE DisconnectSession(s) /\ UNCHANGED <<conn, client, auth>>
  BY <1>1, <1>4, <1>7, LoginRefusedHangUp, HangUpOwn
<1>8. CASE /\ n \in Accounts /\ t \in Sessions /\ Transferable(t) /\ Transfer(s, t, ok)
           /\ auth' = [auth EXCEPT ![c] = n] /\ UNCHANGED net
  <2>1. HandsOver(s, t, ok)
    BY <1>1, <1>8, TransferFacts
  <2>2. temp[s]
    BY <1>1 DEF Sound, Fits, FiledStates
  <2>3. /\ client'[c] = t /\ auth'[c] = n
        /\ \A d \in Conns \ {c} : client'[d] = client[d] /\ auth'[d] = auth[d]
    BY <1>3, <1>8, <2>1 DEF HandsOver, TypeOK
  <2>4. ASSUME NEW x \in Sessions PROVE OwnAccount(x)'
    <3>1. CASE x = s
      BY <1>1, <2>2, <3>1 DEF OwnAccount
    <3>2. CASE x = t
      BY <1>3, <1>4, <1>6, <1>8, <2>1, <2>3, <3>2 DEF HandsOver, OwnAccount
    <3>3. CASE x # s /\ x # t
      <4>1. conn'[x] = conn[x] /\ acct'[x] = acct[x] /\ temp'[x] = temp[x] /\ OwnAccount(x)
        BY <1>1, <1>4, <2>1, <3>3 DEF HandsOver, Own
      <4>2. ~temp[x] /\ conn[x] # NULL => conn[x] \in Conns /\ conn[x] # c
        BY <1>5, <3>3, FiledConnection
      <4> QED
        BY <2>3, <4>1, <4>2 DEF OwnAccount
    <3> QED
      BY <3>1, <3>2, <3>3
  <2>5. ASSUME NEW d \in Conns PROVE OwnSession(d)'
    <3>1. CASE d = c
      BY <1>3, <2>1, <2>3, <3>1 DEF HandsOver, OwnSession
    <3>2. CASE d # c
      <4>1. OwnSession(d) /\ (client[d] # NULL => client[d] \in Sessions) /\ client'[d] = client[d]
        BY <2>3, <3>2 DEF Own, TypeOK
      <4>2. InUse(d)' <=> InUse(d)
        BY <1>8 DEF InUse
      <4>3. CASE client[d] = t /\ InUse(d)
        <5>1. st[t] = "GATEALLOCACK" => conn[t] = NULL
          BY <1>8 DEF Sound, Wired
        <5>2. t # NULL /\ d # NULL
          BY <1>8, GateAssumption
        <5>3. st[t] = "HOLDCONNECTION"
          BY <2>1, <4>1, <4>3, <5>1, <5>2 DEF HandsOver, OwnSession
        <5> QED
          BY <2>1, <4>1, <4>3, <5>3 DEF HandsOver, OwnSession
      <4>4. CASE client[d] # t \/ ~InUse(d)
        BY <1>3, <2>1, <3>2, <4>1, <4>2, <4>4 DEF HandsOver, OwnSession
      <4> QED
        BY <4>3, <4>4
    <3> QED
      BY <3>1, <3>2
  <2> QED
    BY <2>4, <2>5 DEF Own
<1> QED
  BY <1>2, <1>7, <1>8

LEMMA GateReleaseReqHangUp ==
  ASSUME TypeOK, NEW n \in Accounts, GateReleaseReq(n)
  PROVE  /\ HangsUp
         /\ UNCHANGED <<st, acct, known, overrun, orphaned, status>>
         /\ MasterDrops(n)
         /\ IF byName[n] = NULL THEN UNCHANGED <<queue, fin, net>> ELSE Release(byName[n])
<1>1. /\ UNCHANGED <<st, conn, acct, seq, temp, freeCnt, used, byName, count, tempCount, client, auth>>
      /\ UNCHANGED <<known, overrun, orphaned, status>>
  BY DEF GateReleaseReq, MasterDrops, sessVars, poolVars, countVars, netVars, histVars
<1>2. /\ MasterDrops(n)
      /\ IF byName[n] = NULL THEN UNCHANGED <<queue, fin, net>> ELSE Release(byName[n])
  BY DEF GateReleaseReq
<1>3. net' = net \/ \E x : net' = AsyncDisconnect(x)
  BY <1>2 DEF Release
<1> QED
  BY <1>1, <1>2, <1>3 DEF HangsUp

\* OnGateAllocReq in short: session s is filed under account n, and the master
\* learns its id unless that could not be sent.
Grants(s, n, ok) ==
  /\ byName[n] = NULL /\ ~Live(s) /\ st[s] = "NONE" /\ conn[s] = NULL /\ ~fin[s] /\ temp[s]
  /\ st'[s] = IF ok THEN "GATEALLOCACK" ELSE "ONGATEALLOCREQ"
  /\ acct'[s] = n /\ ~temp'[s] /\ byName'[n] = s
  /\ \A x \in Sessions : Live(x)' <=> Live(x) \/ x = s
  /\ \A x \in Sessions \ {s} : /\ st'[x] = st[x] /\ acct'[x] = acct[x] /\ temp'[x] = temp[x]
                               /\ seq'[x] = seq[x]
  /\ \A m \in Accounts \ {n} : byName'[m] = byName[m] /\ granted'[m] = granted[m]
  /\ granted'[n] = IF ok THEN <<s, seq'[s]>> ELSE NULL
  /\ s \in DOMAIN seq' /\ seq'[s] # seq[s]

LEMMA GateAllocReqFacts ==
  ASSUME TypeOK, Sound, NEW n \in Accounts, NEW ok \in SendResults, GateAllocReq(n, ok)
  PROVE  /\ UNCHANGED <<conn, fin, queue, net, client, auth, known, status>>
         /\ UNCHANGED <<overrun, orphaned>>
         /\ asked' = asked \cup {n}
         /\ \/ HangsUp /\ UNCHANGED <<st, acct, granted>>
            \/ \E s \in Sessions : Grants(s, n, ok)
<1>1. /\ UNCHANGED <<conn, fin, queue, net, tempCount, client, auth, known, status>>
      /\ UNCHANGED <<overrun, orphaned>>
      /\ asked' = asked \cup {n}
  BY DEF GateAllocReq, netVars, histVars
<1>2. CASE UNCHANGED <<st, acct, seq, temp, byName, count, poolVars, granted>>
  <2>1. HangsUp
    BY <1>1, <1>2 DEF HangsUp, poolVars
  <2> QED
    BY <1>1, <1>2, <2>1
<1>3. ASSUME NEW s \in Sessions, byName[n] = NULL, Allocate(s),
             byName' = [byName EXCEPT ![n] = s], SessionOnGateAllocReq(s, n, ok)
      PROVE  Grants(s, n, ok)
  <2>1. /\ ~Live(s) /\ st[s] = "NONE" /\ conn[s] = NULL /\ temp[s] /\ ~fin[s]
        /\ \A x \in Sessions : Live(x)' <=> Live(x) \/ x = s
    BY <1>3, Taken
  <2> DEFINE q == (seq[s] + 1) % 256
  <2>2. /\ st' = [st EXCEPT ![s] = IF ok THEN "GATEALLOCACK" ELSE "ONGATEALLOCREQ"]
        /\ seq' = [seq EXCEPT ![s] = q]
        /\ acct' = [acct EXCEPT ![s] = n]
        /\ temp' = [temp EXCEPT ![s] = FALSE]
        /\ granted' = [granted EXCEPT ![n] = IF ok THEN <<s, q>> ELSE NULL]
    BY <1>3, <2>1, WayIn DEF SessionOnGateAllocReq
  <2>3. q # seq[s]
    BY DEF TypeOK, Uint8
  <2> HIDE DEF q
  <2>4. /\ seq'[s] = q /\ s \in DOMAIN seq'
        /\ \A x \in Sessions \ {s} : /\ st'[x] = st[x] /\ acct'[x] = acct[x] /\ temp'[x] = temp[x]
                                     /\ seq'[x] = seq[x]
    BY <2>2 DEF TypeOK
  <2>5. /\ st'[s] = IF ok THEN "GATEALLOCACK" ELSE "ONGATEALLOCREQ"
        /\ acct'[s] = n /\ ~temp'[s]
    BY <2>2 DEF TypeOK
  <2>6. /\ byName'[n] = s
        /\ granted'[n] = IF ok THEN <<s, seq'[s]>> ELSE NULL
        /\ \A m \in Accounts \ {n} : byName'[m] = byName[m] /\ granted'[m] = granted[m]
    BY <1>3, <2>2, <2>4 DEF TypeOK
  <2> QED
    BY <1>3, <2>1, <2>3, <2>4, <2>5, <2>6 DEF Grants
<1>4. \/ UNCHANGED <<st, acct, seq, temp, byName, count, poolVars, granted>>
      \/ /\ byName[n] = NULL
         /\ \E s \in Sessions : /\ Allocate(s) /\ byName' = [byName EXCEPT ![n] = s]
                                /\ SessionOnGateAllocReq(s, n, ok)
  BY DEF GateAllocReq
<1> QED
  BY <1>1, <1>2, <1>3, <1>4

\* A pass of _Loop, in short: the only queued session s goes back to the pool.
Clears(s) ==
  /\ fin[s] /\ Live(s) /\ ~Live(s)' /\ st'[s] = "NONE" /\ conn'[s] = NULL /\ temp'[s]
  /\ \A x \in Sessions \ {s} :
       /\ st'[x] = st[x] /\ conn'[x] = conn[x] /\ acct'[x] = acct[x] /\ temp'[x] = temp[x]
       /\ fin'[x] = fin[x] /\ (Live(x)' <=> Live(x))
  /\ seq' = seq
  /\ \A m \in Accounts : byName'[m] # byName[m] => byName[m] = s
  /\ orphaned' = (orphaned \/ \E c \in Conns : InUse(c) /\ client[c] = s)

LEMMA LoopFacts ==
  ASSUME TypeOK, Sound, Loop, ~overrun'
  PROVE  /\ UNCHANGED <<net, client, auth, asked, granted, known>>
         /\ \/ HangsUp /\ UNCHANGED <<st, acct, fin, queue, orphaned>>
            \/ \E s \in Sessions : Clears(s)
<1>1. /\ UNCHANGED <<net, client, auth, asked, granted, known>>
      /\ Drain
  BY DEF Loop, netVars, masterVars
<1>2. Len(queue) \in {0, 1}
  <2>1. Len(queue) \in Nat
    BY DEF TypeOK
  <2>2. ~(Len(queue) > 1)
    BY Zenon DEF Loop
  <2> DEFINE n == Len(queue)
  <2>3. n \in Nat /\ ~(n > 1)
    BY <2>1, <2>2
  <2> HIDE DEF n
  <2>4. n \in {0, 1}
    BY <2>3
  <2> QED
    BY <2>4 DEF n
<1>3. CASE Len(queue) = 0
  <2>1. /\ UNCHANGED <<st, conn, acct, fin, queue, temp, seq, freeCnt, used, byName, count, tempCount>>
        /\ UNCHANGED orphaned
    BY <1>1, <1>3 DEF Drain, sessVars, poolVars, countVars
  <2> QED
    BY <1>1, <2>1 DEF HangsUp
<1>4. CASE Len(queue) = 1
  <2>1. PICK s \in Sessions :
          /\ s = queue[1] /\ ClearSession(s, 1)
          /\ orphaned' = (orphaned \/ \E c \in Conns : InUse(c) /\ client[c] = s)
    <3>1. queue[1] \in Sessions /\ 1 # 0
      <4>1. queue \in Seq(Sessions)
        BY DEF TypeOK
      <4> QED
        BY <1>4, <4>1
    <3>2. /\ ClearSession(queue[1], 1)
          /\ orphaned' = (orphaned \/ \E c \in Conns : InUse(c) /\ client[c] = queue[1])
      BY <1>1, <1>4, <3>1, Zenon DEF Drain
    <3> QED
      BY <3>1, <3>2, Zenon
  <2>2. fin[s] /\ Live(s)
    <3>1. Queued(s)
      BY <1>4, <2>1 DEF Queued
    <3> QED
      BY <3>1 DEF Sound, QueueExact
  <2>3. /\ st' = [st EXCEPT ![s] = "NONE"] /\ conn' = [conn EXCEPT ![s] = NULL]
        /\ acct' = [acct EXCEPT ![s] = NULL] /\ temp' = [temp EXCEPT ![s] = TRUE]
        /\ fin' = [fin EXCEPT ![s] = FALSE] /\ seq' = seq
        /\ freeCnt' = [freeCnt EXCEPT ![s] = @ + 1]
    BY <2>1 DEF ClearSession, Clear, Free
  <2>4. /\ st'[s] = "NONE" /\ conn'[s] = NULL /\ temp'[s] /\ freeCnt'[s] = 1
        /\ \A x \in Sessions \ {s} :
             /\ st'[x] = st[x] /\ conn'[x] = conn[x] /\ acct'[x] = acct[x] /\ temp'[x] = temp[x]
             /\ fin'[x] = fin[x] /\ freeCnt'[x] = freeCnt[x]
    BY <2>2, <2>3 DEF TypeOK, Live
  <2>5. \A m \in Accounts : byName'[m] # byName[m] => byName[m] = s
    <3>1. CASE temp[s]
      BY <2>1, <3>1 DEF ClearSession
    <3>2. CASE ~temp[s]
      <4>1. byName' = [byName EXCEPT ![acct[s]] = NULL] /\ s \in Filed
        BY <2>1, <2>2, <3>2 DEF ClearSession, Filed
      <4>2. byName[acct[s]] = s
        BY <4>1 DEF Sound, NamesExact
      <4> QED
        BY <4>1, <4>2 DEF TypeOK
    <3> QED
      BY <3>1, <3>2
  <2>6. Clears(s)
    <3>1. ~Live(s)' /\ \A x \in Sessions \ {s} : Live(x)' <=> Live(x)
      <4>1. freeCnt'[s] = 1 /\ \A x \in Sessions \ {s} : freeCnt'[x] = freeCnt[x]
        BY <2>4
      <4> QED
        BY <4>1 DEF Live
    <3> QED
      BY <2>1, <2>2, <2>3, <2>4, <2>5, <3>1, Zenon DEF Clears
  <2> QED
    BY <1>1, <2>1, <2>6
<1> QED
  BY <1>2, <1>3, <1>4

LEMMA GateAllocReqOwn ==
  ASSUME TypeOK, Sound, Own, NEW n \in Accounts, NEW ok \in SendResults, GateAllocReq(n, ok)
  PROVE  Own'
<1>1. UNCHANGED <<conn, net, client, auth>>
  BY GateAllocReqFacts
<1>2. CASE HangsUp
  BY <1>2, HangUpOwn
<1>3. ASSUME NEW s \in Sessions, Grants(s, n, ok) PROVE Own'
  <2>1. \A x \in Sessions : OwnAccount(x)'
    BY <1>1, <1>3 DEF Own, OwnAccount, Grants
  <2>2. ASSUME NEW c \in Conns PROVE OwnSession(c)'
    <3>1. OwnSession(c) /\ (client[c] # NULL => client[c] \in Sessions) /\ c # NULL
      BY GateAssumption DEF Own, TypeOK
    <3> QED
      BY <1>1, <1>3, <3>1 DEF OwnSession, Grants, InUse
  <2> QED
    BY <2>1, <2>2 DEF Own
<1> QED
  BY <1>2, <1>3, GateAllocReqFacts

LEMMA LoopOwn == ASSUME TypeOK, Sound, Own, Loop, ~overrun', ~orphaned' PROVE Own'
<1>1. UNCHANGED <<net, client, auth>>
  BY LoopFacts
<1>2. CASE HangsUp
  BY <1>2, HangUpOwn
<1>3. ASSUME NEW s \in Sessions, Clears(s) PROVE Own'
  <2>1. \A c \in Conns : ~(InUse(c) /\ client[c] = s)
    BY <1>3, Zenon DEF Clears
  <2>2. \A x \in Sessions : OwnAccount(x)'
    BY <1>1, <1>3 DEF Own, OwnAccount, Clears
  <2>3. ASSUME NEW c \in Conns PROVE OwnSession(c)'
    <3>1. OwnSession(c) /\ (client[c] # NULL => client[c] \in Sessions)
      BY DEF Own, TypeOK
    <3> QED
      BY <1>1, <1>3, <2>1, <3>1 DEF OwnSession, Clears, InUse
  <2> QED
    BY <2>2, <2>3 DEF Own
<1> QED
  BY <1>2, <1>3, LoopFacts

LEMMA OrphanedStays == ASSUME TypeOK, Sound, [Next]_vars, ~overrun', ~orphaned' PROVE ~orphaned
<1>1. CASE orphaned' = orphaned
  BY <1>1
<1>2. CASE Loop
  <2>1. UNCHANGED orphaned \/ \E s \in Sessions : Clears(s)
    BY <1>2, LoopFacts
  <2>2. ASSUME NEW s \in Sessions, Clears(s) PROVE ~orphaned
    BY <2>2, Zenon DEF Clears
  <2> QED
    BY <2>1, <2>2
<1>3. Loop \/ orphaned' = orphaned
  BY Steps DEF OnConnect, OnDisconnect, LoginPacket, GateAllocReq, GateReleaseReq, Disconnect,
     ConnectionLost, ClientPacket, RegionBindReq, SendData, PacketForward, ConnectionTimeout, Shutdown, vars, histVars
<1> QED
  BY <1>1, <1>2, <1>3

LEMMA OwnStep == ASSUME TypeOK, Sound, Own, [Next]_vars, ~overrun', ~orphaned' PROVE Own'
  BY Steps, OnConnectOwn, OnDisconnectOwn, LoginPacketOwn, GateAllocReqOwn, GateReleaseReqHangUp,
     DisconnectHangUp, LoopOwn, SmallStepsHangUp, HangUpOwn

\* A connection's commands reach the session that works on it, no session past
\* the login talks to a client that logged in with another account, and only a
\* session left in HOLDCONNECTION is ever given a second connection: until a
\* pass of _Loop meets two sessions or clears one under its connection.
THEOREM OwnClientAlways == Spec => []OwnClient
<1>1. Init => OwnInv
  <2>1. ASSUME Init PROVE Own
    BY <2>1 DEF Init, Own, OwnAccount, OwnSession
  <2> QED
    BY <2>1, TypeStart, SoundStart DEF OwnInv, GateInv
<1>2. OwnInv /\ [Next]_vars => OwnInv'
  <2> SUFFICES ASSUME OwnInv, [Next]_vars PROVE OwnInv'
    OBVIOUS
  <2>1. GateInv'
    BY GateInvStep DEF OwnInv
  <2>2. ASSUME ~overrun', ~orphaned' PROVE Own'
    <3>1. ~overrun /\ TypeOK /\ Sound
      BY <2>2, OverrunStays DEF OwnInv, GateInv
    <3> QED
      BY <2>2, <3>1, OrphanedStays, OwnStep DEF OwnInv
  <2> QED
    BY <2>1, <2>2 DEF OwnInv
<1>3. OwnInv => OwnClient
  BY DEF OwnInv, GateInv, Sound, Wired, Own, OwnAccount, OwnSession, OwnClient
<1> QED
  BY <1>1, <1>2, <1>3, PTL DEF Spec

-----------------------------------------------------------------------------
(* What the master was granted *)

\* The session granted for account n is on file under its id, and not queued:
\* whatever queues it takes the grant away in the same step.
Grant(n) ==
  granted[n] # NULL =>
    /\ byName[n] = granted[n][1] /\ SessionId(byName[n]) = granted[n]
    /\ ~fin[byName[n]]

GrantInv == GateInv /\ (~overrun /\ Accepting => \A n \in Accounts : Grant(n))

\* A grant that a step leaves alone or takes away.
LEMMA GrantSame ==
  ASSUME NEW n \in Accounts, Grant(n), granted'[n] = granted[n] \/ granted'[n] = NULL,
         granted'[n] # NULL =>
           /\ byName'[n] = byName[n] /\ seq'[byName[n]] = seq[byName[n]]
           /\ fin'[byName[n]] => fin[byName[n]]
  PROVE  Grant(n)'
  BY DEF Grant, SessionId

\* The session on file for an account.
LEMMA OnFile ==
  ASSUME TypeOK, Sound, NEW n \in Accounts, byName[n] # NULL
  PROVE  /\ byName[n] \in Sessions /\ Live(byName[n]) /\ ~temp[byName[n]] /\ acct[byName[n]] = n
         /\ byName[n] \in Filed
  BY DEF Sound, NamesExact, Filed

LEMMA GrantOnFile ==
  ASSUME TypeOK, NEW n \in Accounts, Grant(n), granted[n] # NULL PROVE byName[n] # NULL
<1>1. granted[n] \in Sessions \X Uint8
  BY DEF TypeOK, SessionIds
<1> QED
  BY <1>1, GateAssumption DEF Grant

LEMMA SameQueueGrants ==
  ASSUME UNCHANGED <<byName, seq, fin>>, NEW n \in Accounts, Grant(n),
         granted'[n] = granted[n] \/ granted'[n] = NULL
  PROVE  Grant(n)'
  BY GrantSame

\* What _OnCommandOnConnect leaves alone.
LEMMA OnConnectFacts ==
  ASSUME TypeOK, Sound, NEW c \in Conns, OnConnect(c)
  PROVE  /\ UNCHANGED <<acct, fin, byName, asked, granted, known, status>> /\ Filed' = Filed
         /\ net[c] = "none" /\ \A d \in Conns \ {c} : net'[d] = net[d]
         /\ \A x \in Sessions : Live(x) => st'[x] = st[x] /\ conn'[x] = conn[x] /\ seq'[x] = seq[x]
<1>1. UNCHANGED <<acct, fin, byName, asked, granted, known, status>> /\ net[c] = "none"
  BY DEF OnConnect, masterVars
<1>2. \A d \in Conns \ {c} : net'[d] = net[d]
  BY DEF OnConnect, TypeOK
<1>3. CASE UNCHANGED <<st, seq, conn, temp, freeCnt>>
  <2>1. Filed' = Filed
    BY <1>3 DEF Filed, Live
  <2> QED
    BY <1>1, <1>2, <1>3, <2>1
<1>4. ASSUME NEW s \in Sessions, Allocate(s), OnConnection(s, c)
      PROVE  /\ Filed' = Filed
             /\ \A x \in Sessions : Live(x) => st'[x] = st[x] /\ conn'[x] = conn[x] /\ seq'[x] = seq[x]
  <2>1. ~Live(s) /\ (\A x \in Sessions : Live(x)' <=> Live(x) \/ x = s)
    BY <1>4, Taken
  <2>2. /\ temp'[s] = TRUE
        /\ \A x \in Sessions \ {s} : /\ st'[x] = st[x] /\ conn'[x] = conn[x] /\ seq'[x] = seq[x]
                                     /\ temp'[x] = temp[x]
    BY <1>4 DEF OnConnection, TypeOK
  <2>3. Filed' = Filed
    BY <2>1, <2>2 DEF Filed
  <2> QED
    BY <2>1, <2>2, <2>3
<1>5. \/ UNCHANGED <<st, seq, conn, temp, freeCnt>>
      \/ \E s \in Sessions : Allocate(s) /\ OnConnection(s, c)
  BY DEF OnConnect, poolVars
<1> QED
  BY <1>1, <1>2, <1>3, <1>4, <1>5

\* What _OnCommandOnDisconnect does to the master's side and to the queue.
LEMMA OnDisconnectFacts ==
  ASSUME TypeOK, NEW c \in Conns, NEW ok \in SendResults, OnDisconnect(c, ok)
  PROVE  /\ UNCHANGED <<byName, seq, acct, temp, freeCnt, status, known>>
         /\ \/ UNCHANGED <<st, conn, fin, queue, asked, granted>>
            \/ /\ client[c] \in Sessions /\ Push(client[c]) /\ MasterForgets(SessionId(client[c]))
            \/ ~Accepting /\ UNCHANGED <<asked, granted>>
            \/ UNCHANGED <<fin, queue, asked, granted>>
<1>1. UNCHANGED <<byName, seq, acct, temp, freeCnt, status>>
  BY DEF OnDisconnect, sessVars, poolVars, countVars
<1>2. CASE UNCHANGED <<st, conn, fin, queue, masterVars>>
  BY <1>1, <1>2 DEF masterVars
<1>3. CASE client[c] # NULL /\ SessionOnDisconnect(client[c], c, ok)
  <2>1. client[c] \in Sessions
    BY <1>3 DEF TypeOK
  <2>2. \/ Push(client[c]) /\ MasterForgets(SessionId(client[c]))
        \/ status = "START_SHUTDOWN" /\ UNCHANGED masterVars
        \/ UNCHANGED <<fin, queue, masterVars>>
    BY <1>3 DEF SessionOnDisconnect
  <2> QED
    BY <1>1, <2>1, <2>2 DEF MasterForgets, masterVars, Accepting
<1> QED
  BY <1>2, <1>3 DEF OnDisconnect

LEMMA GrantStep ==
  ASSUME TypeOK, Sound, \A n \in Accounts : Grant(n), [Next]_vars, ~overrun', Accepting', Accepting,
         NEW n \in Accounts
  PROVE  Grant(n)'
<1>1. Grant(n) /\ (granted[n] # NULL => byName[n] # NULL)
  BY GrantOnFile
<1>2. ASSUME NEW c \in Conns, OnConnect(c) PROVE Grant(n)'
  <2>1. /\ UNCHANGED <<acct, fin, byName, granted>>
        /\ \A x \in Sessions : Live(x) => seq'[x] = seq[x]
    BY <1>2, OnConnectFacts
  <2> QED
    BY <1>1, <2>1, OnFile, GrantSame
<1>3. ASSUME NEW c \in Conns, NEW ok \in SendResults, OnDisconnect(c, ok) PROVE Grant(n)'
  <2>1. UNCHANGED <<byName, seq>>
    BY <1>3, OnDisconnectFacts
  <2>2. CASE UNCHANGED <<fin, granted>>
    BY <1>1, <2>1, <2>2, SameQueueGrants
  <2>3. CASE client[c] \in Sessions /\ Push(client[c]) /\ MasterForgets(SessionId(client[c]))
    <3>1. granted'[n] = IF granted[n] = SessionId(client[c]) THEN NULL ELSE granted[n]
      BY <2>3 DEF MasterForgets
    <3>2. \A x \in Sessions \ {client[c]} : fin'[x] = fin[x]
      BY <2>3 DEF Push, TypeOK
    <3>3. granted'[n] # NULL => byName[n] # client[c]
      BY <1>1, <3>1 DEF Grant
    <3> QED
      BY <1>1, <2>1, <3>1, <3>2, <3>3, OnFile, GrantSame
  <2> QED
    BY <1>3, <2>2, <2>3, OnDisconnectFacts
<1>4. ASSUME NEW c \in Conns, NEW m \in Accounts \cup {NULL}, NEW ok \in SendResults,
             LoginPacket(c, m, ok)
      PROVE  Grant(n)'
  <2>1. /\ UNCHANGED <<byName, seq, granted>> /\ client[c] \in Sessions
        /\ st[client[c]] = "ONCONNECTION"
        /\ UNCHANGED fin \/ Push(client[c])
    BY <1>4, LoginPacketFacts DEF Transfer
  <2>2. \A x \in Sessions \ {client[c]} : fin'[x] = fin[x]
    BY <2>1 DEF Push, TypeOK
  <2>3. temp[client[c]]
    BY <2>1 DEF Sound, Fits, FiledStates
  <2>4. byName[n] # NULL => byName[n] \in Sessions \ {client[c]}
    BY <2>3, OnFile
  <2> QED
    BY <1>1, <2>1, <2>2, <2>4, GrantSame
<1>5. ASSUME NEW m \in Accounts, NEW ok \in SendResults, GateAllocReq(m, ok) PROVE Grant(n)'
  <2>1. CASE HangsUp /\ UNCHANGED <<granted, fin>>
    BY <1>1, <2>1, SameQueueGrants DEF HangsUp
  <2>2. ASSUME NEW s \in Sessions, Grants(s, m, ok), UNCHANGED fin PROVE Grant(n)'
    <3>1. CASE m = n
      BY <2>2, <3>1 DEF Grants, Grant, SessionId
    <3>2. CASE m # n
      <4>1. byName[n] # NULL => byName[n] \in Sessions /\ byName[n] # s
        BY <2>2, OnFile DEF Grants
      <4> QED
        BY <1>1, <2>2, <3>2, <4>1, GrantSame DEF Grants
    <3> QED
      BY <3>1, <3>2
  <2> QED
    BY <1>5, <2>1, <2>2, GateAllocReqFacts
<1>6. ASSUME NEW m \in Accounts, GateReleaseReq(m) PROVE Grant(n)'
  <2>1. /\ UNCHANGED <<byName, seq>> /\ granted' = [granted EXCEPT ![m] = NULL]
        /\ byName[m] = NULL \/ ~Push(byName[m]) => UNCHANGED fin
    BY <1>6, GateReleaseReqHangUp DEF HangsUp, MasterDrops, Release
  <2>2. CASE m = n
    BY <2>1, <2>2 DEF Grant, TypeOK
  <2>3. CASE m # n
    <3>1. granted'[n] = granted[n]
      BY <2>1, <2>3 DEF TypeOK
    <3>2. byName[n] # NULL => (fin'[byName[n]] => fin[byName[n]])
      <4>1. byName[n] # NULL => byName[n] \in Sessions /\ byName[n] # byName[m]
        BY <2>3, OnFile
      <4>2. byName[m] # NULL /\ Push(byName[m]) => \A x \in Sessions \ {byName[m]} : fin'[x] = fin[x]
        BY OnFile DEF Push, TypeOK
      <4> QED
        BY <2>1, <4>1, <4>2
    <3> QED
      BY <1>1, <2>1, <3>1, <3>2, GrantSame
  <2> QED
    BY <2>2, <2>3
<1>7. ASSUME NEW sid \in known, Disconnect(sid) PROVE Grant(n)'
  <2>1. UNCHANGED <<byName, seq, fin>>
    BY <1>7, DisconnectHangUp DEF HangsUp
  <2>2. granted'[n] = granted[n] \/ granted'[n] = NULL
    BY <1>7 DEF Disconnect
  <2> QED
    BY <1>1, <2>1, <2>2, SameQueueGrants
<1>8. CASE Loop
  <2>1. UNCHANGED granted
    BY <1>8, LoopFacts
  <2>2. CASE HangsUp /\ UNCHANGED fin
    BY <1>1, <2>1, <2>2, SameQueueGrants DEF HangsUp
  <2>3. ASSUME NEW s \in Sessions, Clears(s) PROVE Grant(n)'
    <3>1. granted[n] # NULL => byName[n] # s /\ byName[n] \in Sessions
      BY <1>1, <2>3, OnFile DEF Clears, Grant
    <3> QED
      BY <1>1, <2>1, <2>3, <3>1, GrantSame DEF Clears
  <2> QED
    BY <1>8, <2>2, <2>3, LoopFacts
<1>9. ASSUME HangsUp, UNCHANGED <<granted, fin>> PROVE Grant(n)'
  BY <1>1, <1>9, SameQueueGrants DEF HangsUp
<1> QED
  BY <1>2, <1>3, <1>4, <1>5, <1>6, <1>7, <1>8, <1>9, Steps, SmallStepsHangUp

\* Shutdown is for good.
LEMMA ShutdownStays == ASSUME [Next]_vars, Accepting' PROVE Accepting
  BY Steps DEF OnConnect, OnDisconnect, LoginPacket, GateAllocReq, GateReleaseReq, Disconnect,
     ConnectionLost, ClientPacket, RegionBindReq, SendData, PacketForward, ConnectionTimeout, Shutdown, Loop, vars,
     Accepting

\* Until the gate shuts down, a session id that the master holds for an account
\* names the session on file for that account: the gate never clears, reuses or
\* renames a session behind the master's back.
THEOREM GrantedSessionsExistAlways == Spec => []GrantedSessionsExist
<1>1. Init => GrantInv
  <2>1. ASSUME Init, NEW n \in Accounts PROVE Grant(n)
    BY <2>1 DEF Init, Grant
  <2> QED
    BY <2>1, TypeStart, SoundStart DEF GrantInv, GateInv
<1>2. GrantInv /\ [Next]_vars => GrantInv'
  <2> SUFFICES ASSUME GrantInv, [Next]_vars PROVE GrantInv'
    OBVIOUS
  <2>1. GateInv'
    BY GateInvStep DEF GrantInv
  <2>2. ASSUME ~overrun', Accepting', NEW n \in Accounts PROVE Grant(n)'
    <3>1. ~overrun /\ Accepting
      BY <2>2, OverrunStays, ShutdownStays
    <3>2. TypeOK /\ Sound /\ \A m \in Accounts : Grant(m)
      BY <3>1 DEF GrantInv, GateInv
    <3> QED
      BY <2>2, <3>1, <3>2, GrantStep
  <2> QED
    BY <2>1, <2>2 DEF GrantInv
<1>3. GrantInv => GrantedSessionsExist
  <2> SUFFICES ASSUME GrantInv, ~overrun, Accepting, NEW n \in Accounts, granted[n] # NULL
               PROVE  byName[n] = granted[n][1] /\ GetSession(granted[n]) = byName[n]
    BY DEF GrantedSessionsExist
  <2>1. byName[n] = granted[n][1] /\ SessionId(byName[n]) = granted[n]
    BY DEF GrantInv, Grant
  <2>2. seq[granted[n][1]] = granted[n][2]
    BY <2>1 DEF SessionId
  <2> QED
    BY <2>1, <2>2 DEF GetSession
<1> QED
  BY <1>1, <1>2, <1>3, PTL DEF Spec

-----------------------------------------------------------------------------
(* Sessions the master has given up.  An id announced to the master stays    *)
(* usable in its commands; m_iSeqNo has eight bits, so that after 256 uses   *)
(* of a session an old id would name it again.  What follows is for          *)
(* behaviours where no session gets an id that was announced before.         *)

IdsFresh == \A s \in Sessions : seq'[s] # seq[s] => SessionId(s)' \notin known

\* What AbandonedSessionsEnd says of session s.
Kept(s) ==
  \/ granted[acct[s]] = SessionId(s) \/ fin[s]
  \/ st[s] = "ONGATEALLOCREQ" /\ acct[s] \in asked
  \/ FALSE \in SendResults /\ st[s] \in StuckStates
  \/ IF conn[s] = NULL THEN FALSE ELSE net[conn[s]] = "down"

\* The master has no id before the answer was sent.
Early(s) == st[s] = "ONGATEALLOCREQ" => granted[acct[s]] = NULL

\* Its id is announced once the client has logged in.
Late(s) ==
  SessionId(s) \in known =>
    st[s] \in {"GATELOGINREQ", "DISCONNECT", "HOLDCONNECTION", "ONDISCONNECT", "ONMASTERDISCONNECT"}

Watched(s) == Kept(s) /\ Early(s) /\ Late(s)

WatchInv == GateInv /\ (~overrun => \A s \in Filed : Watched(s))

\* What the master has of session s stays, or it gives up an older id.
MasterKeeps(s) ==
  \/ granted'[acct[s]] = granted[acct[s]] /\ (acct[s] \in asked => acct[s] \in asked')
  \/ granted[acct[s]] \notin {NULL, SessionId(s)} /\ granted'[acct[s]] = NULL

\* A session that at most starts to leave.
LEMMA WatchedSame ==
  ASSUME NEW s \in Sessions, Watched(s), st'[s] = st[s] \/ Leaves(s),
         conn'[s] = conn[s], seq'[s] = seq[s], acct'[s] = acct[s], fin[s] => fin'[s],
         MasterKeeps(s), SessionId(s) \in known' => SessionId(s) \in known,
         conn[s] # NULL /\ net[conn[s]] = "down" => net'[conn[s]] = "down"
  PROVE  Watched(s)'
<1>1. SessionId(s)' = SessionId(s)
  BY DEF SessionId
<1>2. Kept(s)'
  BY <1>1 DEF Watched, Kept, Early, Leaves, StuckStates, MasterKeeps
<1>3. Early(s)' /\ Late(s)'
  BY <1>1 DEF Watched, Early, Late, Leaves, MasterKeeps
<1> QED
  BY <1>2, <1>3 DEF Watched

\* The same for the steps that hang up.
LEMMA HangUpWatched ==
  ASSUME TypeOK, Sound, HangsUp, NEW s \in Filed', s \in Filed => Watched(s),
         fin[s] => fin'[s], MasterKeeps(s), known' = known
  PROVE  Watched(s)'
<1>1. s \in Filed /\ s \in Sessions /\ acct'[s] = acct[s]
  BY DEF HangsUp, Filed, Live
<1>2. conn[s] # NULL => conn[s] \in Conns
  BY <1>1 DEF TypeOK
<1>3. \A d \in Conns : net[d] = "down" => net'[d] = "down"
  BY DEF HangsUp, AsyncDisconnect, TypeOK
<1>4. /\ st'[s] = st[s] \/ Leaves(s)
      /\ conn'[s] = conn[s] /\ seq'[s] = seq[s]
  BY <1>1 DEF HangsUp
<1> QED
  BY <1>1, <1>2, <1>3, <1>4, WatchedSame

\* A step that leaves a filed session in one of these states leaves it on its
\* way out.
LEMMA OnItsWay ==
  ASSUME TypeOK', Sound', NEW s \in Filed',
         st'[s] \in StuckStates \/ st'[s] \in {"DISCONNECT", "ONMASTERDISCONNECT"}
  PROVE  Kept(s)'
<1>1. Wired(s)' /\ FailedOnly(s)'
  BY DEF Sound, Filed
<1> QED
  BY <1>1 DEF Wired, FailedOnly, Kept, DisconnectFirst

LEMMA GateReleaseReqWatched ==
  ASSUME TypeOK, Sound, Sound', TypeOK', NEW n \in Accounts, GateReleaseReq(n),
         NEW s \in Filed', s \in Filed => Watched(s)
  PROVE  Watched(s)'
<1>1. /\ HangsUp /\ UNCHANGED <<st, acct, known>> /\ MasterDrops(n)
      /\ IF byName[n] = NULL THEN UNCHANGED <<queue, fin, net>> ELSE Release(byName[n])
  BY GateReleaseReqHangUp
<1>2. s \in Filed /\ s \in Sessions /\ acct[s] \in Accounts /\ byName[acct[s]] = s /\ s # NULL
  BY <1>1, GateAssumption DEF HangsUp, Filed, Live, Sound, NamesExact
<1>3. asked' = asked \ {n} /\ granted' = [granted EXCEPT ![n] = NULL]
  BY <1>1 DEF MasterDrops
<1>4. fin[s] => fin'[s]
  <2>1. byName[n] # NULL => byName[n] \in Sessions
    BY DEF TypeOK
  <2> QED
    BY <1>1, <1>2, <2>1 DEF Release, Push, TypeOK
<1>5. CASE acct[s] # n
  <2>1. granted'[acct[s]] = granted[acct[s]]
    BY <1>2, <1>3, <1>5 DEF TypeOK
  <2> QED
    BY <1>1, <1>2, <1>3, <1>4, <1>5, <2>1, HangUpWatched DEF MasterKeeps
<1>6. CASE acct[s] = n
  <2>1. Release(s)
    BY <1>1, <1>2, <1>6
  <2>2. Early(s)' /\ Late(s)'
    BY <1>1, <1>2, <1>3, <1>6 DEF HangsUp, Watched, Early, Late, SessionId, TypeOK
  <2>3. Kept(s)'
    <3>1. CASE Push(s)
      BY <1>2, <3>1 DEF Push, TypeOK, Kept
    <3>2. CASE st[s] \in DisconnectFirst /\ net' = AsyncDisconnect(conn[s])
      <4>1. CASE st[s] = "LOGGEDIN"
        BY <1>1, <4>1, OnItsWay DEF StuckStates
      <4>2. CASE st[s] = "GATELOGINREQ"
        <5>1. conn[s] # NULL /\ conn[s] \in Conns /\ net[conn[s]] \in {"up", "down"}
          BY <1>2, <4>2 DEF Sound, Wired, DisconnectFirst, TypeOK, NetStates
        <5>2. net'[conn[s]] = "down"
          BY <3>2, <5>1 DEF AsyncDisconnect, TypeOK
        <5> QED
          BY <1>1, <5>1, <5>2 DEF HangsUp, Kept
      <4>3. st[s] # "ONCONNECTION"
        BY <1>2 DEF Sound, Fits, Filed, FiledStates
      <4> QED
        BY <3>2, <4>1, <4>2, <4>3 DEF DisconnectFirst
    <3> QED
      BY <2>1, <3>1, <3>2 DEF Release
  <2> QED
    BY <2>2, <2>3 DEF Watched
<1> QED
  BY <1>5, <1>6

\* The master forgets one id.
LEMMA Forgotten ==
  ASSUME TypeOK, NEW sid, sid # NULL, NEW s \in Sessions, acct[s] \in Accounts,
         asked' = { n \in asked : granted[n] # sid },
         granted' = [n \in Accounts |-> IF granted[n] = sid THEN NULL ELSE granted[n]]
  PROVE  sid = SessionId(s) \/ MasterKeeps(s)
  BY DEF MasterKeeps, TypeOK

\* Facts about a session on file.
LEMMA FiledFacts ==
  ASSUME Sound, NEW s \in Filed
  PROVE  /\ s \in Sessions /\ ~temp[s] /\ Live(s) /\ st[s] \in FiledStates
         /\ acct[s] \in Accounts /\ byName[acct[s]] = s /\ s # NULL
  BY GateAssumption DEF Sound, Fits, Filed, NamesExact

LEMMA DisconnectWatched ==
  ASSUME TypeOK, Sound, TypeOK', Sound', NEW sid \in known, Disconnect(sid),
         NEW s \in Filed', s \in Filed => Watched(s)
  PROVE  Watched(s)'
<1>1. HangsUp /\ UNCHANGED <<fin, queue, acct, known>>
  BY DisconnectHangUp
<1>2. s \in Filed /\ s \in Sessions /\ acct[s] \in Accounts /\ st[s] \in FiledStates
  BY <1>1, FiledFacts DEF HangsUp, Filed, Live
<1>3. /\ asked' = { n \in asked : granted[n] # sid }
      /\ granted' = [n \in Accounts |-> IF granted[n] = sid THEN NULL ELSE granted[n]]
  BY DEF Disconnect
<1>4. sid # NULL
  BY GateAssumption DEF TypeOK, SessionIds
<1>5. CASE MasterKeeps(s)
  BY <1>1, <1>2, <1>5, HangUpWatched
<1>6. CASE sid = SessionId(s)
  <2>1. GetSession(sid) = s /\ s # NULL
    BY <1>2, <1>6, GateAssumption DEF GetSession, SessionId
  <2>2. /\ st' = IF ~fin[s] /\ Result(st[s], "ONMASTERDISCONNECT") # INVALID
                 THEN [st EXCEPT ![s] = After(@, "ONMASTERDISCONNECT")] ELSE st
    BY <2>1 DEF Disconnect
  <2>3. st'[s] = IF ~fin[s] /\ Result(st[s], "ONMASTERDISCONNECT") # INVALID
                 THEN "ONMASTERDISCONNECT" ELSE st[s]
    BY <1>2, <2>2, EndRows DEF TypeOK
  <2>4. st[s] \in {"GATELOGINREQ", "DISCONNECT", "HOLDCONNECTION", "ONDISCONNECT", "ONMASTERDISCONNECT"}
    BY <1>2, <1>6 DEF Watched, Late
  <2>5. Kept(s)'
    <3>1. CASE fin[s]
      BY <1>1, <3>1 DEF Kept
    <3>2. CASE ~fin[s]
      BY <2>3, <2>4, <3>2, MasterEndExpected, OnItsWay DEF StuckStates
    <3> QED
      BY <3>1, <3>2
  <2>6. Early(s)' /\ Late(s)'
    BY <2>3, <2>4 DEF Early, Late
  <2> QED
    BY <2>5, <2>6 DEF Watched
<1> QED
  BY <1>2, <1>3, <1>4, <1>5, <1>6, Forgotten

LEMMA OnConnectWatched ==
  ASSUME TypeOK, Sound, NEW c \in Conns, OnConnect(c), NEW s \in Filed', s \in Filed => Watched(s)
  PROVE  Watched(s)'
<1>1. /\ UNCHANGED <<acct, fin, byName, asked, granted, known>> /\ Filed' = Filed
      /\ net[c] = "none" /\ \A d \in Conns \ {c} : net'[d] = net[d]
      /\ \A x \in Sessions : Live(x) => st'[x] = st[x] /\ conn'[x] = conn[x] /\ seq'[x] = seq[x]
  BY OnConnectFacts
<1>2. s \in Filed /\ s \in Sessions /\ Live(s) /\ (conn[s] # NULL => conn[s] \in Conns)
  BY <1>1 DEF Filed, TypeOK
<1> QED
  BY <1>1, <1>2, WatchedSame DEF MasterKeeps

LEMMA OnDisconnectWatched ==
  ASSUME TypeOK, Sound, TypeOK', Sound', NEW c \in Conns, NEW ok \in SendResults, OnDisconnect(c, ok),
         NEW s \in Filed', s \in Filed => Watched(s)
  PROVE  Watched(s)'
<1>1. net[c] = "down" /\ UNCHANGED <<byName, seq, acct, temp, freeCnt, client, known>>
  BY OnDisconnectFacts DEF OnDisconnect, netVars
<1>2. s \in Filed
  BY <1>1 DEF Filed, Live
<1>3. /\ s \in Sessions /\ acct[s] \in Accounts /\ st[s] \in FiledStates /\ ~temp[s]
      /\ conn[s] # NULL => conn[s] \in Conns /\ client[conn[s]] = s
  BY <1>2, FiledFacts, FiledConnection
<1>4. CASE /\ client[c] # NULL => Result(st[client[c]], "ONDISCONNECT") = INVALID
           /\ net' = [net EXCEPT ![c] = "lost"]
           /\ UNCHANGED <<st, conn, fin, queue, masterVars>>
  <2>1. CASE conn[s] # NULL /\ conn[s] = c
    <3>1. st[s] \notin {"ONCONNECTION", "GATELOGINREQ", "DISCONNECT", "ONMASTERDISCONNECT"}
      BY <1>3, <1>4, <2>1, EndExpected, GateAssumption
    <3>2. st[s] \notin {"ONGATEALLOCREQ", "GATEALLOCACK", "ONDISCONNECT"}
      BY <1>3, <2>1 DEF Sound, Wired
    <3>3. Kept(s)'
      BY <1>3, <1>4, <3>1, <3>2, OnItsWay DEF FiledStates, StuckStates
    <3>4. Early(s)' /\ Late(s)'
      BY <1>1, <1>2, <1>4 DEF Watched, Early, Late, SessionId, masterVars
    <3> QED
      BY <3>3, <3>4 DEF Watched
  <2>2. CASE ~(conn[s] # NULL /\ conn[s] = c)
    <3>1. conn[s] # NULL /\ net[conn[s]] = "down" => net'[conn[s]] = "down"
      BY <1>3, <1>4, <2>2 DEF TypeOK
    <3> QED
      BY <1>1, <1>2, <1>3, <1>4, <3>1, WatchedSame DEF MasterKeeps, masterVars
  <2> QED
    BY <2>1, <2>2
<1>5. CASE /\ client[c] # NULL /\ Result(st[client[c]], "ONDISCONNECT") # INVALID
           /\ SessionOnDisconnect(client[c], c, ok)
  <2>1. client[c] \in Sessions
    BY <1>5 DEF TypeOK
  <2>2. Ends(client[c], c)
    BY <1>5, <2>1, SessionOnDisconnectFacts
  <2>3. CASE client[c] = s
    <3>1. st'[s] \in {"ONDISCONNECT", "HOLDCONNECTION"}
      BY <2>2, <2>3 DEF Ends
    <3> QED
      BY <3>1, OnItsWay DEF StuckStates, Watched, Early, Late
  <2>4. CASE client[c] # s
    <3>1. st'[s] = st[s] /\ conn'[s] = conn[s]
      BY <1>3, <2>2, <2>4 DEF Ends
    <3>2. client[conn[client[c]]] = client[c]
      BY <1>5, <2>1, EndRows DEF Sound, Wired, DisconnectFirst
    <3>3. conn[s] # NULL => net'[conn[s]] = net[conn[s]]
      BY <1>3, <2>2, <2>4, <3>2 DEF Ends
    <3>4. fin[s] => fin'[s]
      BY <1>3, <2>1, <2>2 DEF Ends, Push, TypeOK
    <3>5. MasterKeeps(s)
      <4>1. CASE UNCHANGED masterVars
        BY <4>1 DEF MasterKeeps, masterVars
      <4>2. CASE MasterForgets(SessionId(client[c]))
        <5>1. SessionId(client[c]) # NULL /\ SessionId(client[c]) # SessionId(s)
          BY <2>1, <2>4, GateAssumption DEF SessionId, TypeOK
        <5> QED
          BY <1>3, <4>2, <5>1, Forgotten DEF MasterForgets
      <4> QED
        BY <1>5, <4>1, <4>2 DEF SessionOnDisconnect
    <3> QED
      BY <1>1, <1>2, <1>3, <3>1, <3>3, <3>4, <3>5, WatchedSame
  <2> QED
    BY <2>3, <2>4
<1> QED
  BY <1>4, <1>5 DEF OnDisconnect

LEMMA LoginPacketWatched ==
  ASSUME TypeOK, Sound, TypeOK', Sound', NEW c \in Conns, NEW n \in Accounts \cup {NULL},
         NEW ok \in SendResults, LoginPacket(c, n, ok), NEW s \in Filed', s \in Filed => Watched(s)
  PROVE  Watched(s)'
<1>1. /\ client[c] \in Sessions /\ st[client[c]] = "ONCONNECTION"
      /\ acct' = [acct EXCEPT ![client[c]] = n]
      /\ UNCHANGED <<temp, seq, byName, count, tempCount, freeCnt, used, asked, granted>>
  BY LoginPacketFacts
<1>2. s \in Filed
  BY <1>1 DEF Filed, Live
<1>3. /\ s \in Sessions /\ acct[s] \in Accounts /\ st[s] \in FiledStates
      /\ \A x \in Sessions \ {client[c]} : acct'[x] = acct[x]
  BY <1>1, <1>2, FiledFacts DEF TypeOK
<1>4. s # client[c] /\ acct'[s] = acct[s] /\ MasterKeeps(s)
  BY <1>1, <1>3 DEF FiledStates, MasterKeeps
<1>5. CASE DisconnectSession(client[c]) /\ UNCHANGED <<conn, fin, queue, client, auth, known>>
  <2>1. HangsUp
    BY <1>1, <1>3, <1>5, LoginRefusedHangUp
  <2> QED
    BY <1>2, <1>4, <1>5, <2>1, HangUpWatched
<1>6. CASE /\ byName[n] \in Sessions /\ Transferable(byName[n])
           /\ Transfer(client[c], byName[n], ok) /\ UNCHANGED net
  <2> DEFINE t == byName[n]
  <2>1. HandsOver(client[c], t, ok)
    BY <1>1, <1>6, TransferFacts
  <2>2. \A x \in Sessions \ {client[c]} : fin'[x] = fin[x]
    BY <1>1, <1>6 DEF Transfer, Push, TypeOK
  <2>3. known' \subseteq known \cup {SessionId(t)}
    BY <1>6 DEF Transfer, Announced
  <2>4. CASE s = t
    <3>1. (st[s] \in {"GATEALLOCACK", "HOLDCONNECTION"} /\ conn[s] = NULL) \/ st[s] = "HOLDCONNECTION"
      BY <1>3, <2>1, <2>4 DEF HandsOver, Sound, Wired
    <3>2. CASE st[s] = "HOLDCONNECTION"
      <4>1. st'[s] = "HOLDCONNECTION"
        BY <2>1, <2>4, <3>2 DEF HandsOver
      <4> QED
        BY <4>1, OnItsWay DEF Watched, Early, Late, StuckStates
    <3>3. CASE st[s] = "GATEALLOCACK" /\ ok
      <4>1. st'[s] = "GATELOGINREQ"
        BY <2>1, <2>4, <3>3 DEF HandsOver
      <4>2. granted[acct[s]] = SessionId(s) \/ fin[s]
        BY <1>2, <3>1, <3>3 DEF Watched, Kept, StuckStates
      <4>3. Kept(s)'
        BY <1>1, <1>3, <1>4, <2>2, <4>2 DEF Kept, SessionId
      <4> QED
        BY <4>1, <4>3 DEF Watched, Early, Late
    <3>4. CASE st[s] = "GATEALLOCACK" /\ ~ok
      <4>1. st'[s] = "LOGGEDIN"
        BY <2>1, <2>4, <3>4 DEF HandsOver
      <4>2. known' = known
        BY <1>6, <3>4 DEF Transfer
      <4>3. SessionId(s) \notin known
        BY <1>2, <3>4 DEF Watched, Late
      <4>4. SessionId(s)' = SessionId(s)
        BY <1>1 DEF SessionId
      <4> QED
        BY <4>1, <4>2, <4>3, <4>4, OnItsWay DEF Watched, Early, Late, StuckStates
    <3> QED
      BY <3>1, <3>2, <3>3, <3>4
  <2>5. CASE s # t
    <3>1. st'[s] = st[s] /\ conn'[s] = conn[s] /\ seq'[s] = seq[s] /\ fin'[s] = fin[s]
      BY <1>1, <1>3, <1>4, <2>1, <2>2, <2>5 DEF HandsOver
    <3>2. SessionId(s) \in known' => SessionId(s) \in known
      BY <2>3, <2>5 DEF SessionId
    <3> QED
      BY <1>2, <1>3, <1>4, <1>6, <3>1, <3>2, WatchedSame
  <2> QED
    BY <2>4, <2>5
<1> QED
  BY <1>5, <1>6, LoginPacketFacts

LEMMA GateAllocReqWatched ==
  ASSUME TypeOK, Sound, NEW n \in Accounts, NEW ok \in SendResults, GateAllocReq(n, ok), IdsFresh,
         NEW s \in Filed', s \in Filed => Watched(s)
  PROVE  Watched(s)'
<1>1. UNCHANGED <<conn, fin, net, known>> /\ asked' = asked \cup {n}
  BY GateAllocReqFacts
<1>2. CASE HangsUp /\ UNCHANGED granted
  BY <1>1, <1>2, HangUpWatched DEF MasterKeeps
<1>3. ASSUME NEW x \in Sessions, Grants(x, n, ok) PROVE Watched(s)'
  <2>1. s \in Sessions
    BY DEF Filed
  <2>2. CASE s = x
    <3>1. SessionId(s)' \notin known'
      BY <1>1, <1>3, <2>2 DEF Grants, IdsFresh
    <3>2. CASE ok
      BY <1>3, <2>2, <3>1, <3>2 DEF Grants, Watched, Kept, Early, Late, SessionId
    <3>3. CASE ~ok
      BY <1>1, <1>3, <2>2, <3>1, <3>3 DEF Grants, Watched, Kept, Early, Late
    <3> QED
      BY <3>2, <3>3
  <2>3. CASE s # x
    <3>1. /\ st'[s] = st[s] /\ acct'[s] = acct[s] /\ seq'[s] = seq[s]
          /\ s \in Filed
      BY <1>3, <2>1, <2>3 DEF Grants, Filed
    <3>2. acct[s] \in Accounts /\ acct[s] # n
      BY <1>3, <3>1, FiledFacts DEF Grants
    <3>3. MasterKeeps(s)
      BY <1>1, <1>3, <3>2 DEF Grants, MasterKeeps
    <3> QED
      BY <1>1, <2>1, <3>1, <3>3, WatchedSame
  <2> QED
    BY <2>2, <2>3
<1> QED
  BY <1>2, <1>3, GateAllocReqFacts

LEMMA LoopWatched ==
  ASSUME TypeOK, Sound, Loop, ~overrun', NEW s \in Filed', s \in Filed => Watched(s)
  PROVE  Watched(s)'
<1>1. UNCHANGED <<net, asked, granted, known>>
  BY LoopFacts
<1>2. CASE HangsUp /\ UNCHANGED fin
  BY <1>1, <1>2, HangUpWatched DEF MasterKeeps
<1>3. ASSUME NEW x \in Sessions, Clears(x) PROVE Watched(s)'
  <2>1. s \in Sessions /\ s # x /\ s \in Filed
    BY <1>3 DEF Clears, Filed
  <2>2. /\ st'[s] = st[s] /\ conn'[s] = conn[s] /\ acct'[s] = acct[s] /\ fin'[s] = fin[s]
        /\ seq'[s] = seq[s]
    BY <1>3, <2>1 DEF Clears
  <2> QED
    BY <1>1, <2>1, <2>2, WatchedSame DEF MasterKeeps
<1> QED
  BY <1>2, <1>3, LoopFacts

LEMMA WatchedStep ==
  ASSUME TypeOK, Sound, TypeOK', Sound', \A s \in Filed : Watched(s), [Next]_vars, IdsFresh, ~overrun',
         NEW s \in Filed'
  PROVE  Watched(s)'
<1>1. ASSUME HangsUp, UNCHANGED <<fin, asked, granted, known>> PROVE Watched(s)'
  BY <1>1, HangUpWatched DEF MasterKeeps
<1> QED
  BY <1>1, Steps, OnConnectWatched, OnDisconnectWatched, LoginPacketWatched, GateAllocReqWatched,
     GateReleaseReqWatched, DisconnectWatched, LoopWatched, SmallStepsHangUp

\* While no announced id is given to a session again, a session that the master
\* has given up, or never learnt of, is queued or waits for the end of its
\* connection, or is stuck where a failed send has left it.
THEOREM AbandonedSessionsEndAlways == Spec /\ [][IdsFresh]_vars => []AbandonedSessionsEnd
<1>1. Init => WatchInv
  <2>1. ASSUME Init PROVE Filed = {}
    BY <2>1 DEF Init, Filed, Live
  <2> QED
    BY <2>1, TypeStart, SoundStart DEF WatchInv, GateInv
<1>2. WatchInv /\ [Next]_vars /\ [IdsFresh]_vars => WatchInv'
  <2> SUFFICES ASSUME WatchInv, [Next]_vars, [IdsFresh]_vars PROVE WatchInv'
    OBVIOUS
  <2>1. GateInv'
    BY GateInvStep DEF WatchInv
  <2>2. IdsFresh
    BY DEF IdsFresh, vars, sessVars
  <2>3. ASSUME ~overrun', NEW s \in Filed' PROVE Watched(s)'
    <3>1. ~overrun
      BY <2>3, OverrunStays
    <3>2. TypeOK /\ Sound /\ TypeOK' /\ Sound' /\ \A x \in Filed : Watched(x)
      BY <2>1, <2>3, <3>1 DEF WatchInv, GateInv
    <3> QED
      BY <2>2, <2>3, <3>2, WatchedStep
  <2> QED
    BY <2>1, <2>3 DEF WatchInv
<1>3. WatchInv => AbandonedSessionsEnd
  BY DEF WatchInv, Watched, Kept, AbandonedSessionsEnd
<1> QED
  BY <1>1, <1>2, <1>3, PTL DEF Spec
=============================================================================
