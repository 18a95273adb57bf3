------------------------- MODULE RegionServerProofs -------------------------
(***************************************************************************)
(* Proofs about RegionServer, for any number of contexts, session indexes, *)
(* uses of an index and avatars, with sends that may fail.                 *)
(***************************************************************************)
EXTENDS RegionServer, TLAPS, FiniteSetTheorems, SequenceTheorems

\* A player in use has a session and an avatar.
LiveFilled ==
  \A c \in Contexts : Live(c) => ctx[c].sess \in Sids /\ ctx[c].avatar \in Avatars

\* What the steps of a player rest on and keep.
PlayersSound == PlayersAccounted /\ IndexesSound /\ OwnPlayer /\ LiveFilled

RegionInv == TypeOK /\ PlayersSound /\ EnteringIsAnswered

-----------------------------------------------------------------------------
(* Operators *)

\* The rows the handlers rely on, and the states they assign.
LEMMA Machine ==
  /\ After("ONREGIONALLOCREQ", "REGIONALLOCACK") = "REGIONALLOCACK"
  /\ After("ONREGIONENTERREQ", "REGIONENTERREQ") = "REGIONENTERREQ"
  /\ After("ONREGIONENTERACK", "SERVERTIMENTF") = "SERVERTIMENTF"
  /\ Takes("REGIONENTERREQ", "ONREGIONENTERACK")
  /\ {"NONE", "ONREGIONALLOCREQ", "REGIONALLOCACK", "ONREGIONRELEASEREQ", "ONREGIONENTERREQ",
      "REGIONENTERREQ", "ONREGIONENTERACK", "SERVERTIMENTF", "ONCLIENTTIMEREQ",
      "SERVERTIME2NTF", "INITAVATARNTF", "ONREGIONLEAVEREQ"} \subseteq States
<1>1. Rows \subseteq Transitions /\ \A s \in LeaveFrom : <<s, "ONREGIONLEAVEREQ">> \in Transitions
  BY DEF Transitions
<1>2. /\ <<"ONREGIONALLOCREQ", "REGIONALLOCACK">> \in Rows
      /\ <<"ONREGIONENTERREQ", "REGIONENTERREQ">> \in Rows
      /\ <<"ONREGIONENTERACK", "SERVERTIMENTF">> \in Rows
      /\ <<"REGIONENTERREQ", "ONREGIONENTERACK">> \in Rows
  BY DEF Rows
<1>3. \A s, e : <<s, e>> \in Transitions => s \in States /\ e \in States
  BY DEF States
<1>4. /\ <<"NONE", "ONREGIONALLOCREQ">> \in Rows
      /\ <<"REGIONALLOCACK", "ONREGIONRELEASEREQ">> \in Rows
      /\ <<"SERVERTIMENTF", "ONCLIENTTIMEREQ">> \in Rows
      /\ <<"SERVERTIME2NTF", "INITAVATARNTF">> \in Rows
      /\ "SERVERTIMENTF" \in LeaveFrom
  BY DEF Rows, LeaveFrom
<1>5. {"NONE", "ONREGIONALLOCREQ", "REGIONALLOCACK", "ONREGIONRELEASEREQ", "ONREGIONENTERREQ",
      "REGIONENTERREQ", "ONREGIONENTERACK", "SERVERTIMENTF", "ONCLIENTTIMEREQ",
      "SERVERTIME2NTF", "INITAVATARNTF", "ONREGIONLEAVEREQ"} \subseteq States
  BY <1>1, <1>2, <1>3, <1>4
<1>6. /\ Result("ONREGIONALLOCREQ", "REGIONALLOCACK") = "REGIONALLOCACK"
      /\ Result("ONREGIONENTERREQ", "REGIONENTERREQ") = "REGIONENTERREQ"
      /\ Result("ONREGIONENTERACK", "SERVERTIMENTF") = "SERVERTIMENTF"
      /\ Result("REGIONENTERREQ", "ONREGIONENTERACK") = "ONREGIONENTERACK"
  BY <1>1, <1>2 DEF Result
<1> QED
  BY <1>5, <1>6 DEF After, Takes, INVALID

\* A session id has an index of the gates' tables.
LEMMA SlotOfSid == \A sid \in Sids : SlotOf(sid) \in Slots
  BY DEF Sids, SlotOf

LEMMA BlankType == Blank \in PlayerRecords
  BY Machine DEF Blank, PlayerRecords

\* Two players that are not in the queue more than once: appending one that is
\* not in it keeps that.
LEMMA AppendOnce ==
  ASSUME NEW q \in Seq(Contexts), NEW c \in Contexts,
         \A i \in 1 .. Len(q) : q[i] # c,
         \A i, j \in 1 .. Len(q) : q[i] = q[j] => i = j
  PROVE  LET r == Append(q, c)
         IN  /\ r \in Seq(Contexts)
             /\ \A i, j \in 1 .. Len(r) : r[i] = r[j] => i = j
             /\ \A d : (\E i \in 1 .. Len(r) : r[i] = d) <=> d = c \/ \E i \in 1 .. Len(q) : q[i] = d
<1> DEFINE r == Append(q, c)
<1>1. /\ r \in Seq(Contexts) /\ Len(q) \in Nat /\ Len(r) = Len(q) + 1
      /\ \A i \in 1 .. Len(q) : r[i] = q[i]
      /\ r[Len(q) + 1] = c
  OBVIOUS
<1>2. 1 .. Len(r) = 1 .. Len(q) \cup {Len(q) + 1}
  BY <1>1
<1> HIDE DEF r
<1>3. \A i, j \in 1 .. Len(r) : r[i] = r[j] => i = j
  BY <1>1, <1>2
<1>4. \A d : (\E i \in 1 .. Len(r) : r[i] = d) <=> d = c \/ \E i \in 1 .. Len(q) : q[i] = d
  BY <1>1, <1>2
<1> QED
  BY <1>1, <1>3, <1>4 DEF r

-----------------------------------------------------------------------------
(* A handler moves one player, and queues it unless it is queued.          *)

\* What a step that only moves player c to state s does.
Moved(c, s) ==
  /\ ctx' \in [Contexts -> PlayerRecords] /\ queue' \in Seq(Contexts)
  /\ \A d \in Contexts : d # c => ctx'[d] = ctx[d]
  /\ \A d \in Contexts : ctx'[d].sess = ctx[d].sess /\ ctx'[d].avatar = ctx[d].avatar
  /\ ctx'[c].st = s

LEMMA MoveKeeps ==
  ASSUME TypeOK, PlayersSound, UNCHANGED indexes,
         NEW c \in Contexts, Live(c), NEW s \in States,
         Stay(c, s) \/ ShutdownPlayer(c, s)
  PROVE  PlayersSound' /\ Moved(c, s)
<1> DEFINE f == ctx'[c].fin
<1>1. /\ ctx' = [ctx EXCEPT ![c] = [ctx[c] EXCEPT !.st = s, !.fin = f]]
      /\ ctx \in [Contexts -> PlayerRecords]
      /\ f \in BOOLEAN /\ (ctx[c].fin => f)
      /\ queue' = IF f /\ ~ctx[c].fin THEN Append(queue, c) ELSE queue
  BY DEF Stay, ShutdownPlayer, Queue, TypeOK, PlayerRecords
<1> HIDE DEF f
<1>2. /\ ctx' \in [Contexts -> PlayerRecords]
      /\ \A d \in Contexts : d # c => ctx'[d] = ctx[d]
      /\ \A d \in Contexts : ctx'[d].sess = ctx[d].sess /\ ctx'[d].avatar = ctx[d].avatar
      /\ ctx'[c].st = s /\ ctx'[c].fin = f
  BY <1>1 DEF PlayerRecords
<1>3. /\ queue' \in Seq(Contexts)
      /\ \A d \in Contexts : ctx'[d].fin <=> Queued(d)'
      /\ \A i, j \in 1 .. Len(queue') : queue'[i] = queue'[j] => i = j
  <2>1. CASE f /\ ~ctx[c].fin
    <3>1. \A i \in 1 .. Len(queue) : queue[i] # c
      BY <2>1 DEF PlayersSound, PlayersAccounted, Queued
    <3>2. \A i, j \in 1 .. Len(queue) : queue[i] = queue[j] => i = j
      BY DEF PlayersSound, PlayersAccounted
    <3>3. queue' = Append(queue, c)
      BY <1>1, <2>1
    <3>4. /\ queue' \in Seq(Contexts)
          /\ \A i, j \in 1 .. Len(queue') : queue'[i] = queue'[j] => i = j
          /\ \A d : Queued(d)' <=> d = c \/ Queued(d)
      BY <3>1, <3>2, <3>3, AppendOnce DEF TypeOK, Queued
    <3> QED
      BY <1>2, <2>1, <3>4 DEF PlayersSound, PlayersAccounted
  <2>2. CASE ~(f /\ ~ctx[c].fin)
    <3>1. queue' = queue /\ \A d \in Contexts : ctx'[d].fin = ctx[d].fin
      BY <1>1, <1>2, <2>2 DEF PlayerRecords
    <3> QED
      BY <3>1 DEF PlayersSound, PlayersAccounted, Queued, TypeOK
  <2> QED
    BY <2>1, <2>2
<1>4. PlayersAccounted'
  BY <1>2, <1>3 DEF PlayersSound, PlayersAccounted, indexes, Live
<1>5. IndexesSound'
  BY <1>2 DEF PlayersSound, IndexesSound, indexes, Live, TypeOK
<1>6. OwnPlayer' /\ LiveFilled'
  BY <1>2 DEF PlayersSound, OwnPlayer, LiveFilled, indexes, Live, Player
<1> QED
  BY <1>2, <1>3, <1>4, <1>5, <1>6 DEF PlayersSound, Moved

-----------------------------------------------------------------------------
(* The handlers that move the player their session leads to. *)

\* What such a handler leaves alone, and what it may do to the peers.
Handled == UNCHANGED <<indexes, overrun>> /\ status' = status

PeersTyped ==
  /\ stage \in [Sids -> {"out", "alloc", "enter", "left"}]
  /\ acks \subseteq Sids /\ owes \subseteq Sids /\ bound \subseteq Sids /\ silent \subseteq Sids

\* The table leads to players in use.
LEMMA PlayerLive ==
  ASSUME TypeOK, PlayersSound, NEW sid \in Sids, Player(sid) # NULL
  PROVE  Player(sid) \in Contexts /\ Live(Player(sid))
  BY SlotOfSid DEF Player, TypeOK, PlayersSound, IndexesSound

\* A handler that leaves every player alone.
LEMMA NobodyMoved ==
  ASSUME RegionInv, Handled, UNCHANGED players, PeersTyped',
         \A c \in Contexts :
           /\ status = "NOT_SHUTDOWN"
           /\ ctx[c].st = "REGIONENTERREQ" /\ ~ctx[c].fin /\ Player(ctx[c].sess) = c
           => ctx[c].sess \notin owes \ owes'
  PROVE  RegionInv'
<1>1. TypeOK'
  BY DEF RegionInv, TypeOK, Handled, players, indexes, PeersTyped
<1>2. PlayersSound'
  <2> USE DEF Handled, players, indexes
  <2>1. PlayersAccounted'
    BY DEF RegionInv, PlayersSound, PlayersAccounted, Queued
  <2>2. IndexesSound'
    BY DEF RegionInv, PlayersSound, IndexesSound, Live
  <2>3. OwnPlayer' /\ LiveFilled'
    BY DEF RegionInv, PlayersSound, OwnPlayer, LiveFilled, Live, Player
  <2> QED
    BY <2>1, <2>2, <2>3 DEF PlayersSound
<1>3. EnteringIsAnswered'
  BY DEF RegionInv, EnteringIsAnswered, Player, Handled, players, indexes
<1> QED
  BY <1>1, <1>2, <1>3 DEF RegionInv

\* A handler that moves player c, who waits for the cache afterwards only if
\* the cache owes an answer; nobody else's answer is lost.
LEMMA SomebodyMoved ==
  ASSUME RegionInv, Handled, PeersTyped',
         NEW c \in Contexts, Live(c), NEW s \in States,
         Stay(c, s) \/ ShutdownPlayer(c, s),
         \/ s # "REGIONENTERREQ" \/ ShutdownPlayer(c, s) \/ ctx[c].sess \in owes',
         \A d \in Contexts : d # c /\ Player(ctx[d].sess) = d => ctx[d].sess \notin owes \ owes'
  PROVE  RegionInv'
<1>1. PlayersSound' /\ Moved(c, s)
  BY MoveKeeps DEF RegionInv, Handled
<1>2. TypeOK'
  BY <1>1 DEF RegionInv, TypeOK, Handled, Moved, indexes, PeersTyped
<1>3. EnteringIsAnswered'
  <2> SUFFICES ASSUME NEW d \in Contexts, status = "NOT_SHUTDOWN",
                      ctx'[d].st = "REGIONENTERREQ", ~ctx'[d].fin, Player(ctx[d].sess)' = d
               PROVE  ctx'[d].sess \in owes'
    BY DEF EnteringIsAnswered, Player, Handled
  <2>1. ctx'[d].sess = ctx[d].sess /\ Player(ctx[d].sess) = d
    BY <1>1 DEF Moved, Player, Handled, indexes
  <2>2. CASE d = c
    <3>1. ShutdownPlayer(c, s) => ctx'[c].fin
      BY DEF ShutdownPlayer, RegionInv, TypeOK, PlayerRecords
    <3> QED
      BY <1>1, <2>1, <2>2, <3>1 DEF Moved
  <2>3. CASE d # c
    BY <1>1, <2>1, <2>3 DEF Moved, RegionInv, EnteringIsAnswered
  <2> QED
    BY <2>2, <2>3
<1> QED
  BY <1>1, <1>2, <1>3 DEF RegionInv

\* OnRegionEnterReq
LEMMA EnterReqKeeps ==
  ASSUME RegionInv, NEW sid \in Sids, NEW ok, OnRegionEnterReq(sid, ok)
  PROVE  RegionInv'
<1> DEFINE c == Player(sid)
<1>1. Handled /\ owes \subseteq owes'
  BY DEF OnRegionEnterReq, Handled, players
<1>2. CASE UNCHANGED <<players, owes>>
  <2>1. UNCHANGED players /\ PeersTyped'
    BY <1>2 DEF OnRegionEnterReq, PeersTyped, RegionInv, TypeOK, MasterAt
  <2> QED
    BY <1>1, <2>1, NobodyMoved
<1>3. CASE Accepting /\ ~Refuses(c, "ONREGIONENTERREQ")
  <2>1. c \in Contexts /\ Live(c)
    BY <1>3, PlayerLive DEF Refuses, RegionInv
  <2>2. ctx[c].sess \in Sids
    BY <2>1 DEF RegionInv, PlayersSound, LiveFilled
  <2>3. PeersTyped'
    BY <1>3, <2>2 DEF OnRegionEnterReq, PeersTyped, RegionInv, TypeOK, MasterAt
  <2>4. \/ Stay(c, "REGIONENTERREQ") /\ owes' = owes \cup {ctx[c].sess}
        \/ ShutdownPlayer(c, "ONREGIONENTERREQ")
    BY <1>3, Machine DEF OnRegionEnterReq, NotAsked
  <2> HIDE DEF c
  <2> QED
    BY <1>1, <2>1, <2>3, <2>4, SomebodyMoved, Machine
<1> QED
  BY <1>2, <1>3 DEF OnRegionEnterReq

\* OnRegionReleaseReq and OnRegionLeaveReq, handled, dropped or never sent
LEMMA LeaveKeeps ==
  ASSUME RegionInv, NEW sid \in Sids, NEW sent,
         OnRegionReleaseReq(sid, sent) \/ OnRegionLeaveReq(sid, sent)
  PROVE  RegionInv'
<1> DEFINE c == Player(sid)
<1>1. PICK e \in {"ONREGIONRELEASEREQ", "ONREGIONLEAVEREQ"} : SentAway(sid, e, sent)
  BY DEF OnRegionReleaseReq, OnRegionLeaveReq
<1>2. Handled /\ owes = owes'
  BY <1>1 DEF SentAway, Handled
<1>3. PeersTyped'
  <2>1. acks' \subseteq acks
    BY DEF OnRegionReleaseReq, OnRegionLeaveReq
  <2> QED
    BY <1>1, <2>1 DEF SentAway, PeersTyped, RegionInv, TypeOK, MasterAt
<1>4. CASE UNCHANGED players
  BY <1>2, <1>3, <1>4, NobodyMoved
<1>5. CASE ~UNCHANGED players
  <2>1. c # NULL /\ ShutdownPlayer(c, e)
    BY <1>1, <1>5 DEF SentAway, Refuses
  <2>2. c \in Contexts /\ Live(c)
    BY <2>1, PlayerLive DEF RegionInv
  <2> HIDE DEF c
  <2> QED
    BY <1>2, <1>3, <2>1, <2>2, SomebodyMoved, Machine
<1> QED
  BY <1>4, <1>5

\* The master gives up in silence.
LEMMA GivenUpKeeps ==
  ASSUME RegionInv, NEW sid \in Sids, GivenUp(sid)
  PROVE  RegionInv'
<1>1. Handled /\ owes = owes' /\ UNCHANGED players
  BY DEF GivenUp, Handled
<1>2. PeersTyped'
  BY DEF GivenUp, PeersTyped, RegionInv, TypeOK, MasterAt
<1> QED
  BY <1>1, <1>2, NobodyMoved

\* OnRegionEnterAck: whoever the answer was for, and is still where its session
\* leads, does not wait any more.
LEMMA EnterAckKeeps ==
  ASSUME RegionInv, NEW sid \in Sids, NEW ret, NEW told, NEW ok,
         OnRegionEnterAck(sid, ret, told, ok)
  PROVE  RegionInv'
<1> DEFINE c == Player(sid)
<1>1. Handled /\ owes' = owes \ {sid}
  BY DEF OnRegionEnterAck, Handled
<1>2. PeersTyped'
  <2>1. bound' \subseteq Sids
    <3>1. CASE bound' = bound
      BY <3>1 DEF RegionInv, TypeOK
    <3>2. CASE bound' # bound
      <4>1. ~Refuses(c, "ONREGIONENTERACK") /\ bound' = bound \cup {ctx[c].sess}
        BY <3>2 DEF OnRegionEnterAck, EnterAck
      <4>2. ctx[c].sess \in Sids
        BY <4>1, PlayerLive DEF Refuses, RegionInv, PlayersSound, LiveFilled
      <4> QED
        BY <4>1, <4>2 DEF RegionInv, TypeOK
    <3> QED
      BY <3>1, <3>2
  <2> QED
    BY <2>1 DEF OnRegionEnterAck, PeersTyped, RegionInv, TypeOK
<1>3. CASE UNCHANGED players /\ (~Accepting \/ c = NULL \/ Refuses(c, "ONREGIONENTERACK"))
  <2>1. \A d \in Contexts :
          /\ status = "NOT_SHUTDOWN"
          /\ ctx[d].st = "REGIONENTERREQ" /\ ~ctx[d].fin /\ Player(ctx[d].sess) = d
          => ctx[d].sess # sid
    <3> SUFFICES ASSUME NEW d \in Contexts, status = "NOT_SHUTDOWN",
                        ctx[d].st = "REGIONENTERREQ", ~ctx[d].fin, c = d
                 PROVE  FALSE
      OBVIOUS
    <3>1. Accepting
      BY DEF Accepting, OnRegionEnterAck
    <3> HIDE DEF c
    <3> QED
      BY <1>3, <3>1, Machine, RegionAssumption DEF Refuses
  <2> QED
    BY <1>1, <1>2, <1>3, <2>1, NobodyMoved
<1>4. CASE c # NULL /\ \E s \in States \ {"REGIONENTERREQ"} :
                         Stay(c, s) \/ ShutdownPlayer(c, s)
  <2>1. c \in Contexts /\ Live(c)
    BY <1>4, PlayerLive DEF RegionInv
  <2>2. \A d \in Contexts : d # c /\ Player(ctx[d].sess) = d => ctx[d].sess # sid
    OBVIOUS
  <2> HIDE DEF c
  <2> QED
    BY <1>1, <1>2, <1>4, <2>1, <2>2, SomebodyMoved
<1>5. CASE c # NULL /\ ShutdownPlayer(c, ctx[c].st)
  <2>1. c \in Contexts /\ Live(c)
    BY <1>5, PlayerLive DEF RegionInv
  <2>2. \A d \in Contexts : d # c /\ Player(ctx[d].sess) = d => ctx[d].sess # sid
    OBVIOUS
  <2>3. ctx[c].st \in States
    BY <2>1 DEF RegionInv, TypeOK, PlayerRecords
  <2> HIDE DEF c
  <2> QED
    BY <1>1, <1>2, <1>5, <2>1, <2>2, <2>3, SomebodyMoved
<1> QED
  BY <1>3, <1>4, <1>5, Machine DEF OnRegionEnterAck, EnterAck, Refuses

\* OnClientTimeReq
LEMMA ClientTimeKeeps ==
  ASSUME RegionInv, NEW sid \in Sids, NEW outcome \in ClientTimeOutcomes,
         OnClientTimeReq(sid, outcome)
  PROVE  RegionInv'
<1> DEFINE c == Player(sid)
<1>1. Handled /\ owes' = owes
  BY DEF OnClientTimeReq, Handled, peers
<1>2. PeersTyped'
  BY DEF OnClientTimeReq, PeersTyped, RegionInv, TypeOK, peers
<1>3. c \in Contexts /\ Live(c)
  BY PlayerLive DEF OnClientTimeReq, Refuses, RegionInv
<1>4. PICK s \in {"ONCLIENTTIMEREQ", "SERVERTIME2NTF", "INITAVATARNTF"} :
        Stay(c, s) \/ ShutdownPlayer(c, s)
  BY DEF OnClientTimeReq, ClientTime, ClientTimeOutcomes
<1> HIDE DEF c
<1> QED
  BY <1>1, <1>2, <1>3, <1>4, SomebodyMoved, Machine

-----------------------------------------------------------------------------
(* A new player, and the deletion of one. *)

\* A context is in use: it is filed where there is room, or its index is
\* blocked.
LEMMA AllocReqKeeps ==
  ASSUME RegionInv, NEW sid \in Sids, NEW a \in Avatars, NEW ok \in SendResults,
         OnRegionAllocReq(sid, a, ok)
  PROVE  RegionInv'
<1> DEFINE i == SlotOf(sid)
<1>1. CASE UNCHANGED <<players, indexes, acks>>
  <2>1. Handled /\ owes' = owes /\ UNCHANGED players
    BY <1>1 DEF OnRegionAllocReq, Handled
  <2>2. PeersTyped'
    BY <1>1 DEF OnRegionAllocReq, PeersTyped, RegionInv, TypeOK, MasterAt
  <2> QED
    BY <2>1, <2>2, NobodyMoved
<1>2. ASSUME NEW c \in free,
             free' = free \ {c}, count' = Counted,
             byAvatar' = [byAvatar EXCEPT ![a] = IF @ = NULL THEN c ELSE @],
             slot' = File(i, c),
             blocked' = blocked \cup { j \in {i} : slot[j] # NULL },
             ContextOnRegionAllocReq(c, sid, a, ok)
      PROVE  RegionInv'
  <2>1. c \in Contexts /\ ctx[c] = Blank /\ ~ctx[c].fin /\ i \in Slots
    <3>1. c \in Contexts /\ i \in Slots
      BY SlotOfSid DEF RegionInv, TypeOK
    <3>2. ctx[c] = Blank
      BY <3>1 DEF RegionInv, PlayersSound, PlayersAccounted
    <3> QED
      BY <3>1, <3>2 DEF Blank
  <2>2. PICK s \in {"ONREGIONALLOCREQ", "REGIONALLOCACK"}, f \in BOOLEAN, p \in PlayerRecords :
          /\ ctx' = [ctx EXCEPT ![c] = p]
          /\ p.st = s /\ p.sess = sid /\ p.avatar = a /\ p.fin = f
          /\ queue' = IF f THEN Append(queue, c) ELSE queue
          /\ acks' \in {acks, acks \cup {sid}}
    <3> DEFINE player == [ctx[c] EXCEPT !.st = "ONREGIONALLOCREQ", !.sess = sid, !.avatar = a]
    <3>1. /\ player \in PlayerRecords
          /\ player.st = "ONREGIONALLOCREQ" /\ player.sess = sid /\ player.avatar = a
          /\ player.fin = FALSE
      <4>1. ctx[c] \in PlayerRecords /\ ctx[c].fin = FALSE
        BY <2>1, BlankType DEF Blank
      <4> QED
        BY <4>1, Machine DEF PlayerRecords
    <3>2. \/ /\ ctx' = [ctx EXCEPT ![c] = [player EXCEPT !.st = After(@, "REGIONALLOCACK")]]
             /\ acks' = acks \cup {sid} /\ queue' = queue
          \/ /\ ctx' = [ctx EXCEPT ![c] = [player EXCEPT !.fin = TRUE]]
             /\ acks' = acks /\ queue' = Append(queue, c)
      BY <1>2, <2>1 DEF ContextOnRegionAllocReq, Queue
    <3> HIDE DEF player
    <3> DEFINE p1 == [player EXCEPT !.st = After(@, "REGIONALLOCACK")]
               p2 == [player EXCEPT !.fin = TRUE]
    <3>3. /\ p1 \in PlayerRecords
          /\ p1.st = "REGIONALLOCACK" /\ p1.sess = sid /\ p1.avatar = a /\ p1.fin = FALSE
      BY <3>1, Machine DEF PlayerRecords
    <3>4. /\ p2 \in PlayerRecords
          /\ p2.st = "ONREGIONALLOCREQ" /\ p2.sess = sid /\ p2.avatar = a /\ p2.fin = TRUE
      BY <3>1 DEF PlayerRecords
    <3>5. CASE ctx' = [ctx EXCEPT ![c] = p1] /\ acks' = acks \cup {sid} /\ queue' = queue
      <4> HIDE DEF p1
      <4> QED
        BY <3>3, <3>5
    <3>6. CASE ctx' = [ctx EXCEPT ![c] = p2] /\ acks' = acks /\ queue' = Append(queue, c)
      <4> HIDE DEF p2
      <4> QED
        BY <3>4, <3>6
    <3> QED
      BY <3>2, <3>5, <3>6
  <2>3. /\ ctx' \in [Contexts -> PlayerRecords]
        /\ \A d \in Contexts : d # c => ctx'[d] = ctx[d]
        /\ ctx'[c].st = s /\ ctx'[c].sess = sid /\ ctx'[c].avatar = a /\ ctx'[c].fin = f
    BY <2>1, <2>2 DEF RegionInv, TypeOK
  <2>4. /\ queue' \in Seq(Contexts)
        /\ \A j, k \in 1 .. Len(queue') : queue'[j] = queue'[k] => j = k
        /\ \A d \in Contexts : Queued(d)' <=> (d = c /\ f) \/ Queued(d)
    <3>1. \A j \in 1 .. Len(queue) : queue[j] # c
      BY <2>1 DEF RegionInv, PlayersSound, PlayersAccounted, Queued
    <3>2. \A j, k \in 1 .. Len(queue) : queue[j] = queue[k] => j = k
      BY DEF RegionInv, PlayersSound, PlayersAccounted
    <3>3. CASE f
      <4>1. queue' = Append(queue, c) /\ queue \in Seq(Contexts)
        BY <2>2, <3>3 DEF RegionInv, TypeOK
      <4>2. /\ queue' \in Seq(Contexts)
            /\ \A j, k \in 1 .. Len(queue') : queue'[j] = queue'[k] => j = k
            /\ \A d : Queued(d)' <=> d = c \/ Queued(d)
        BY <2>1, <3>1, <3>2, <4>1, AppendOnce DEF Queued
      <4> QED
        BY <3>3, <4>2
    <3>4. CASE ~f
      BY <2>2, <3>2, <3>4 DEF RegionInv, TypeOK, Queued
    <3> QED
      BY <3>3, <3>4
  <2>5. /\ slot' \in [Slots -> Contexts \cup {NULL}]
        /\ \A j \in Slots : slot'[j] = IF j = i /\ slot[i] = NULL THEN c ELSE slot[j]
        /\ byAvatar' \in [Avatars -> Contexts \cup {NULL}]
        /\ \A b \in Avatars : byAvatar'[b] = IF b = a /\ byAvatar[a] = NULL THEN c ELSE byAvatar[b]
    BY <1>2, <2>1 DEF File, RegionInv, TypeOK
  <2>6. /\ Contexts \ free' = (Contexts \ free) \cup {c}
        /\ c \notin Contexts \ free /\ IsFiniteSet(Contexts \ free)
    <3>1. IsFiniteSet(Contexts \ free)
      BY RegionAssumption, FS_Difference
    <3> QED
      BY <1>2, <2>1, <3>1
  <2>7. count' = Cardinality(Contexts \ free') /\ count' \in Nat
    <3> DEFINE U == Contexts \ free
    <3>1. count = Cardinality(U) /\ Cardinality(U) \in Nat
      BY <2>6, FS_CardinalityType DEF RegionInv, PlayersSound, PlayersAccounted
    <3>2. Cardinality(U \cup {c}) = Cardinality(U) + 1
      BY <2>6, FS_AddElement
    <3>3. Contexts \ free' = U \cup {c} /\ count' = count + 1
      BY <1>2, <2>6 DEF Counted
    <3> HIDE DEF U
    <3>4. Cardinality(Contexts \ free') = Cardinality(U \cup {c})
      BY <3>3, Zenon
    <3> QED
      BY <3>1, <3>2, <3>3, <3>4
  <2>8. TypeOK'
    BY <1>2, <2>1, <2>2, <2>3, <2>4, <2>5, <2>7 DEF OnRegionAllocReq, MasterAt, RegionInv, TypeOK
  <2>9. PlayersAccounted'
    <3>1. \A d \in Contexts : d \in free' => ctx'[d] = Blank
      BY <1>2, <2>3 DEF RegionInv, PlayersSound, PlayersAccounted
    <3>2. \A d \in Contexts : ctx'[d].fin <=> Queued(d)'
      <4>1. ~Queued(c)
        BY <2>1 DEF RegionInv, PlayersSound, PlayersAccounted
      <4>2. ctx'[c].fin = f
        BY <2>3
      <4>3. \A d \in Contexts : ctx[d].fin <=> Queued(d)
        BY DEF RegionInv, PlayersSound, PlayersAccounted
      <4> QED
        BY <2>3, <2>4, <4>1, <4>2, <4>3
    <3> QED
      BY <2>4, <2>7, <3>1, <3>2 DEF PlayersAccounted
  <2>10. IndexesSound'
    <3>1. \A d \in Contexts : Live(d) => d # c /\ Live(d)'
      BY <1>2 DEF Live
    <3>2. Live(c)' /\ SlotOf(ctx'[c].sess) = i /\ ctx'[c].avatar = a
      BY <1>2, <2>3 DEF Live
    <3>3. \A j \in Slots : slot'[j] # NULL => Live(slot[j])' /\ SlotOf(ctx'[slot'[j]].sess) = j
      BY <2>3, <2>5, <3>1, <3>2 DEF Live, RegionInv, PlayersSound, IndexesSound, TypeOK
    <3>4. \A b \in Avatars :
            byAvatar'[b] # NULL => Live(byAvatar[b])' /\ ctx'[byAvatar'[b]].avatar = b
      BY <2>3, <2>5, <3>1, <3>2 DEF Live, RegionInv, PlayersSound, IndexesSound, TypeOK
    <3> QED
      BY <3>3, <3>4 DEF IndexesSound
  <2>11. OwnPlayer'
    <3> SUFFICES ASSUME NEW d \in Contexts, d \notin free', SlotOf(ctx'[d].sess) \notin blocked'
                 PROVE  slot'[SlotOf(ctx'[d].sess)] = d
      BY DEF OwnPlayer, Live, Player
    <3>1. CASE d = c
      <4>1. SlotOf(ctx'[d].sess) = i
        BY <2>3, <3>1
      <4>2. slot[i] = NULL
        BY <1>2, <4>1
      <4> QED
        BY <2>1, <2>5, <3>1, <4>1, <4>2
    <3>2. CASE d # c
      <4> DEFINE j == SlotOf(ctx[d].sess)
      <4>1. ctx'[d] = ctx[d] /\ Live(d) /\ j \notin blocked /\ j \in Slots
        BY <1>2, <2>3, <3>2, SlotOfSid DEF Live, RegionInv, PlayersSound, LiveFilled
      <4>2. slot[j] = d
        BY <4>1 DEF RegionInv, PlayersSound, OwnPlayer, Player
      <4> QED
        BY <2>5, <4>1, <4>2, RegionAssumption
    <3> QED
      BY <3>1, <3>2
  <2>12. LiveFilled'
    BY <1>2, <2>3 DEF LiveFilled, Live, RegionInv, PlayersSound
  <2>13. EnteringIsAnswered'
    <3> SUFFICES ASSUME NEW d \in Contexts, ctx'[d].st = "REGIONENTERREQ", ~ctx'[d].fin,
                        status' = "NOT_SHUTDOWN", slot'[SlotOf(ctx'[d].sess)] = d
                 PROVE  ctx'[d].sess \in owes'
      BY DEF EnteringIsAnswered, Player
    <3>1. d # c
      BY <2>2, <2>3
    <3>2. ctx'[d] = ctx[d] /\ owes' = owes /\ status' = status
      BY <2>3, <3>1 DEF OnRegionAllocReq
    <3>3. slot[SlotOf(ctx[d].sess)] = d
      BY <1>2, <3>1, <3>2 DEF File, RegionInv, TypeOK
    <3> QED
      BY <3>2, <3>3 DEF RegionInv, EnteringIsAnswered, Player
  <2> QED
    BY <2>8, <2>9, <2>10, <2>11, <2>12, <2>13 DEF RegionInv, PlayersSound
<1> QED
  BY <1>1, <1>2 DEF OnRegionAllocReq

\* _Loop with one player in the queue: the player is in use, and the entries it
\* leaves behind are its own.
LEMMA LoopKeeps == ASSUME RegionInv, Loop PROVE RegionInv'
<1> DEFINE c == Head(queue)
           i == SlotOf(ctx[c].sess)
           a == ctx[c].avatar
<1>1. Len(queue) = 1 /\ queue \in Seq(Contexts) /\ c \in Contexts /\ queue[1] = c
  <2>1. Len(queue) = 1 /\ queue \in Seq(Contexts)
    BY DEF Loop, RegionInv, TypeOK
  <2>2. queue # <<>> /\ queue[1] \in Contexts
    BY <2>1
  <2> QED
    BY <2>1, <2>2
<1>2. Queued(c) /\ \A d \in Contexts : Queued(d) => d = c
  BY <1>1 DEF Queued
<1>3. ctx[c].fin /\ Live(c) /\ ctx[c].sess \in Sids /\ a \in Avatars /\ i \in Slots
  <2>1. ctx[c].fin
    BY <1>1, <1>2 DEF RegionInv, PlayersSound, PlayersAccounted
  <2>2. c \notin free
    <3>1. c \in free => ctx[c] = Blank
      BY <1>1 DEF RegionInv, PlayersSound, PlayersAccounted
    <3> QED
      BY <2>1, <3>1 DEF Blank
  <2> QED
    BY <1>1, <2>1, <2>2, SlotOfSid DEF Live, RegionInv, PlayersSound, LiveFilled
<1>4. /\ ctx' \in [Contexts -> PlayerRecords] /\ ctx'[c] = Blank
      /\ \A d \in Contexts : d # c => ctx'[d] = ctx[d]
  BY <1>1, BlankType DEF Loop, DeletePlayer, RegionInv, TypeOK
<1>5. /\ slot' \in [Slots -> Contexts \cup {NULL}] /\ slot'[i] = NULL
      /\ \A j \in Slots : j # i => slot'[j] = slot[j]
  BY <1>3 DEF Loop, DeletePlayer, EmptyEntry, RegionInv, TypeOK
<1>6. /\ byAvatar' \in [Avatars -> Contexts \cup {NULL}]
      /\ \A b \in Avatars : b # a => byAvatar'[b] = byAvatar[b]
      /\ byAvatar'[a] # NULL => byAvatar'[a] = byAvatar[a] /\ byAvatar[a] # c
  <2>1. byAvatar' = [byAvatar EXCEPT ![a] =
                       IF byAvatar[a] = NULL THEN byAvatar[a]
                       ELSE IF SameSession(c, byAvatar[a]) THEN NULL ELSE byAvatar[a]]
    BY DEF Loop, DeletePlayer
  <2>2. byAvatar[a] = c => SameSession(c, byAvatar[a])
    BY DEF SameSession
  <2> QED
    BY <1>3, <2>1, <2>2 DEF RegionInv, TypeOK
<1>7. queue' = <<>> /\ free' = free \cup {c} /\ count' = count - 1 /\ blocked' = blocked
      /\ UNCHANGED <<peers, status, overrun>>
  BY DEF Loop, DeletePlayer
<1> HIDE DEF c, i, a
<1>8. count' = Cardinality(Contexts \ free') /\ count' \in Nat
  <2> DEFINE U == Contexts \ free
  <2>1. U \in SUBSET Contexts /\ c \in U /\ Contexts \ free' = U \ {c}
    BY <1>1, <1>3, <1>7 DEF Live
  <2>2. IsFiniteSet(U)
    BY RegionAssumption, FS_Difference
  <2>3. count = Cardinality(U)
    BY DEF RegionInv, PlayersSound, PlayersAccounted
  <2> HIDE DEF U
  <2>4. Cardinality(U \ {c}) = Cardinality(U) - 1
    BY <2>1, <2>2, FS_RemoveElement
  <2>5. IsFiniteSet(U \ {c}) /\ Cardinality(U \ {c}) \in Nat
    BY <2>2, FS_RemoveElement, FS_CardinalityType
  <2> QED
    BY <1>7, <2>1, <2>3, <2>4, <2>5
<1>9. TypeOK'
  BY <1>1, <1>4, <1>5, <1>6, <1>7, <1>8 DEF RegionInv, TypeOK, peers
<1>10. PlayersAccounted'
  <2>1. \A d \in Contexts : ~Queued(d)'
    BY <1>7 DEF Queued
  <2>2. \A d \in Contexts : ~ctx'[d].fin
    <3>1. ~Blank.fin
      BY DEF Blank
    <3> QED
      BY <1>2, <1>4, <3>1 DEF RegionInv, PlayersSound, PlayersAccounted
  <2>3. \A d \in Contexts : d \in free' => ctx'[d] = Blank
    BY <1>4, <1>7 DEF RegionInv, PlayersSound, PlayersAccounted
  <2>4. \A j, k \in 1 .. Len(queue') : queue'[j] = queue'[k] => j = k
    BY <1>7
  <2> QED
    BY <1>8, <2>1, <2>2, <2>3, <2>4 DEF PlayersAccounted
<1>11. IndexesSound'
  <2>1. \A d \in Contexts : Live(d) /\ d # c => Live(d)' /\ ctx'[d] = ctx[d]
    BY <1>4, <1>7 DEF Live
  <2>2. ASSUME NEW j \in Slots, slot'[j] # NULL
        PROVE  slot'[j] \notin free' /\ SlotOf(ctx'[slot'[j]].sess) = j
    <3>1. j # i /\ slot'[j] = slot[j]
      BY <1>5, <2>2
    <3>2. Live(slot[j]) /\ SlotOf(ctx[slot[j]].sess) = j /\ slot[j] \in Contexts
      BY <2>2, <3>1 DEF RegionInv, PlayersSound, IndexesSound, TypeOK
    <3>3. slot[j] # c
      BY <3>1, <3>2 DEF i
    <3> QED
      BY <2>1, <3>1, <3>2, <3>3 DEF Live
  <2>3. ASSUME NEW b \in Avatars, byAvatar'[b] # NULL
        PROVE  byAvatar'[b] \notin free' /\ ctx'[byAvatar'[b]].avatar = b
    <3>1. byAvatar'[b] = byAvatar[b]
      BY <1>6, <2>3
    <3>2. Live(byAvatar[b]) /\ ctx[byAvatar[b]].avatar = b /\ byAvatar[b] \in Contexts
      BY <2>3, <3>1 DEF RegionInv, PlayersSound, IndexesSound, TypeOK
    <3>3. byAvatar[b] # c
      BY <1>6, <2>3, <3>2 DEF a
    <3> QED
      BY <2>1, <3>1, <3>2, <3>3 DEF Live
  <2> QED
    BY <2>2, <2>3 DEF IndexesSound, Live
<1>12. OwnPlayer'
  <2> SUFFICES ASSUME NEW d \in Contexts, d \notin free', SlotOf(ctx'[d].sess) \notin blocked'
               PROVE  slot'[SlotOf(ctx'[d].sess)] = d
    BY DEF OwnPlayer, Live, Player
  <2>1. d # c /\ Live(d) /\ ctx'[d] = ctx[d]
    BY <1>4, <1>7 DEF Live
  <2>2. slot[SlotOf(ctx[d].sess)] = d /\ SlotOf(ctx[d].sess) \in Slots
    BY <1>7, <2>1, SlotOfSid DEF RegionInv, PlayersSound, OwnPlayer, LiveFilled, Player
  <2>3. SlotOf(ctx[d].sess) # i
    <3>1. i \notin blocked => slot[i] = c
      BY <1>1, <1>3 DEF RegionInv, PlayersSound, OwnPlayer, Player, i
    <3> QED
      BY <1>7, <2>1, <2>2, <3>1
  <2> QED
    BY <1>5, <2>1, <2>2, <2>3
<1>13. LiveFilled'
  BY <1>4, <1>7 DEF LiveFilled, Live, RegionInv, PlayersSound
<1>14. EnteringIsAnswered'
  <2> SUFFICES ASSUME NEW d \in Contexts, ctx'[d].st = "REGIONENTERREQ", ~ctx'[d].fin,
                      status' = "NOT_SHUTDOWN", slot'[SlotOf(ctx'[d].sess)] = d
               PROVE  ctx'[d].sess \in owes'
    BY DEF EnteringIsAnswered, Player
  <2>1. d # c /\ ctx'[d] = ctx[d]
    BY <1>4 DEF Blank
  <2>2. d \in free => ctx[d].st # "REGIONENTERREQ"
    BY DEF RegionInv, PlayersSound, PlayersAccounted, Blank
  <2>3. SlotOf(ctx[d].sess) \in Slots
    BY <2>1, <2>2, SlotOfSid DEF RegionInv, PlayersSound, LiveFilled, Live
  <2>4. slot[SlotOf(ctx[d].sess)] = d
    BY <1>5, <2>1, <2>3, RegionAssumption
  <2> QED
    BY <1>7, <2>1, <2>4 DEF RegionInv, EnteringIsAnswered, Player, peers
<1> QED
  BY <1>9, <1>10, <1>11, <1>12, <1>13, <1>14 DEF RegionInv, PlayersSound

-----------------------------------------------------------------------------
(* Shutdown and a pass with two players change none of this. *)
LEMMA OthersKeep ==
  ASSUME RegionInv, Shutdown \/ LoopOverrun \/ UNCHANGED vars
  PROVE  RegionInv'
<1> USE DEF Shutdown, LoopOverrun, vars, players, indexes, peers
<1>1. UNCHANGED <<players, indexes, peers>>
  OBVIOUS
<1>2. TypeOK'
  BY DEF RegionInv, TypeOK
<1>3. PlayersAccounted'
  BY <1>1 DEF RegionInv, PlayersSound, PlayersAccounted, Queued
<1>4. IndexesSound'
  BY <1>1 DEF RegionInv, PlayersSound, IndexesSound, Live
<1>5. OwnPlayer' /\ LiveFilled' /\ EnteringIsAnswered'
  BY <1>1 DEF RegionInv, PlayersSound, OwnPlayer, LiveFilled, Live, Player, EnteringIsAnswered
<1> QED
  BY <1>2, <1>3, <1>4, <1>5 DEF RegionInv, PlayersSound

LEMMA RegionStart == Init => RegionInv
<1> SUFFICES ASSUME Init PROVE RegionInv
  OBVIOUS
<1> USE DEF Init
<1>1. TypeOK
  <2>1. ctx \in [Contexts -> PlayerRecords]
    BY BlankType
  <2>2. slot \in [Slots -> Contexts \cup {NULL}] /\ byAvatar \in [Avatars -> Contexts \cup {NULL}]
    OBVIOUS
  <2>3. queue \in Seq(Contexts) /\ stage \in [Sids -> {"out", "alloc", "enter", "left"}]
    OBVIOUS
  <2> QED
    BY <2>1, <2>2, <2>3 DEF TypeOK
<1>2. ~Blank.fin /\ Blank.st = "NONE"
  BY DEF Blank
<1>3. PlayersAccounted
  <2>1. Contexts \ free = {} /\ Cardinality({}) = 0
    BY FS_EmptySet
  <2>2. \A c \in Contexts : ~Queued(c) /\ ~ctx[c].fin
    BY <1>2 DEF Queued
  <2>3. \A i, j \in 1 .. Len(queue) : queue[i] = queue[j] => i = j
    OBVIOUS
  <2>4. \A c \in Contexts : ctx[c] = Blank
    OBVIOUS
  <2> HIDE DEF Init
  <2>5. count = 0
    BY DEF Init
  <2> QED
    BY <2>1, <2>2, <2>3, <2>4, <2>5 DEF PlayersAccounted
<1>4. IndexesSound /\ OwnPlayer /\ LiveFilled
  BY DEF IndexesSound, OwnPlayer, LiveFilled, Live
<1>5. EnteringIsAnswered
  BY <1>2 DEF EnteringIsAnswered
<1> QED
  BY <1>1, <1>3, <1>4, <1>5 DEF RegionInv, PlayersSound

LEMMA RegionStep == ASSUME RegionInv, [Next]_vars PROVE RegionInv'
<1>1. ASSUME NEW sid \in Sids, NEW a \in Avatars, NEW ok \in SendResults,
             OnRegionAllocReq(sid, a, ok)
      PROVE  RegionInv'
  BY <1>1, AllocReqKeeps
<1>2. ASSUME NEW sid \in Sids, NEW ok \in SendResults, OnRegionEnterReq(sid, ok)
      PROVE  RegionInv'
  BY <1>2, EnterReqKeeps
<1>3. ASSUME NEW sid \in Sids, NEW sent \in SendResults,
             OnRegionReleaseReq(sid, sent) \/ OnRegionLeaveReq(sid, sent)
      PROVE  RegionInv'
  BY <1>3, LeaveKeeps
<1>4. ASSUME NEW sid \in Sids, GivenUp(sid) PROVE RegionInv'
  BY <1>4, GivenUpKeeps
<1>5. ASSUME NEW sid \in Sids, NEW ret \in {0, -1}, NEW told \in SendResults,
             NEW ok \in SendResults, OnRegionEnterAck(sid, ret, told, ok)
      PROVE  RegionInv'
  BY <1>5, EnterAckKeeps
<1>6. ASSUME NEW sid \in Sids, NEW outcome \in ClientTimeOutcomes, OnClientTimeReq(sid, outcome)
      PROVE  RegionInv'
  BY <1>6, ClientTimeKeeps
<1>7. CASE Loop
  BY <1>7, LoopKeeps
<1>8. CASE Shutdown \/ LoopOverrun \/ UNCHANGED vars
  BY <1>8, OthersKeep
<1> QED
  BY <1>1, <1>2, <1>3, <1>4, <1>5, <1>6, <1>7, <1>8 DEF Next

\* The inductive invariant holds in every reachable state.
LEMMA RegionInvAlways == Spec => []RegionInv
<1>1. Init => RegionInv
  BY RegionStart
<1>2. RegionInv /\ [Next]_vars => RegionInv'
  BY RegionStep
<1> QED
  BY <1>1, <1>2, PTL DEF Spec

-----------------------------------------------------------------------------

\* The variables of RegionServerLoop keep their types; in particular
\* m_iPlayerCount never falls below 0.
THEOREM RegionTypeCorrect == Spec => []TypeOK
<1>1. RegionInv => TypeOK
  BY DEF RegionInv
<1> QED
  BY <1>1, RegionInvAlways, PTL

\* Whatever order commands, acks and passes of _Loop come in: free contexts are
\* blank, m_bFinalizing is set exactly for the players in the finalizing queue,
\* nobody is queued twice, and m_iPlayerCount counts the players in use.
THEOREM PlayersAccountedAlways == Spec => []PlayersAccounted
<1>1. RegionInv => PlayersAccounted
  BY DEF RegionInv, PlayersSound
<1> QED
  BY <1>1, RegionInvAlways, PTL

\* The gates' tables and the index by avatar never lead to a context that is
\* free or has another index or avatar, though a place that is taken is not
\* filed and DeletePlayer empties the place of its index whoever has it.
THEOREM IndexesSoundAlways == Spec => []IndexesSound
<1>1. RegionInv => IndexesSound
  BY DEF RegionInv, PlayersSound
<1> QED
  BY <1>1, RegionInvAlways, PTL

\* Unless the place of its session was taken when a player came, what the
\* master, the cache and the client send for a player in use reaches it.
THEOREM OwnPlayerAlways == Spec => []OwnPlayer
<1>1. RegionInv => OwnPlayer
  BY DEF RegionInv, PlayersSound
<1> QED
  BY <1>1, RegionInvAlways, PTL

\* Until the server is told to shut down and drops the answers, a player in
\* REGIONENTERREQ whom its session still leads to has an answer of the cache
\* coming, however often its index has been used.
THEOREM EnteringIsAnsweredAlways == Spec => []EnteringIsAnswered
<1>1. RegionInv => EnteringIsAnswered
  BY DEF RegionInv
<1> QED
  BY <1>1, RegionInvAlways, PTL
=============================================================================
