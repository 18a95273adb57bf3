---------------------------- MODULE RegionServer ----------------------------
(***************************************************************************)
(* The main loop of a region server: RegionServerLoop and its              *)
(* RegionPlayerContexts (RegionServer/region_server_loop.cpp,              *)
(* region_player_context.cpp), with the master, the cache and the gates as *)
(* far as they decide what arrives here.                                   *)
(*                                                                         *)
(* A gate names a client by an index of its session table and a sequence   *)
(* number that grows when the index is used again; the region server files *)
(* players by the index alone.                                             *)
(*                                                                         *)
(* One action is one command handled to the end or one pass of _Loop.      *)
(* Commands of the master come in the order it sends them, so sending and  *)
(* handling one is a single step; answers of the cache and packets of the  *)
(* gates come over other links, at any later time.                         *)
(***************************************************************************)
EXTENDS Integers, Sequences, FiniteSets, RegionPlayerFsm

CONSTANTS
  Contexts,      \* RegionPlayerContext objects of m_PlayerContextPool
  Slots,         \* session indexes of the gates
  Uses,          \* bound: how often each index is used
  Avatars,       \* avatar ids
  SendResults,   \* can sending fail? {TRUE} or {TRUE, FALSE}
  NULL           \* the null pointer, the id 0

ASSUME RegionAssumption ==
  /\ IsFiniteSet(Contexts) /\ Uses \in [Slots -> Nat]
  /\ SendResults \subseteq BOOLEAN
  /\ NULL \notin Contexts \cup Slots \cup Avatars \cup (Slots \X Nat)

Sids == UNION { {i} \X (1 .. Uses[i]) : i \in Slots }
SlotOf(sid) == sid[1]

VARIABLES
  ctx,           \* the player contexts
  slot,          \* m_arrayPlayerContext of the gates
  byAvatar,      \* m_mPlayerContextByAvatarId
  queue,         \* m_PlayerFinalizingQueue
  free,          \* contexts in m_PlayerContextPool
  count,         \* m_iPlayerCount
  status,        \* m_iShutdownStatus
  stage,         \* where the master is with a session: out, alloc, enter, left
  acks,          \* RegionAllocAcks on their way to the master
  owes,          \* sessions the cache was asked to let in and has not answered
  bound,         \* sessions whose packets the gate sends here
  silent,        \* history: given up by the master, and not handled here
  blocked,       \* history: indexes whose entry was taken when a player came
  overrun        \* history: a pass of _Loop met two players

players    == <<ctx, queue>>
indexes    == <<slot, byAvatar, free, count, blocked>>
peers      == <<stage, acks, owes, bound, silent>>
vars       == <<players, indexes, peers, status, overrun>>

\* RegionPlayerContext::Clear
Blank == [st |-> "NONE", sess |-> NULL, avatar |-> NULL, fin |-> FALSE]

Live(c) == c \notin free

Accepting == status = "NOT_SHUTDOWN" /\ ~overrun

-----------------------------------------------------------------------------
(* ShutdownPlayer and AddPlayerToFinalizingQueue, for a player that is left *)
(* in state s.  Every state of a player in use is among the cases.         *)

\* Variant: m_bFinalizing is not tested.
QueueAgain(c) == Append(queue, c)

Queue(c) == IF ctx[c].fin THEN queue ELSE Append(queue, c)

ShutdownPlayer(c, s) ==
  /\ queue' = Queue(c)
  /\ ctx' = [ctx EXCEPT ![c].st = s, ![c].fin = TRUE]

\* Where a handler leaves the player alone, in state s.
Stay(c, s) ==
  /\ ctx' = [ctx EXCEPT ![c].st = s]
  /\ UNCHANGED queue

-----------------------------------------------------------------------------
(* Commands of the master.  The gate uses an index again when the master   *)
(* has given up the session that had it, and an avatar is in the game for  *)
(* one session at a time.  A command is taken from the queue also when the *)
(* server is about to shut down, but then it is dropped.                   *)

InGame(sid) == stage[sid] \in {"alloc", "enter"}
MasterAt(sid, s) == stage' = [stage EXCEPT ![sid] = s]

MayUse(sid, a) ==
  /\ stage[sid] = "out"
  /\ \A n \in 1 .. sid[2] - 1 : stage[<<SlotOf(sid), n>>] = "left"
  /\ \A t \in Sids : InGame(t) => \A c \in Contexts : ctx[c].sess = t => ctx[c].avatar # a

\* RegionPlayerContext::OnRegionAllocReq; a context of the pool is in NONE.
ContextOnRegionAllocReq(c, sid, a, ok) ==
  LET player == [ctx[c] EXCEPT !.st = "ONREGIONALLOCREQ", !.sess = sid, !.avatar = a]
  IN  \/ /\ ok
         /\ ctx' = [ctx EXCEPT ![c] = [player EXCEPT !.st = After(@, "REGIONALLOCACK")]]
         /\ acks' = acks \cup {sid}
         /\ UNCHANGED queue
      \/ /\ ~ok
         /\ ctx' = [ctx EXCEPT ![c] = [player EXCEPT !.fin = TRUE]]
         /\ queue' = Queue(c)
         /\ UNCHANGED acks

\* _PushPlayerToGateServerContext, whose result nobody looks at.
File(i, c) == [slot EXCEPT ![i] = IF @ = NULL THEN c ELSE @]

\* Variant: the new player is not counted.
Uncounted == count

Counted == count + 1

\* _OnCommandOnRegionAllocReq.  Without a context, nobody answers.
OnRegionAllocReq(sid, a, ok) ==
  /\ ~overrun /\ MayUse(sid, a)
  /\ MasterAt(sid, "alloc")
  /\ \/ /\ ~Accepting \/ free = {}
        /\ UNCHANGED <<players, indexes, acks>>
     \/ \E c \in free :
          /\ Accepting
          /\ free' = free \ {c}
          /\ count' = Counted
          /\ byAvatar' = [byAvatar EXCEPT ![a] = IF @ = NULL THEN c ELSE @]
          /\ slot' = File(SlotOf(sid), c)
          /\ blocked' = blocked \cup { i \in {SlotOf(sid)} : slot[i] # NULL }
          /\ ContextOnRegionAllocReq(c, sid, a, ok)
  /\ UNCHANGED <<status, overrun, owes, bound, silent>>

\* GetPlayerContextBySessionId does not look at the sequence number.
Player(sid) == slot[SlotOf(sid)]

\* A handler that is called does not move the player with event e.
Refuses(c, e) == IF c = NULL THEN TRUE ELSE ctx[c].fin \/ ~Takes(ctx[c].st, e)

\* Variant: a player the cache was not asked about waits for it.
WaitAnyway(c) == Stay(c, "REGIONENTERREQ")

NotAsked(c) == ShutdownPlayer(c, "ONREGIONENTERREQ")

\* The master has the RegionAllocAck and lets the client in (OnRegionEnterReq).
OnRegionEnterReq(sid, ok) ==
  LET c == Player(sid)
      stays == ~Accepting \/ Refuses(c, "ONREGIONENTERREQ")
  IN  /\ ~overrun /\ sid \in acks /\ stage[sid] = "alloc"
      /\ acks' = acks \ {sid}
      /\ MasterAt(sid, "enter")
      /\ \/ /\ stays
            /\ UNCHANGED <<players, owes>>
         \/ /\ ~stays /\ ok
            /\ Stay(c, After("ONREGIONENTERREQ", "REGIONENTERREQ"))
            /\ owes' = owes \cup {ctx[c].sess}
         \/ /\ ~stays /\ ~ok
            /\ NotAsked(c)
            /\ UNCHANGED owes
      /\ UNCHANGED <<indexes, status, overrun, bound, silent>>

\* The master sends the player of sid away with a request that is handled as
\* event e, if the request can be sent (the master goes on when it cannot be)
\* and comes before the shutdown.
SentAway(sid, e, sent) ==
  LET c == Player(sid)
  IN  /\ MasterAt(sid, "left")
      /\ IF sent /\ Accepting
         THEN /\ IF Refuses(c, e) THEN UNCHANGED players ELSE ShutdownPlayer(c, e)
              /\ UNCHANGED silent
         ELSE UNCHANGED players /\ silent' = silent \cup {sid}
      /\ UNCHANGED <<indexes, status, overrun, owes, bound>>

\* The master has the RegionAllocAck and cannot tell the client
\* (OnRegionReleaseReq).
OnRegionReleaseReq(sid, sent) ==
  /\ ~overrun /\ sid \in acks /\ stage[sid] = "alloc"
  /\ acks' = acks \ {sid}
  /\ SentAway(sid, "ONREGIONRELEASEREQ", sent)

\* The master gives the player up while it waits for the RegionAllocAck: its
\* RegionReleaseReq goes to m_iRegionServerId, which the ack would have set.
GivenUp(sid) ==
  /\ stage[sid] = "alloc" /\ ~overrun
  /\ MasterAt(sid, "left")
  /\ acks' = acks \ {sid}
  /\ silent' = silent \cup {sid}
  /\ UNCHANGED <<players, indexes, status, overrun, owes, bound>>

\* OnRegionLeaveReq; the broadcast that follows changes nothing here.
OnRegionLeaveReq(sid, sent) ==
  /\ ~overrun /\ stage[sid] = "enter"
  /\ UNCHANGED acks
  /\ SentAway(sid, "ONREGIONLEAVEREQ", sent)

-----------------------------------------------------------------------------
(* The answer of the cache, and the client *)

\* RegionPlayerContext::OnRegionEnterAck: RegionBindReq to the gate, then the
\* time to the client.
EnterAck(c, told, ok) ==
  /\ bound' = IF told THEN bound \cup {ctx[c].sess} ELSE bound
  /\ IF told /\ ok THEN Stay(c, After("ONREGIONENTERACK", "SERVERTIMENTF"))
     ELSE ShutdownPlayer(c, "ONREGIONENTERACK")

\* _OnCommandOnRegionEnterAck
OnRegionEnterAck(sid, ret, told, ok) ==
  LET c == Player(sid)
  IN  /\ ~overrun /\ sid \in owes
      /\ owes' = owes \ {sid}
      /\ \/ /\ ~Accepting
            /\ UNCHANGED <<players, bound>>
         \/ /\ Accepting /\ ret # 0
            /\ IF c = NULL THEN UNCHANGED players ELSE ShutdownPlayer(c, ctx[c].st)
            /\ UNCHANGED bound
         \/ /\ Accepting /\ ret = 0 /\ Refuses(c, "ONREGIONENTERACK")
            /\ UNCHANGED <<players, bound>>
         \/ /\ Accepting /\ ret = 0 /\ ~Refuses(c, "ONREGIONENTERACK")
            /\ EnterAck(c, told, ok)
      /\ UNCHANGED <<indexes, status, overrun, stage, acks, silent>>

\* How far OnClientTimeReq gets: the time cannot be sent, the initial data
\* cannot be sent, the name has no UTF-8 form of that length (which only ends
\* this step), something later cannot be sent, or all is well.
ClientTimeOutcomes ==
  {"done", "unnamed"} \cup (IF FALSE \in SendResults THEN {"notime", "nodata", "late"} ELSE {})

ClientTime(c, outcome) ==
  CASE outcome = "notime"  -> ShutdownPlayer(c, "ONCLIENTTIMEREQ")
    [] outcome = "nodata"  -> ShutdownPlayer(c, "SERVERTIME2NTF")
    [] outcome = "unnamed" -> Stay(c, "SERVERTIME2NTF")
    [] outcome = "late"    -> ShutdownPlayer(c, "INITAVATARNTF")
    [] outcome = "done"    -> Stay(c, "INITAVATARNTF")

\* OnClientTimeReq in a packet of the client.  RegionChatReq changes nothing.
OnClientTimeReq(sid, outcome) ==
  LET c == Player(sid)
  IN  /\ Accepting /\ sid \in bound
      /\ ~Refuses(c, "ONCLIENTTIMEREQ")
      /\ ClientTime(c, outcome)
      /\ UNCHANGED <<indexes, peers, status, overrun>>

-----------------------------------------------------------------------------
(* Shutdown and the periodic pass *)

\* _OnCommandShutdown.  Nothing in this server sets READY_FOR_SHUTDOWN.
Shutdown ==
  /\ Accepting
  /\ status' = "START_SHUTDOWN"
  /\ UNCHANGED <<players, indexes, peers, overrun>>

\* The entry of the avatar is this player's.
SameSession(c, d) == ctx[d].sess = ctx[c].sess

\* Variant: every entry of the gate's table is emptied.
EmptyTable(i) == [j \in Slots |-> NULL]

\* Variant: the entry of the gate's table is kept.
KeepEntry(i) == slot

EmptyEntry(i) == [slot EXCEPT ![i] = NULL]

\* DeletePlayer
DeletePlayer(c) ==
  LET a == ctx[c].avatar
      i == SlotOf(ctx[c].sess)
  IN  /\ byAvatar' = [byAvatar EXCEPT ![a] =
                        IF @ = NULL THEN @ ELSE IF SameSession(c, @) THEN NULL ELSE @]
      /\ slot' = EmptyEntry(i)
      /\ ctx' = [ctx EXCEPT ![c] = Blank]
      /\ count' = count - 1
      /\ free' = free \cup {c}
      /\ UNCHANGED blocked

\* _Loop with one player in the queue.
Loop ==
  /\ ~overrun /\ Len(queue) = 1
  /\ DeletePlayer(Head(queue))
  /\ queue' = <<>>
  /\ UNCHANGED <<peers, status, overrun>>

\* _Loop with more than one: it deletes the back of the queue and pops the
\* front, and the second DeletePlayer of one player looks for the table of
\* gate 0, which is not there.
LoopOverrun ==
  /\ ~overrun /\ Len(queue) > 1
  /\ overrun' = TRUE
  /\ UNCHANGED <<players, indexes, peers, status>>

-----------------------------------------------------------------------------

Init ==
  /\ ctx = [c \in Contexts |-> Blank]
  /\ slot = [i \in Slots |-> NULL]
  /\ byAvatar = [a \in Avatars |-> NULL]
  /\ queue = <<>>
  /\ free = Contexts /\ count = 0
  /\ status = "NOT_SHUTDOWN"
  /\ stage = [sid \in Sids |-> "out"]
  /\ acks = {} /\ owes = {} /\ bound = {} /\ silent = {} /\ blocked = {}
  /\ overrun = FALSE

Next ==
  \/ \E sid \in Sids :
       \/ \E a \in Avatars, ok \in SendResults : OnRegionAllocReq(sid, a, ok)
       \/ \E ok \in SendResults : OnRegionEnterReq(sid, ok)
       \/ GivenUp(sid)
       \/ \E sent \in SendResults : OnRegionReleaseReq(sid, sent) \/ OnRegionLeaveReq(sid, sent)
       \/ \E ret \in {0, -1}, told \in SendResults, ok \in SendResults :
            OnRegionEnterAck(sid, ret, told, ok)
       \/ \E outcome \in ClientTimeOutcomes : OnClientTimeReq(sid, outcome)
  \/ Shutdown
  \/ Loop
  \/ LoopOverrun

Spec == Init /\ [][Next]_vars

\* The logic thread runs _Loop again and again.
FairSpec == Spec /\ WF_vars(Loop \/ LoopOverrun)

-----------------------------------------------------------------------------
(* Type invariant *)

PlayerRecords == [st : States, sess : Sids \cup {NULL}, avatar : Avatars \cup {NULL},
                  fin : BOOLEAN]

\* The variables hold what their C++ declarations let them hold.
TypeOK ==
  /\ ctx \in [Contexts -> PlayerRecords]
  /\ slot \in [Slots -> Contexts \cup {NULL}]
  /\ byAvatar \in [Avatars -> Contexts \cup {NULL}]
  /\ queue \in Seq(Contexts)
  /\ free \subseteq Contexts /\ count \in Nat
  /\ status \in {"NOT_SHUTDOWN", "START_SHUTDOWN"}
  /\ stage \in [Sids -> {"out", "alloc", "enter", "left"}]
  /\ acks \subseteq Sids /\ owes \subseteq Sids /\ bound \subseteq Sids
  /\ silent \subseteq Sids /\ blocked \subseteq Slots
  /\ overrun \in BOOLEAN

-----------------------------------------------------------------------------

Queued(c) == \E i \in 1 .. Len(queue) : queue[i] = c

\* Pool, queue and m_bFinalizing agree: what is free is blank, what is marked
\* as leaving is in use and queued once, and the count is that of the players.
PlayersAccounted ==
  /\ \A c \in Contexts : c \in free => ctx[c] = Blank
  /\ \A c \in Contexts : ctx[c].fin <=> Queued(c)
  /\ \A i, j \in 1 .. Len(queue) : queue[i] = queue[j] => i = j
  /\ count = Cardinality(Contexts \ free)

\* Neither index leads to a context that is back in the pool or has another
\* player, also when an index or an avatar is used again before the one that
\* had it is deleted.
IndexesSound ==
  /\ \A i \in Slots : slot[i] # NULL => Live(slot[i]) /\ SlotOf(ctx[slot[i]].sess) = i
  /\ \A a \in Avatars : byAvatar[a] # NULL => Live(byAvatar[a]) /\ ctx[byAvatar[a]].avatar = a

\* A player in use is the one its session leads to, so that what the master,
\* the cache and the client say reaches it, unless the place of its session was
\* taken when a player came.
OwnPlayer ==
  \A c \in Contexts :
    Live(c) /\ SlotOf(ctx[c].sess) \notin blocked => Player(ctx[c].sess) = c

\* A player who waits for the cache is one the cache has been asked about,
\* unless the deletion of another player of its index has emptied its place, so
\* that the answer finds nobody, or the server is about to shut down, when the
\* answer is dropped: then the player waits for ever.
EnteringIsAnswered ==
  \A c \in Contexts :
    status = "NOT_SHUTDOWN" /\ ctx[c].st = "REGIONENTERREQ" /\ ~ctx[c].fin /\ Player(ctx[c].sess) = c =>
      ctx[c].sess \in owes

\* A player the master has given up leaves.  The code makes exceptions: the
\* master's request was not handled here (silent: it was never sent because the
\* RegionAllocAck was still to come, its sending failed, or it came after the
\* shutdown had started), the player has come as far as INITAVATARNTF, its place
\* was taken, or a pass of _Loop met two players.
AbandonedPlayersLeave ==
  \A sid \in Sids :
    stage[sid] = "left" ~>
      \/ \A c \in Contexts : ctx[c].sess = sid => ctx[c].st = "INITAVATARNTF" /\ ~ctx[c].fin
      \/ sid \in silent \/ SlotOf(sid) \in blocked \/ overrun

-----------------------------------------------------------------------------
(* What assertions of the code say, and the code does not do.              *)

\* OnRegionLeaveReq, _ASSERT "state error": when the master sends a player
\* away, the player is in a state that takes it.
LeaveExpected ==
  \A sid \in Sids :
    Accepting /\ stage[sid] = "enter" /\ Player(sid) # NULL =>
      ctx[Player(sid)].fin \/ Takes(ctx[Player(sid)].st, "ONREGIONLEAVEREQ")
=============================================================================
