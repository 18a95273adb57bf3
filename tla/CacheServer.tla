----------------------------- MODULE CacheServer ----------------------------
(***************************************************************************)
(* The logic thread of the cache server: CacheServerLoop and its           *)
(* CachePlayerContexts (CacheServer/cache_server_loop.cpp,                 *)
(* cache_player_context.cpp, cache_event_result.cpp), on top of the        *)
(* database pool as EventPool describes it and of the tables and           *)
(* procedures of DB/fantuan.sql.                                           *)
(*                                                                         *)
(* One action is one command handled to the end, one database event fired, *)
(* handed back or lost, one result handled, or the end of a pass of _Loop. *)
(* Commands are handled between two passes of _Loop only.                  *)
(*                                                                         *)
(* The master's side of the dialogue with a session, as far as it decides  *)
(* what the master sends, is dialogue and shown; a session id is used for  *)
(* one login.                                                              *)
(***************************************************************************)
EXTENDS Integers, Sequences, FiniteSets, CachePlayerFsm

CONSTANTS
  Contexts,        \* CachePlayerContext objects of m_PlayerContextPool
  Sessions,        \* session ids
  Accounts,        \* account names
  Names,           \* avatar names; an avatar in the database has its name for id
  AvatarCountMax,  \* AVATARCOUNT_MAX
  MaxEvents,       \* bound: events of each id for one session
  Outcomes,        \* of a statement: among "done", "failed", "unreported", "badrow"
  AllocFailures,   \* NULL, and event ids whose allocation may fail
  SendResults,     \* can sending fail? {TRUE} or {TRUE, FALSE}
  Conversions,     \* can converting an avatar fail? {TRUE} or {TRUE, FALSE}
  NULL             \* the null pointer, the id 0, the name of an empty avatar

EventIds == {"GETAVATARLIST", "AVATARCREATE", "AVATARSELECTDATA", "AVATARENTERREGION",
             "AVATARSAVEDATA", "AVATARLOGOUT", "AVATARFINALIZE"}

ASSUME CacheAssumption ==
  /\ MaxEvents \in [EventIds -> Nat]
  /\ IsFiniteSet(Contexts) /\ Cardinality(Contexts) < 65536
  /\ NULL \notin Contexts \cup Sessions \cup Accounts \cup Names \cup EventIds
  /\ SendResults \subseteq BOOLEAN /\ Conversions \subseteq BOOLEAN

VARIABLES
  ctx,             \* the player contexts
  bySession,       \* m_mPlayerContextBySessionId
  byAvatar,        \* m_mPlayerContextByAvatarId
  queue,           \* m_PlayerFinalizingQueue
  freeCnt, used,   \* m_PlayerContextPool
  status,          \* m_iShutdownStatus
  inLoop,          \* _Loop is taking results
  fresh, pending, returned, consumed, freed, lost, open,   \* the database pool
  fired,           \* events whose statement has been executed
  data,            \* the avatars an event asks for or has read
  bad,             \* events with m_iRet = -1
  dbAccounts,      \* table account
  dbAvatars,       \* table avatar: the names of each account, or of none, in order
  account,         \* the account a session was opened for
  dialogue,        \* where the master is with each session
  shown,           \* m_arrayAvatar of the master: the names it was told of
  entering,        \* sessions with a region enter request under way
  failed,          \* history: sessions that met a failed allocation, conversion or send
  overrun,         \* history: one pass of _Loop found two or more players
  wild             \* undefined behaviour has happened

(* The database pool. *)

Events == UNION { [id : {i}, session : Sessions, n : 1 .. MaxEvents[i]] : i \in EventIds }

\* Only the periodic save is pushed without bReturnable.
Answered == { e \in Events : e.id # "AVATARSAVEDATA" }

Pool == INSTANCE EventPool WITH
          EventIdOf <- [e \in Events |-> e.id], Returnable <- Answered

poolVars   == <<fresh, pending, returned, consumed, freed, lost, open>>
dbVars     == <<fired, data, bad, dbAccounts, dbAvatars, wild>>
mapVars    == <<bySession, byAvatar, freeCnt, used>>
loopVars   == <<queue, status, inLoop, overrun>>
masterVars == <<account, dialogue, shown, entering>>
vars == <<ctx, mapVars, loopVars, poolVars, dbVars, masterVars, failed>>

Avatar(name, id) == [name |-> name, id |-> id]

\* CacheAvatarContext::Clear and CachePlayerContext::Clear
Blank == [st |-> "NONE", sess |-> NULL, avatars |-> <<>>, avatar |-> NULL,
          entered |-> FALSE, fin |-> FALSE]

Init ==
  /\ ctx = [c \in Contexts |-> Blank]
  /\ bySession = [s \in Sessions |-> NULL]
  /\ byAvatar = [a \in Names \cup {NULL} |-> NULL]
  /\ queue = <<>>
  /\ freeCnt = [c \in Contexts |-> 1] /\ used = 0
  /\ status = "NOT_SHUTDOWN" /\ inLoop = FALSE
  /\ Pool!PoolInit
  /\ fired = {} /\ bad = {}
  /\ data = [e \in Events |-> <<>>]
  /\ dbAccounts = {} /\ dbAvatars = [a \in Accounts \cup {NULL} |-> <<>>]
  /\ account = [s \in Sessions |-> NULL]
  /\ dialogue = [s \in Sessions |-> "out"]
  /\ shown = [s \in Sessions |-> <<>>]
  /\ entering = {}
  /\ failed = {} /\ overrun = FALSE /\ wild = FALSE

\* Commands are dropped once a shutdown has begun.
Accepting == status = "NOT_SHUTDOWN" /\ ~inLoop

-----------------------------------------------------------------------------
(* Pushing events *)

FreshOf(id, s) == { e \in fresh : e.id = id /\ e.session = s }

\* The next k events of an id for a session; the bound is in the guard of Push.
NextOf(id, s, k) ==
  { e \in FreshOf(id, s) : Cardinality({ f \in FreshOf(id, s) : f.n < e.n }) < k }

Push(E) ==
  /\ fresh' = fresh \ E
  /\ pending' = pending \cup E
  /\ UNCHANGED <<returned, consumed, freed, lost, open>>

\* A handler that pushes one event with its arguments for context c, unless
\* the allocation fails.
PushFor(c, id, args, alloc) ==
  LET E == IF alloc = id THEN {} ELSE NextOf(id, ctx[c].sess, 1)
  IN  /\ alloc # id => E # {}
      /\ Push(E)
      /\ data' = [e \in Events |-> IF e \in E THEN args ELSE data[e]]
      /\ failed' = IF alloc = id THEN failed \cup {ctx[c].sess} ELSE failed
      /\ UNCHANGED <<fired, bad, dbAccounts, dbAvatars, wild>>

NoPush == UNCHANGED <<poolVars, dbVars, failed>>

-----------------------------------------------------------------------------
(* Commands of the master *)

Live(c) == freeCnt[c] = 0

\* MasterServerLoop lets an account in once at a time.
LoggedIn(a) == \E t \in Sessions : account[t] = a /\ dialogue[t] \notin {"out", "bye"}

MasterIs(s, d) == dialogue' = [dialogue EXCEPT ![s] = d]

\* CachePlayerContext::OnLoginReq; a context of the pool is in state NONE.
ContextOnLoginReq(c, s) ==
  IF Takes(ctx[c].st, "ONLOGINREQ")
  THEN [ctx EXCEPT ![c].st = After(@, "ONLOGINREQ"), ![c].sess = s]
  ELSE ctx

\* _OnCommandOnLoginReq with ObjectPool::Allocate: without a context the
\* command is forgotten, and the master does not know.
OnLoginReq(s, a) ==
  /\ Accepting /\ dialogue[s] = "out" /\ ~LoggedIn(a)
  /\ account' = [account EXCEPT ![s] = a]
  /\ MasterIs(s, "login")
  /\ \/ /\ used >= Cardinality(Contexts)
        /\ UNCHANGED <<ctx, bySession, freeCnt, used>>
     \/ \E c \in Contexts :
          /\ used < Cardinality(Contexts) /\ freeCnt[c] > 0
          /\ freeCnt' = [freeCnt EXCEPT ![c] = @ - 1]
          /\ used' = used + 1
          /\ bySession' = [bySession EXCEPT ![s] = c]
          /\ ctx' = ContextOnLoginReq(c, s)
  /\ NoPush
  /\ UNCHANGED <<byAvatar, loopVars, shown, entering>>

\* A request of the master for session s that its context refuses, or for
\* which there is no context, changes nothing here.
Refused(s, event) ==
  IF bySession[s] = NULL THEN TRUE ELSE ~Takes(ctx[bySession[s]].st, event)

Step(c, event) == [ctx EXCEPT ![c].st = After(@, event)]

\* What the master makes of AvatarListAck, OnAvatarListAck of its player.
MasterListAck(s, ok, names, ret) ==
  LET heard == ok /\ dialogue[s] = "listwait"
  IN  /\ dialogue' = [dialogue EXCEPT ![s] =
                        IF ~heard THEN @ ELSE IF ret = 0 THEN "list" ELSE "leaving"]
      /\ shown' = [shown EXCEPT ![s] = IF heard /\ ret = 0 THEN names ELSE @]
      /\ UNCHANGED <<account, entering>>

\* After a request the master waits, unless the allocation of the event failed
\* and the answer to that has reached it.
MasterWaits(alloc, ok) == alloc = NULL \/ ~ok

\* OnAvatarListReq.  Without an event an empty list is sent at once, which may
\* fail like any send, and the context keeps waiting.
OnAvatarListReq(s, alloc, ok) ==
  LET c == bySession[s]
  IN  /\ Accepting /\ dialogue[s] \in {"login", "channel"}
      /\ IF Refused(s, "ONAVATARLISTREQ")
         THEN MasterIs(s, "listwait") /\ NoPush /\ UNCHANGED <<ctx, shown>>
         ELSE /\ ctx' = Step(c, "ONAVATARLISTREQ")
              /\ PushFor(c, "GETAVATARLIST", <<>>, alloc)
              /\ MasterIs(s, IF MasterWaits(alloc, ok) THEN "listwait" ELSE "list")
              /\ shown' = IF MasterWaits(alloc, ok) THEN shown ELSE [shown EXCEPT ![s] = <<>>]
      /\ UNCHANGED <<mapVars, loopVars, account, entering>>

\* OnAvatarCreateReq does not look at the state.  Without an event an avatar
\* that nobody has filled in is sent as a success.
OnAvatarCreateReq(s, name, alloc, ok) ==
  LET c == bySession[s]
  IN  /\ Accepting /\ dialogue[s] = "list" /\ Len(shown[s]) < AvatarCountMax
      /\ IF c = NULL
         THEN MasterIs(s, "createwait") /\ NoPush /\ UNCHANGED shown
         ELSE /\ PushFor(c, "AVATARCREATE", <<Avatar(name, NULL)>>, alloc)
              /\ MasterIs(s, IF MasterWaits(alloc, ok) THEN "createwait" ELSE "list")
              /\ shown' = IF MasterWaits(alloc, ok) THEN shown
                          ELSE [shown EXCEPT ![s] = Append(@, NULL)]
      /\ UNCHANGED <<ctx, mapVars, loopVars, account, entering>>

\* What the loop over m_arrayAvatar in OnAvatarSelectReq can find.
Found(c, name) == { i \in 1 .. Len(ctx[c].avatars) : ctx[c].avatars[i].name = name }

\* OnAvatarSelectReq.  A name that is not in the array leaves the context
\* waiting for an answer to a question it has not asked.
OnAvatarSelectReq(s, name, alloc, ok) ==
  LET c == bySession[s]
  IN  /\ Accepting /\ dialogue[s] = "list"
      /\ \E i \in 1 .. Len(shown[s]) : shown[s][i] = name
      /\ IF Refused(s, "ONAVATARSELECTREQ")
         THEN MasterIs(s, "selectwait") /\ NoPush /\ UNCHANGED ctx
         ELSE /\ ctx' = Step(c, "ONAVATARSELECTREQ")
              /\ IF Found(c, name) = {}
                 THEN MasterIs(s, "selectwait") /\ NoPush
                 ELSE /\ \E i \in Found(c, name) :
                           /\ \A j \in Found(c, name) : i <= j
                           /\ PushFor(c, "AVATARSELECTDATA", <<ctx[c].avatars[i]>>, alloc)
                      /\ MasterIs(s, IF MasterWaits(alloc, ok) THEN "selectwait" ELSE "leaving")
      /\ UNCHANGED <<mapVars, loopVars, account, shown, entering>>

\* The master has a region server take the player in, which asks the cache.
ChannelSelected(s) ==
  /\ ~inLoop /\ dialogue[s] = "channel"
  /\ MasterIs(s, "region")
  /\ entering' = entering \cup {s}
  /\ NoPush
  /\ UNCHANGED <<ctx, mapVars, loopVars, account, shown>>

\* OnRegionEnterReq, a command of the region server: the master's logout may
\* have come first.
OnRegionEnterReq(s, alloc) ==
  LET c == bySession[s]
  IN  /\ Accepting /\ s \in entering
      /\ entering' = entering \ {s}
      /\ IF Refused(s, "ONREGIONENTERREQ")
         THEN NoPush /\ UNCHANGED ctx
         ELSE /\ ctx' = Step(c, "ONREGIONENTERREQ")
              /\ PushFor(c, "AVATARENTERREGION", <<>>, alloc)
      /\ UNCHANGED <<mapVars, loopVars, account, dialogue, shown>>

\* States in which Shutdown has nothing to save and queues the player.
NothingToSave == {"ONLOGINREQ", "ONAVATARLISTREQ", "AVATARLISTACK", "ONAVATARSELECTREQ",
                  "AVATARSELECTACK", "ONREGIONENTERREQ"}

\* Variant: a player who leaves a region is finalized by the event for that.
UnlessEntered(c, alloc) ==
  IF ctx[c].fin \/ ctx[c].entered \/ alloc = "AVATARFINALIZE" THEN 0 ELSE 1

\* How many AVATARFINALIZE events OnLogoutReq pushes: ShutdownPlayer is called
\* once more from OnAvatarLogoutReq when that has no event for itself, and
\* m_bFinalizing is not set yet.
Finalizes(c, alloc) ==
  IF ctx[c].fin \/ alloc = "AVATARFINALIZE" THEN 0
  ELSE IF ctx[c].entered /\ alloc = "AVATARLOGOUT" THEN 2 ELSE 1

\* The events of OnLogoutReq: the avatar leaves its region, the player ends.
LogoutEvents(c, alloc) ==
  NextOf("AVATARLOGOUT", ctx[c].sess, IF ctx[c].entered /\ alloc # "AVATARLOGOUT" THEN 1 ELSE 0)
    \cup NextOf("AVATARFINALIZE", ctx[c].sess, Finalizes(c, alloc))

\* _OnCommandOnLogoutReq and CachePlayerContext::OnLogoutReq
OnLogoutReq(s, alloc) ==
  LET c == bySession[s]
  IN  /\ Accepting /\ dialogue[s] \notin {"out", "bye"}
      /\ MasterIs(s, "bye")
      /\ IF Refused(s, "ONLOGOUTREQ")
         THEN NoPush /\ UNCHANGED ctx
         ELSE /\ ctx' = Step(c, "ONLOGOUTREQ")
              /\ Cardinality(NextOf("AVATARFINALIZE", ctx[c].sess, Finalizes(c, alloc)))
                   = Finalizes(c, alloc)
              /\ Push(LogoutEvents(c, alloc))
              /\ failed' = IF alloc = NULL THEN failed ELSE failed \cup {ctx[c].sess}
              /\ UNCHANGED dbVars
      /\ UNCHANGED <<mapVars, loopVars, account, shown, entering>>

\* _SaveDataToDB for the contexts whose time has come, one event each; it
\* does not look at the state either.
SaveDataToDB(due) ==
  LET E == UNION { NextOf("AVATARSAVEDATA", ctx[c].sess, 1) : c \in due }
  IN  /\ Accepting /\ due # {}
      /\ \A c \in due : /\ \E s \in Sessions : bySession[s] = c
                        /\ ~ctx[c].fin /\ FreshOf("AVATARSAVEDATA", ctx[c].sess) # {}
      /\ Push(E)
      /\ UNCHANGED <<ctx, mapVars, loopVars, dbVars, masterVars, failed>>

\* _OnCommandShutdown
Shutdown ==
  /\ Accepting
  /\ status' = "START_SHUTDOWN"
  /\ NoPush
  /\ UNCHANGED <<ctx, mapVars, queue, inLoop, overrun, masterVars>>

-----------------------------------------------------------------------------
(* The threads of the database pool, with FireEvent of cache_db_event.cpp  *)
(* and the stored procedures.                                              *)

Owns(a, name) == \E i \in 1 .. Len(dbAvatars[a]) : dbAvatars[a][i] = name
Taken(name) == \E a \in Accounts \cup {NULL} : Owns(a, name)
Rows(a) == [i \in 1 .. Len(dbAvatars[a]) |-> Avatar(dbAvatars[a][i], dbAvatars[a][i])]

\* Events whose result depends on when their statement is executed.
Queries(e) == e.id \in {"GETAVATARLIST", "AVATARCREATE"}

\* SP_GetAvatarList creates the account when there is none.  A statement that
\* fails leaves m_iRet as it is, 0; a row that cannot be read sets it.  More
\* rows than AVATARCOUNT_MAX are written past the end of m_arrayAvatar.
GetAvatarList(e, outcome) ==
  LET a == account[e.session]
  IN  /\ dbAccounts' = IF outcome = "failed" THEN dbAccounts ELSE dbAccounts \cup {a}
      /\ data' = [data EXCEPT ![e] =
                    CASE outcome = "done" -> Rows(a)
                      [] outcome = "badrow" -> SubSeq(Rows(a), 1, Len(Rows(a)) - 1)
                      [] OTHER -> <<>>]
      /\ outcome = "badrow" => Rows(a) # <<>>
      /\ bad' = IF outcome = "badrow" THEN bad \cup {e} ELSE bad
      /\ wild' = (outcome \in {"done", "badrow"} /\ Len(Rows(a)) > AvatarCountMax)
      /\ UNCHANGED dbAvatars

\* SP_CreateAvatar returns a row only for a name that is not taken.  In all
\* other cases the id stays 0 and the event reports success.
AvatarCreate(e, outcome) ==
  LET a == account[e.session]
      name == data[e][1].name
      executed == outcome # "failed" /\ ~Taken(name)
      owner == IF a \in dbAccounts THEN a ELSE NULL
  IN  /\ outcome # "badrow"
      /\ dbAvatars' = IF executed THEN [dbAvatars EXCEPT ![owner] = Append(@, name)]
                      ELSE dbAvatars
      /\ data' = [data EXCEPT ![e] =
                    <<Avatar(name, IF executed /\ outcome = "done" THEN name ELSE NULL)>>]
      /\ UNCHANGED <<bad, dbAccounts, wild>>

Fire(e, outcome) ==
  /\ e \in pending \ fired /\ Queries(e)
  /\ fired' = fired \cup {e}
  /\ IF e.id = "GETAVATARLIST" THEN GetAvatarList(e, outcome) ELSE AvatarCreate(e, outcome)
  /\ UNCHANGED <<ctx, mapVars, loopVars, poolVars, masterVars, failed>>

\* An event leaves the hands of the pool.
Finish(e) ==
  /\ \/ (Queries(e) => e \in fired) /\ (Pool!Return(e) \/ Pool!FreeUnanswered(e))
     \/ Pool!Lose(e)
  /\ UNCHANGED <<ctx, mapVars, loopVars, dbVars, masterVars, failed>>

-----------------------------------------------------------------------------
(* _Loop: the results, then the finalizing queue. *)

\* The answer of cache player c reaches the master as ok says.
Noted(c, ok) == failed' = IF ok THEN failed ELSE failed \cup {ctx[c].sess}

\* The avatars the context has after a list.
Listed(c, e) == IF e \in bad THEN ctx[c].avatars ELSE data[e]

\* OnPlayerEventGetAvatarListResult.  When an avatar cannot be converted, the
\* list has been saved and nothing is sent.
GetAvatarListResult(c, e, ok) ==
  IF ~Takes(ctx[c].st, "AVATARLISTACK")
  THEN UNCHANGED <<ctx, masterVars, failed>>
  ELSE /\ ctx' = [ctx EXCEPT ![c].st = After(@, "AVATARLISTACK"),
                             ![c].avatars = Listed(c, e)]
       /\ MasterListAck(ctx[c].sess, ok, [i \in 1 .. Len(data[e]) |-> data[e][i].name],
                        IF e \in bad THEN -1 ELSE 0)
       /\ Noted(c, ok)

\* OnPlayerEventAvatarCreateResult, and OnAvatarCreateAck of the master.  An
\* avatar that cannot be converted is neither added nor answered.
AvatarCreateResult(c, e, ok, converted) ==
  LET s == ctx[c].sess
      heard == ok /\ dialogue[s] = "createwait" /\ Len(shown[s]) < AvatarCountMax
  IN  IF ~converted \/ Len(ctx[c].avatars) >= AvatarCountMax
      THEN Noted(c, converted) /\ UNCHANGED <<ctx, masterVars>>
      ELSE /\ ctx' = [ctx EXCEPT ![c].avatars = @ \o data[e]]
           /\ dialogue' = [dialogue EXCEPT ![s] = IF heard THEN "list" ELSE @]
           /\ shown' = [shown EXCEPT ![s] = IF heard THEN Append(@, data[e][1].name) ELSE @]
           /\ Noted(c, ok)
           /\ UNCHANGED <<account, entering>>

\* The state is tested last in OnPlayerEventAvatarSelectResult; a player that
\* does not pass is shut down.
SelectRefused(c, ok) == ok /\ ~Takes(ctx[c].st, "AVATARSELECTACK") /\ ~ctx[c].fin

\* OnPlayerEventAvatarSelectResult, with the part of Shutdown that queues.  When
\* the name cannot be converted or the answer not be sent, the avatar has been
\* chosen and the state stays.
AvatarSelectResult(c, e, ok) ==
  LET s == ctx[c].sess
      out == SelectRefused(c, ok) /\ ctx[c].st \in NothingToSave
  IN  /\ ctx' = [ctx EXCEPT ![c].avatar = data[e][1].id,
                            ![c].entered = IF ctx[c].avatar = NULL THEN @ ELSE FALSE,
                            ![c].st = IF ok THEN After(@, "AVATARSELECTACK") ELSE @,
                            ![c].fin = @ \/ out]
      /\ queue' = IF out THEN Append(queue, c) ELSE queue
      /\ dialogue' = [dialogue EXCEPT ![s] = IF ok /\ @ = "selectwait" THEN "channel" ELSE @]
      /\ Noted(c, ok)
      /\ UNCHANGED <<account, shown, entering>>

\* The part of Shutdown that pushes an event to save first
SavedFirst(c, e, ok) ==
  IF e.id = "AVATARSELECTDATA" /\ SelectRefused(c, ok) /\ ctx[c].st \notin NothingToSave
  THEN NextOf("AVATARFINALIZE", ctx[c].sess, 1) ELSE {}

\* OnPlayerEventAvatarEnterRegionResult with AddPlayerContextByAvatarId; the
\* map keeps the entry it has.
AvatarEnterRegionResult(c, ok) ==
  /\ ctx' = [ctx EXCEPT ![c].entered = TRUE,
                        ![c].st = IF ok THEN After(@, "REGIONENTERACK") ELSE @]
  /\ byAvatar' = [byAvatar EXCEPT ![ctx[c].avatar] = IF @ = NULL THEN c ELSE @]
  /\ Noted(c, ok)

\* OnPlayerEventAvatarFinalizeResult with AddPlayerToFinalizingQueue
AvatarFinalizeResult(c) ==
  /\ ctx' = [ctx EXCEPT ![c].fin = TRUE]
  /\ queue' = Append(queue, c)

\* OnPlayerEventAvatarLogoutResult
AvatarLogoutResult(c) == ctx' = [ctx EXCEPT ![c].entered = FALSE]

\* _OnPlayerEventResult for the context that is filed under the session.
PlayerEventResult(c, e, ok, converted) ==
  \/ /\ e.id = "GETAVATARLIST"
     /\ GetAvatarListResult(c, e, ok /\ (converted \/ Listed(c, e) = <<>>))
     /\ UNCHANGED <<queue, byAvatar>>
  \/ /\ e.id = "AVATARCREATE" /\ AvatarCreateResult(c, e, ok, converted)
     /\ UNCHANGED <<queue, byAvatar>>
  \/ /\ e.id = "AVATARSELECTDATA" /\ AvatarSelectResult(c, e, ok /\ converted)
     /\ UNCHANGED byAvatar
  \/ /\ e.id = "AVATARENTERREGION" /\ AvatarEnterRegionResult(c, ok)
     /\ UNCHANGED <<queue, masterVars>>
  \/ /\ e.id = "AVATARFINALIZE" /\ AvatarFinalizeResult(c)
     /\ UNCHANGED <<byAvatar, masterVars, failed>>
  \/ /\ e.id = "AVATARLOGOUT" /\ AvatarLogoutResult(c)
     /\ UNCHANGED <<queue, byAvatar, masterVars, failed>>

\* PopFromDBEventReturnList, and what the handler of the result pushes
CollectAndPush(E) ==
  /\ open /\ returned # <<>>
  /\ consumed' = consumed \cup {Head(returned)}
  /\ returned' = Tail(returned)
  /\ fresh' = fresh \ E
  /\ pending' = pending \cup E
  /\ UNCHANGED <<freed, lost, open>>

\* One turn of the first loop of _Loop.  The result is not read again.
DBEventResult(ok, converted) ==
  LET e == Head(returned)
      c == bySession[e.session]
  IN  /\ returned # <<>>
      /\ inLoop' = TRUE
      /\ data' = [data EXCEPT ![e] = <<>>]
      /\ IF c = NULL
         THEN CollectAndPush({}) /\ UNCHANGED <<ctx, byAvatar, queue, masterVars, failed>>
         ELSE /\ CollectAndPush(SavedFirst(c, e, ok /\ converted))
              /\ PlayerEventResult(c, e, ok, converted)
      /\ UNCHANGED <<bySession, freeCnt, used, status, overrun, fired, bad, dbAccounts,
                     dbAvatars, wild>>

\* ObjectPool::Free called n times on c
Free(c, n) ==
  /\ freeCnt' = [freeCnt EXCEPT ![c] = @ + n]
  /\ used' = (used - n) % 65536

WithoutSession(s) == [t \in Sessions |-> IF t = s THEN NULL ELSE bySession[t]]
WithoutAvatar(A) == [a \in DOMAIN byAvatar |-> IF a \in A THEN NULL ELSE byAvatar[a]]

\* Variants: one of the three is forgotten.
KeepSession(c, n) ==
  /\ byAvatar' = WithoutAvatar({ctx[c].avatar}) /\ UNCHANGED bySession
  /\ ctx' = [ctx EXCEPT ![c] = Blank] /\ Free(c, n)
KeepAvatar(c, n) ==
  /\ bySession' = WithoutSession(ctx[c].sess) /\ UNCHANGED byAvatar
  /\ ctx' = [ctx EXCEPT ![c] = Blank] /\ Free(c, n)
KeepContents(c, n) ==
  /\ bySession' = WithoutSession(ctx[c].sess) /\ byAvatar' = WithoutAvatar({ctx[c].avatar})
  /\ ctx' = [ctx EXCEPT ![c].st = "NONE", ![c].fin = FALSE] /\ Free(c, n)

\* DeletePlayer called n times in a row on c: from the second call on the
\* context has the ids 0.
DeletePlayer(c, n) ==
  /\ bySession' = WithoutSession(ctx[c].sess)
  /\ byAvatar' = WithoutAvatar({ctx[c].avatar} \cup {a \in {NULL} : n > 1})
  /\ ctx' = [ctx EXCEPT ![c] = Blank]
  /\ Free(c, n)

\* The end of a pass of _Loop.  The second loop deletes the back of the queue
\* and pops the front.
EndLoop ==
  LET n == Len(queue)
  IN  /\ open /\ returned = <<>>
      /\ inLoop \/ status = "START_SHUTDOWN"
      /\ IF n = 0 THEN UNCHANGED <<ctx, mapVars>> ELSE DeletePlayer(queue[n], n)
      /\ queue' = <<>>
      /\ overrun' = (overrun \/ n > 1)
      /\ status' = IF status = "START_SHUTDOWN" THEN "READY_FOR_SHUTDOWN" ELSE status
      /\ inLoop' = FALSE
      /\ NoPush
      /\ UNCHANGED masterVars

\* Stop and Destroy, when the process has seen IsReadyForShutdown.
Destroy ==
  /\ status = "READY_FOR_SHUTDOWN" /\ ~inLoop
  /\ Pool!Close
  /\ UNCHANGED <<ctx, mapVars, loopVars, dbVars, masterVars, failed>>

-----------------------------------------------------------------------------

Command(s) ==
  \/ \E a \in Accounts : OnLoginReq(s, a)
  \/ \E alloc \in AllocFailures \cap {NULL, "GETAVATARLIST"}, ok \in SendResults :
       OnAvatarListReq(s, alloc, ok)
  \/ \E name \in Names, alloc \in AllocFailures \cap {NULL, "AVATARCREATE"}, ok \in SendResults :
       OnAvatarCreateReq(s, name, alloc, ok)
  \/ \E name \in Names, alloc \in AllocFailures \cap {NULL, "AVATARSELECTDATA"}, ok \in SendResults :
       OnAvatarSelectReq(s, name, alloc, ok)
  \/ ChannelSelected(s)
  \/ \E alloc \in AllocFailures \cap {NULL, "AVATARENTERREGION"} : OnRegionEnterReq(s, alloc)
  \/ \E alloc \in AllocFailures \cap {NULL, "AVATARLOGOUT", "AVATARFINALIZE"} :
       OnLogoutReq(s, alloc)

PoolWork == \E e \in pending : (\E outcome \in Outcomes : Fire(e, outcome)) \/ Finish(e)

Results == \E ok \in SendResults, converted \in Conversions : DBEventResult(ok, converted)

\* The process has ended, or nothing can be said about it any more.
Ended == (~open \/ wild) /\ UNCHANGED vars

Next ==
  \/ /\ open /\ ~wild
     /\ \/ \E s \in Sessions : Command(s)
        \/ \E due \in SUBSET Contexts : SaveDataToDB(due)
        \/ Shutdown
        \/ PoolWork
        \/ Results
        \/ EndLoop
        \/ Destroy
  \/ Ended

Spec == Init /\ [][Next]_vars

\* The logic thread runs _Loop again and again, and the threads of the database
\* pool bring an event they have to an end (EventsFinish of DBConnPool), were it
\* by losing it.
FairSpec ==
  /\ Spec
  /\ WF_vars(~wild /\ Results)
  /\ WF_vars(~wild /\ EndLoop)
  /\ WF_vars(~wild /\ PoolWork)

-----------------------------------------------------------------------------
(* Type invariant *)

AvatarRecords == [name : Names \cup {NULL}, id : Names \cup {NULL}]
ContextRecords ==
  [st : States, sess : Sessions \cup {NULL}, avatars : Seq(AvatarRecords),
   avatar : Names \cup {NULL}, entered : BOOLEAN, fin : BOOLEAN]

DialogueStates == {"out", "login", "listwait", "list", "createwait", "selectwait", "channel",
                   "region", "leaving", "bye"}

\* The variables hold what their C++ declarations let them hold.
TypeOK ==
  /\ ctx \in [Contexts -> ContextRecords]
  /\ bySession \in [Sessions -> Contexts \cup {NULL}]
  /\ byAvatar \in [Names \cup {NULL} -> Contexts \cup {NULL}]
  /\ queue \in Seq(Contexts)
  /\ freeCnt \in [Contexts -> Nat] /\ used \in Nat
  /\ status \in {"NOT_SHUTDOWN", "START_SHUTDOWN", "READY_FOR_SHUTDOWN"}
  /\ inLoop \in BOOLEAN
  /\ fresh \subseteq Events /\ pending \subseteq Events /\ returned \in Seq(Events)
  /\ consumed \subseteq Events /\ freed \subseteq Events /\ lost \subseteq Events
  /\ fired \subseteq Events /\ bad \subseteq Events
  /\ data \in [Events -> Seq(AvatarRecords)]
  /\ dbAccounts \subseteq Accounts
  /\ dbAvatars \in [Accounts \cup {NULL} -> Seq(Names)]
  /\ account \in [Sessions -> Accounts \cup {NULL}]
  /\ dialogue \in [Sessions -> DialogueStates]
  /\ shown \in [Sessions -> Seq(Names \cup {NULL})]
  /\ entering \subseteq Sessions /\ failed \subseteq Sessions \cup {NULL}
  /\ open \in BOOLEAN /\ overrun \in BOOLEAN /\ wild \in BOOLEAN

-----------------------------------------------------------------------------

\* An event on its way to the database or back.
UnderWay(e) == e \in pending \/ \E i \in 1 .. Len(returned) : returned[i] = e
OnTheWay(id, s) == \E e \in Events : e.id = id /\ e.session = s /\ UnderWay(e)
LostFor(id, s) == \E e \in lost : e.id = id /\ e.session = s

\* The session map and the pool agree on who is in use, until one pass of
\* _Loop meets two players: each context in use is filed under its session,
\* all others are blank and in the pool once.
ContextsExact ==
  ~overrun =>
    /\ \A s \in Sessions : bySession[s] # NULL => ctx[bySession[s]].sess = s
    /\ \A c \in Contexts :
         IF Live(c) THEN ctx[c].sess # NULL /\ bySession[ctx[c].sess] = c
         ELSE freeCnt[c] = 1 /\ ctx[c] = Blank
    /\ used = Cardinality({ c \in Contexts : Live(c) })

\* An answer of the database that changes the state finds the player waiting
\* for it: it comes back neither twice, nor for a request that was given up,
\* nor to another player who has got the context since.
AnswersExpected ==
  ~overrun => \A s \in Sessions :
    /\ OnTheWay("GETAVATARLIST", s) =>
         bySession[s] # NULL /\ ctx[bySession[s]].st = "ONAVATARLISTREQ"
    /\ OnTheWay("AVATARSELECTDATA", s) =>
         bySession[s] # NULL /\ ctx[bySession[s]].st = "ONAVATARSELECTREQ"

\* Nobody waits in vain: a player in a state that only an answer of the
\* database ends has a question on the way, or the pool has lost it, or an
\* allocation, a conversion or a send failed (a conversion that fails leaves a
\* player that selects an avatar where it is).
WaitingIsAnswered ==
  ~overrun => \A c \in Contexts :
    LET s == ctx[c].sess
        Waits(id) == OnTheWay(id, s) \/ LostFor(id, s) \/ s \in failed \/ ~open
    IN  /\ ctx[c].st = "ONAVATARLISTREQ" => Waits("GETAVATARLIST")
        /\ ctx[c].st = "ONAVATARSELECTREQ" => Waits("AVATARSELECTDATA")
        /\ ctx[c].st = "ONREGIONENTERREQ" => Waits("AVATARENTERREGION")
        /\ ctx[c].st = "ONLOGOUTREQ" => Waits("AVATARFINALIZE") \/ ctx[c].fin

\* The index by avatar does not point to a context that has been given back or
\* plays another avatar.
AvatarIndexSound ==
  ~overrun => \A a \in Names \cup {NULL} :
    byAvatar[a] # NULL => Live(byAvatar[a]) /\ ctx[byAvatar[a]].avatar = a

\* A player plays an avatar of its own account, though lists and selections
\* were read at different times and contexts go from one player to the next.
PlaysOwnAvatar ==
  ~overrun => \A c \in Contexts :
    ctx[c].avatar # NULL =>
      Owns(account[ctx[c].sess], ctx[c].avatar) \/ Owns(NULL, ctx[c].avatar)

\* A player whose logout was accepted leaves: the context goes back to the
\* pool, unless the finalizing event was lost or could not be had.
LoggedOutPlayersLeave ==
  \A s \in Sessions :
    (IF bySession[s] = NULL THEN FALSE ELSE ctx[bySession[s]].st = "ONLOGOUTREQ") ~>
      \/ bySession[s] = NULL
      \/ LostFor("AVATARFINALIZE", s) \/ s \in failed
      \/ overrun \/ wild \/ status # "NOT_SHUTDOWN"
=============================================================================
