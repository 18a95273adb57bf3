# Fantuan servers: TLA+ models, checks and proofs

This directory models the concurrent core of the Fantuan game servers
(`src/FTServer`): the life of a player on the master, gate, cache and region
server, and the database pool under the cache. TLC checks the models on small
instances; TLAPS proves the safety invariants of all of them, and that the pool
implements its abstract specification, for every value of the constants.

## 1. The system

A Fantuan installation is a set of Windows processes. Clients connect to the
login server and then to a gate; the master coordinates; the cache talks to
MySQL; region servers run the game. Every process has one *logic thread* that
takes commands from a list and handles each to the end (`ServerBase/logic_loop.cpp`),
network threads (StarNet) that append commands to that list, and, in the cache
server, one thread per database connection.

| Component | State | Operations | Interacts with | What is hard |
|---|---|---|---|---|
| **MasterServer** (`master_server_loop.cpp`, `master_player_context.cpp`, `master_player_state.cpp`) | player contexts, five indexes (account, session, login, gate, region), finalizing queue, object pool, shutdown status | one handler per command, `ShutdownPlayer`, `DeletePlayer`, `_Loop` | requests to login, gate, cache and region servers; their answers come back as commands | an answer arrives after the player was shut down or logged in again; sending fails half way; shutdown |
| **GateServer** (`gate_server_loop.cpp`, `gate_session.cpp`) over **ServerBase** sessions | sessions with id and sequence number, connections, map by account, finalizing queue, two counters, object pool | connect, login packet, disconnect; allocate, release, disconnect by the master; bind by a region; timeout | client, master, region | a connection moves between two sessions; the end of a session and of its connection come in either order |
| **CacheServer contexts** (`cache_server_loop.cpp`, `cache_player_context.cpp`, `cache_event_result.cpp`) | player contexts with their avatars, indexes by session and by avatar, finalizing queue, object pool | login, logout, list, create, select, region enter; results of events; periodic save | master, region, DBConnPool | results for a player that is gone; failing statements; a logout while an answer is awaited |
| **CacheServer/DBConnPool, DBConn** | waiting, processing and return list, sequence map, a connection per thread | push, flush, pop, fire, hand back, connect, stop | logic thread pushes events and collects results; MySQL | several threads, three locks, missed pulses, failing connections |
| **RegionServer** (`region_server_loop.cpp`, `region_player_context.cpp`) | player contexts, a table by session index per gate, index by avatar, finalizing queue | allocate, release, enter, leave; answer of the cache; client time | master, gate, cache | a session index is used again while the previous player is still there |
| **Tool/StateMachine** | transition table, current state | `StateTransition` | used by every player context and session | a missing row turns an event into a state error |
| **Tool/ObjectPool** | free list, used counter | `Allocate`, `Free` | contexts and sessions | double frees, 16-bit counter |
| **LoginServer** | sessions of clients | login request, answer | client, master | disconnection before the answer |
| **ChatServer** | sessions | login, packets | client | as the gate |
| **ServerBase** logic loop | command list, alarm | push, handle, `_Loop` | all servers | order of commands |
| **StarNet** | connections, buffers, peer links | accept, send, receive, reconnect | operating system | reconnecting, teardown |
| **Tool** (ring buffer, alarm, memory pool), **Log**, generators, client, SQL, prototypes, vendored code | | | | see section 7 |

What makes the modelled components correct:

* *MasterServer*: all indexes, the queue and the pool describe the same set of
  players; nobody who waits (a client on the login server, a player on an
  answer) waits in vain; whatever a leaving player holds on other servers is
  released; leaving players leave and a shutdown ends.
* *GateServer*: names, queue, pool and counters describe the same sessions; a
  session talks to the client that logged in with its account; what the master
  was granted is there until it gives it up, and goes then; accounts and
  connections become free again.
* *CacheServer*: each context is filed once; an answer of the database meets the
  player that asked; nobody waits for an answer that does not come; a player
  plays an avatar of its own account; a player that logs out leaves.
* *DBConnPool*: an event has one owner, is fired once and not lost; events that
  must not run together do not; every event is answered; `Stop` returns.
* *RegionServer*: indexes, queue and pool agree; what is said to a session
  reaches its player; a player the master gives up leaves.

## 2. Modules

| Module | Models | Role |
|---|---|---|
| `MasterPlayerFsm`, `GateSessionFsm`, `CachePlayerFsm`, `RegionPlayerFsm` | `*_state.cpp`, `Tool/state_machine.cpp` | the transition tables and `StateTransition` as pure operators |
| `MasterServer` | `MasterServerLoop`, `MasterPlayerContext`, `ObjectPool` | logic thread of the master; properties |
| `GateServer` | `GateServerLoop`, `GateSession`, `Session`, `Connection` | logic thread of a gate with its connections; properties |
| `EventPool` | what `db_conn_pool.h` promises | abstract specification of the database pool |
| `DBConnPool` | `db_conn_pool.cpp`, `db_conn.cpp`, `cache_db_event.cpp` | logic thread and database threads at the grain of critical sections; implements `EventPool` |
| `CacheServer` | `CacheServerLoop`, `CachePlayerContext`, stored procedures | logic thread of the cache, composed with `EventPool` (`Pool == INSTANCE EventPool`) |
| `RegionServer` | `RegionServerLoop`, `RegionPlayerContext` | main logic thread of a region server; properties |
| `MCMasterServer`, `MCGateServer`, `MCDBConnPool`, `MCCacheServer`, `MCRegionServer` | | constants, symmetry and constraints for TLC |
| `MasterServerProofs`, `GateServerProofs`, `CacheServerProofs`, `RegionServerProofs`, `DBConnPoolProofs`, `DBConnPoolRefinement` | | theorems about the module each is named after |
| `MasterServerPeers` | | theorems about the master's lists of other servers' players and what it leaves with them, on top of `MasterServerProofs` |

How they fit together: `CacheServer` runs on `EventPool` instead of on the
threads and lists of `DBConnPool`; that this is allowed is the refinement
`DBConnPool!ImplementsEventPool`, model-checked and proved, and the fairness
`CacheServer` asks of the pool is what `DBConnPool!EventsFinish` shows: the
threads bring an event to its end, except one that an event of the same id makes
them lose, and losing is an end in `CacheServer`, too. The servers are joined
by messages only. Each module has the other servers in it as far as they decide
what arrives: as obligations to answer in the master (`peers`), as what the
master has asked for, was granted and knows in the gate, as the place in the
dialogue in the cache and the region.

### MasterServer

One action is one command handled to the end or one pass of `_Loop`; this is
the granularity of the code, because one thread does all of it. The variables
are the fields of the C++ classes (`st` is the current FSM state, `fin`
`m_bFinalizing`, `acct`, `sess`, `gateId`, `regionId`, `chan`, `avatars` the
others); the `hash_map`s are functions with `NULL` for "absent". Contexts are
objects of a pool: `created` are the ones ever made, `freeCnt[c]` says how often
`c` is on the free list, so that a double free is representable, and `used` is
the 16-bit counter, which wraps.

* Client packets (`OnAvatarListReq`, ...) and network events
  (`OnSessionDisconnect`) may come at any time with any content.
* The other servers are external and summarised in `peers`: the login clients
  waiting, the owner of each gate session, the sessions known to the cache, and
  the answers owed. An answer owed may be handled at any later step, or never,
  in any order, with any result the peer can send.
* `SendResults` says whether sending can fail; the error paths of the handlers
  follow. Many sends have no error path: `ShutdownPlayer`, the refusal of a login
  and `OnRegionPlayerFailReq` ignore the result and repeat nothing. Any set of
  these notices may be lost (`Lossy`); `untold` remembers which ones about which
  session, and what follows from a lost one is the exception the properties make.
* A region that is asked to let a player leave is noted as owing the answer the
  master has a handler for, but the region server never sends it
  (`region_player_context.cpp:241`): no property counts on it.
* Assertions (`_ASSERT`) are what they are in a release build: nothing. After
  one, the handler's own error path applies.
* `overrun` is a history variable: a pass of `_Loop` has met two players. It is
  there because of the first finding below: from then on a context is freed
  twice and the bookkeeping cannot hold.

### DBConnPool

A step is what a thread does between two points where others can see it: one
critical section, one query, one test of `m_bQuit`. A worker's `pc` follows
`_HandleDBConn` and `PopFromDBEventProcessingList`. A flush walks over the
waiting list with both locks held, one event per step (`WaitingLocked`,
`ProcessingLocked`); it keeps the processing lock until it has popped an event.
After finding nothing the worker gives up the lock and *then* waits (`nap`,
`wait`), which is where a pulse can be missed; a wait ends with a pulse or the
timeout. `seqMap[id]` is the entry of the sequence map followed by its
`m_pNextEvent` chain.

The lookup by `iLastEventSequenceId` is in the model as it is in the code. It
never finds anything, because the map is keyed by event ids and a session id,
with its server id in the top byte, is none (assumption of the module, used by
the proof).

`conn` says what `m_pMySQL` is worth: a failed `mysql_real_connect` leaves an
unconnected handle, a failed `mysql_select_db` a closed one. Using a closed
handle, or following a freed event in the map, is undefined behaviour: `wild`
becomes true and the model makes no further claim.

### GateServer

One action is one command handled to the end, the timed check of one session, a
pass of `_Loop`, or the loss of a connection. A client gets a temporary session;
its login packet moves the connection to the session that was allocated for the
account (`Transfer`), and the temporary one is queued. `net[c]` says how far the
end of a connection has come: `AsyncDisconnect` takes it down, the OnDisconnect
command is handled later, and `Close` gives it back; a connection whose command
nobody expected is `lost`. A session id is the index with a sequence number, an
8-bit one; ids in old messages are rejected by it (`GetSession`). The number
wraps, so after 256 uses of an index an id that the master was told of can name a
later session; `AbandonedSessionsEnd` is proved for behaviours in which that does
not happen (`IdsFresh`).

A peer may have a packet forwarded to a session (`PacketForward`,
`session_server_loop.inl:282`): the handler tests neither state nor pointer, and
`wild` becomes true when it follows a null `m_pConnection`. No server of the
repository sends that command to a gate (`PacketForward` goes to the master), so
`wild` ends what the runs follow, and `ConnectionThere` is about the handlers
that do test the state.

`overrun` is as in the master. `orphaned` is a history variable, too: a session
was cleared while its connection still led to it. The code comes there when a
release meets a session that is already being disconnected, of which it says "in
theory, will not arrive here" (`gate_server_loop.cpp:400`). From then on a
connection leads to a session of the pool, and `OwnClient` cannot hold.
`OwnClient` makes one more exception: a session left in `HOLDCONNECTION` because
the notice of its disconnection could not be sent is given a second connection by
the next login of its account, and the first still leads to it.

### CacheServer

One action is one command, one event executed, handed back or lost by the pool,
one result handled, or the end of a pass of `_Loop`; `inLoop` keeps commands out
of a pass. `bySession` and `byAvatar` are the two maps; `dbAccounts` and
`dbAvatars` the two tables, the second grouped by account, which the stored
procedures read and write when an event is executed, at any time after it was
pushed. `Outcomes` are what a
statement can do: succeed, fail, succeed and lose the answer, or return a row
that cannot be read. `dialogue` and `shown` are the master's side: what it is
waiting for and which avatars it has been told of. A session id is used once.

A list with more rows than `m_arrayAvatar` has places is undefined behaviour:
`wild` becomes true. `Conversions` says whether the conversion of an avatar for
the wire can fail; the result handlers then return without an answer, and a
player that selects stays where it is. `failed` remembers the sessions that met
a failed allocation, conversion or send, the exception several promises need; it
may hold `NULL`, for a result that meets a context that a pass with two players
has freed. After a failed allocation the handler answers for itself, which may
fail, too (`MasterWaits`).

### RegionServer

One action is one command or one pass of `_Loop`. A session is a session index
and a sequence number, but the table has one place per index, and
`GetPlayerContextBySessionId` looks only there (`Player`). `stage` is where the
master is with a session. The cache's answers (`owes`) and the client's packets
(`bound`) come over other links than the master's commands, so they may arrive
after the session has ended and its index is used again. `blocked` remembers the
indexes whose place was taken when a player came (the deletion of
one player of an index empties the place of another, so `EnteringIsAnswered` is
about players whom their session still leads to, until the shutdown begins), `silent` the sessions the
master gave up without the region handling it: before it knew the region, with a
request that could not be sent, or after the region had begun to shut down, when
it takes commands from its list and drops them (`SentAway`). A pass of `_Loop` with two players
dereferences a null pointer, and the model stops there (`LoopOverrun`).

## 3. Runs

| Run | Instance | Checks |
|---|---|---|
| `master_two_players` | two accounts, two contexts, two login and two gate sessions, one gate with room for one player, one region; sends succeed; up to the first overrun | `TypeOK`, `Bookkeeping`, `ServerListsExact`, `AnswersExpected`, `GateSessionHeld` |
| `master_faults` | one account with two login sessions, one gate session, one channel; any send may fail, up to three notices untold | `LoginListExact`, `LoginClientsAnswered`, `QueuedPlayersReleased`, `NobodyWaitsInVain` |
| `master_liveness` | two accounts, fair `_Loop` | `FinalizingPlayersLeave`, `ShutdownCompletes` |
| `gate_sessions` | two connections, one account session and one temporary one, sends may fail | `TypeOK`, `SessionBookkeeping`, `ConnectionThere`, `OwnClient`, `GrantedSessionsExist`, `AbandonedSessionsEnd` |
| `gate_liveness` | the same without failing sends, fair `_Loop` and disconnect reports | `AccountsFreed`, `EndedConnectionsReturn` |
| `db_pool` | two workers, a query and three saves, every failure, stop at any time | `TypeOK`, `OneFiringPerEventId`, `OneOwner`, `ImplementsEventPool` |
| `db_pool_liveness` | two workers, a query and a save, fair threads | `EventsFinish`, `StopReturns` |
| `cache_players` | two players, one event of each kind per session; conversions may fail | `TypeOK`, `ContextsExact`, `AnswersExpected`, `WaitingIsAnswered`, `AvatarIndexSound`, `PlaysOwnAvatar` |
| `cache_faults` | one player with repeated requests; statements, conversions, allocations and sends may fail; fair `_Loop` and pool | `ContextsExact`, `LoggedOutPlayersLeave` |
| `region_players` | two contexts, two session indexes of which one is used twice, two avatars; sends of region and master may fail; fair `_Loop` | `TypeOK`, `PlayersAccounted`, `IndexesSound`, `OwnPlayer`, `EnteringIsAnswered`, `AbandonedPlayersLeave` |
| `almost_leaving` | two players of the master | exhibits finding 1 |
| `leave_expected` | one player of a region | exhibits finding 2 |

**What the bounds let happen.** *Master*: two login sessions of one account give
the duplicate login, in which the second meets the first at any stage, and the
late answer to the first. Two accounts give two players in one queue, a pool and
a gate that are full. Two gate sessions let an answer to an old request be
mistaken for one to the new. One avatar is the count at its limit. A shutdown of
a player sends at most three notices, so a bound of three untold ones (`FewLost`)
loses all that concern one player, and some of two. *Gate*: two
connections compete for one account and for the temporary session; every index
is used twice (`Bounded`), so an id can be stale. The bound is on the use of
sessions by commands; `_Loop` and the disconnect reports, whose fairness the
liveness run needs, are never cut off by it. *Pool*: two workers interleave at
every lock, three events of one id are the least that chain, go stale and are
met again by a later flush, and one query brings in the connection. *Cache*: two
sessions share one pool of contexts, so a result can meet the next player; the
second instance lists, creates and selects twice and finalizes twice. *Region*:
one index used twice is the least for a player that finds its place taken and
for a late message; two players fill the queue. `FirstHasC1A1` names the context
and avatar of the first session, as no symmetry can in a run with liveness:
behaviours that differ in the names only are explored once. The constraints `UpToOverrun`
and `Bounded` of the cache stop at the first state with `overrun`: the properties
promise nothing beyond it. Session ids, accounts, contexts, workers and the
saves are only compared for equality, so their symmetry is sound; the runs with
liveness use none.

**Deadlock.** The pool's runs keep the check on: until the process ends, some
thread can always run. The other runs with `CHECK_DEADLOCK FALSE` may stop: a
server without players and with all session ids used has nothing left to do.

**Fairness.** Every liveness run assumes weak fairness of `_Loop`: the logic
thread calls it again and again (`logic_loop.cpp`). None assumes that a peer
server answers. `gate_liveness` adds that the network reports the end of every
connection, which the completion port does; `cache_faults` that the database
threads bring an event to an end, by losing it perhaps, which `EventsFinish`
shows of `DBConnPool`. `db_pool_liveness` assumes weak fairness of every worker and of
the logic thread's drain of the return list and pulse, which the operating
system's scheduler gives, and that `mysql_init`, which fails only without
memory, does not fail every time. No fairness of `mysql_real_connect` or of
queries is assumed.

Every property of a passing run has a variant of the code (an operator with the
comment "Variant:") under which TLC finds it violated; `PROJECT.json` pairs
them.

## 4. What the runs show about the code

The properties of the passing runs hold. Two runs refute what the code says of
itself:

1. `_Loop` deletes the *back* of the finalizing queue and pops the *front*
   (`master_server_loop.cpp:493`): with two players in it, one context is freed
   twice and the other stays marked as leaving for ever. The same lines are in
   the gate (`gate_server_loop.cpp:193`), the cache (`cache_server_loop.cpp:163`)
   and the region server (`region_server_loop.cpp:290`).
2. A player that has entered a region completely is in `INITAVATARNTF`, which
   has no row for a leave request (`region_player_context.cpp:256`): it is
   refused with an assertion and the player stays, with its place in the table.

The passing properties carry the exceptions that these and the following
observations make necessary, and no others.

*Master* (`overrun`, region-leaving states, `DeadEnds`, `untold`):

* A player sent out of its region "will shutdown later" (`:269`); the handler of
  the region's answer has no case for it, and the region never sends one.
* A shutdown drops all commands (`:510`), among them the ones it waits for, so
  with a player inside a region it never becomes ready.
* A refusal by the region ends in a state from which the client cannot go on
  (`master_player_context.cpp:652`).
* A player deleted in `GATEALLOCACK` stays in the login server's list
  (`master_server_loop.cpp:319`).
* The results of the notices of a shutdown are ignored (`:276-294`), as are those
  of a refused login (`:613`, `:628`, `:642`): when one cannot be sent, the client
  waits on, or the gate or cache keeps its session.

*Gate* (`overrun`, `orphaned`, `StuckStates`, `wild`):

* `_OnCommandPacketForward` uses the connection of a session in any state
  (`session.cpp:244`), so also of one that has none.
* A release that meets a session in `DISCONNECT` or `ONMASTERDISCONNECT`, and a
  login into a session that is already queued, clear the session under its
  connection.
* A request for an account whose old session is not cleared yet is dropped
  without an answer (`:367`).
* A failed `OnGateLoginReq` leaves the session in `LOGGEDIN`, where `Disconnect`
  is refused; a failed `OnSessionDisconnect` leaves it unqueued.
* A refused connection is never closed (`:246`); `m_mSessionMap` is never
  filled, so a shutdown disconnects nobody; the login timeout looks only at the
  first `m_iSessionMax` of all sessions; a late `RegionBindReq` binds a session
  that has just been cleared.

*Pool and cache* (`wild`, `lost`, `failed`, `overrun`):

* The sequence map is keyed by event id instead of sequence id
  (`db_conn_pool.cpp:269`), so events of one session run concurrently; and
  `insert` does not replace (`:213`), so once two events of one id are flushed
  together, the second and all later ones of that id are lost, and the map
  points to an event that may be freed.
* A failed connect leaves `m_pMySQL` set (`db_conn.cpp:156`), so the next turn
  fires an event on a dead handle instead of connecting again; the event fails,
  the handle is dropped, and the turn after that connects.
* A failed statement is handed back with `m_iRet` 0, which the player context
  takes for success: an empty list (after which more than `AVATARCOUNT_MAX`
  avatars can be created), or an avatar with the id 0.
* An avatar that cannot be converted leaves its player without an answer
  (`cache_event_result.cpp:35`, `:72`, `:127`), and a player that selects it in
  `ONAVATARSELECTREQ`.
* A logout that arrives while a list or a selection is awaited is refused
  (`cache_player_context.cpp:105`), and the context is never given back.
* A shutdown saves nobody; collected events are never freed; without a logout
  event the player is finalized twice (`:340`).

*Region* (`silent`, `blocked`, `INITAVATARNTF`, `overrun`):

* A player given up by the master before the RegionAllocAck is not told to the
  region, because the release goes to a server id that is not set yet
  (`master_server_loop.cpp:254`).
* The next player on its session index finds the place taken; the result of
  `_PushPlayerToGateServerContext` is ignored, and the player is unreachable.
* Nothing sets `READY_FOR_SHUTDOWN`.

*Login*: `LoginSession::OnDisconnect` (`login_session.cpp:51`) calls the base
class first, which changes the state, and then compares it with `ONLOGINREQ`;
the notice to the master that the comment asks for is never sent.

## 5. What is proved

For all values of the constants that satisfy the assumptions
(`ConstantAssumption`, `GateAssumption`, `CacheAssumption`, `RegionAssumption`,
`PoolAssumption`: types of the constants, disjointness of ids, finitely many
context objects, pools whose size fits its 16-bit counter). Sends may fail and
there is any number of everything; each theorem is `Spec => []` of a property the
runs check, except where said otherwise.

* *Master* (`MasterServerProofs`): `TypeCorrect`; `BookkeepingHolds`: until an
  overrun, every context in use is filed under its account and its session and
  nothing else is; the queue holds exactly the players marked as leaving, each
  once; the pool's free list has no duplicates and its counter is the number of
  contexts in use.
* *Master and its peers* (`MasterServerPeers`), also until an overrun:
  `ServerListsExactAlways`, `LoginClientsAnsweredAlways`,
  `MasterAnswersExpectedAlways`, `GateSessionHeldAlways`,
  `QueuedPlayersReleasedAlways`, `NobodyWaitsInVainAlways` and
  `LoginListExactAlways`, whatever sends fail. The exceptions are part of the
  properties: a list entry, a client or a session that a lost notice was about
  (`untold`), and players asked to leave their region.
* *Gate* (`GateServerProofs`): `GateTypeCorrect`, `SessionBookkeepingAlways`,
  `ConnectionThereAlways`, `OwnClientAlways`, `GrantedSessionsExistAlways`, and
  `AbandonedSessionsEndAlways`: `Spec /\ [][IdsFresh]_vars =>
  []AbandonedSessionsEnd`.
* *Cache* (`CacheServerProofs`): `CacheTypeCorrect`, `ContextsExactAlways`,
  `CacheAnswersExpectedAlways`, `CacheWaitingIsAnsweredAlways`,
  `AvatarIndexSoundAlways`, `PlaysOwnAvatarAlways`.
* *Region* (`RegionServerProofs`): `RegionTypeCorrect`,
  `PlayersAccountedAlways`, `IndexesSoundAlways`, `OwnPlayerAlways`,
  `EnteringIsAnsweredAlways`.
* *Pool*: `DBConnPoolProofs!PoolTypeCorrect`, `DBConnPoolProofs!OneFiringAlways`,
  `DBConnPoolRefinement!OneOwnerAlways`, and
  `DBConnPoolRefinement!PoolImplemented`: `Spec => ImplementsEventPool`: the
  lists, the sequence map and the threads implement `EventPool`.

**Argument for the master.** The inductive invariant is `TypeOK /\ Bookkeeping`;
its three parts need each other (the queue's players must be in use for the
deletion to find them in the indexes, the pool's objects must be cleared for a
new login to be filed correctly). The handlers are many but do few things to the
bookkeeping: each either changes fields of players only, or queues players that
`NotFinalizing` lets through. Lemmas state what such a step preserves, and each
handler is shown to be one. Three operations change the indexes: a new login
(`Allocate` and two inserts), `LoginSession2GateSession`, and `DeletePlayer`;
each has its own lemma, and the count of used contexts uses the theorems on
finite sets.

**Argument for the master's peers.** None of the seven properties is inductive;
they share one invariant, `PeersInv`, which is about sessions. `View(peers, s)` is
all that the other servers have of session `s`: the answers owed to it, whether a
login client waits, whether the cache knows it, who owns it at the gate, which
notices about it were lost.
`SessionFits(s)` relates that to the player filed under `s`. If the player is not
leaving (`AtRest`), it is in a state where a handler may stop; if that is a state
that waits for a peer, exactly one answer of the right kind is owed and it is not
void, and else none is; a login client waits only in `AskedGate`, the cache
knows it only in states in which `ShutdownPlayer` logs it out, and the gate's
owner is its account. If the player is leaving (`Leaving`), nothing of this is
left and answers of a gate under way to it are void, but for what a lost notice
was about. "Exactly one" is needed
where only "one" is promised: otherwise the answer that moves the player could
leave a second one behind that finds it in another state. `Common` (answers of
gates name the account of the session) is what makes releasing an account by
name reach the right session; it holds because `NamesAndSessions` gives an
account one player. `Listed(c)` adds to the two list properties in which states a
player may be listed, which are the states `DeletePlayer` looks for it in.
Lemmas say what `ShutdownPlayer` does to the view of one session (`TellView`,
`OneShutdown`, `ShutdownSessions` for a set of players), that the views of all
other sessions stay (`Elsewhere`), and each handler is one of these, a move to a
state that fits, or one of the three operations that file a session anew
(`NewPlayerKeepsGood`, `GateGrantedKeepsGood`, `DeleteOneKeepsGood`). The
transition table is looked up by `Lookup`, `Expected` and `Leaves`, which turn it
into facts on events.

**Argument for the gate.** Four invariants, each the first one and a part of its
own. `GateInv` adds to the bookkeeping what the state of a session says of its
kind and its connection (`Fits`), that a session's connection leads back to it
(`Wired`), and where a session without a queue entry can be stuck
(`FailedOnly`): without these a `Transfer` could file a temporary session.
`OwnInv` says whose client a connection is, until a session is orphaned.
`GrantInv` relates what the master holds to the index by name. `WatchInv` says of
every session on file which of the master's messages about it are still to come;
it is the one that needs fresh ids, because a session that gets the id of an
older one inherits the older one's messages.

**Argument for the cache.** `CacheInv` is `TypeInv` and, until an overrun,
`Sound`. Events carry the session they are for, and a context is given to another
session while events of the first are under way, so everything is stated per
session: which events of it are under way (at most one list and one selection),
what the master waits for, what the context's state is if there is one
(`SessionSound`), and that the avatars a context or an event lists are the
account's own or nobody's (`Owner`, `EventOwned`). `PlaysOwnAvatar` then follows from the last part although the selection, its execution in the
database and its result are three steps.

**Argument for the region.** `RegionInv` is the conjunction of the five
properties and `LiveFilled`: a player in use has a session and an avatar, so that
its deletion finds the places to empty. `OwnPlayer` and `IndexesSound` need each
other, since the deletion of a player empties the place of its index whoever has
it: without `blocked` that is the player itself. `EnteringIsAnswered` rests on
the answer of the cache being taken by the player its session leads to.

**Argument for the pool.** `OneFiringPerEventId` is not inductive. The invariant
adds that everything in the processing list or in a worker's hands is the entry
of the sequence map under its id (`QueuedAreEntries`, `HeldAreEntries`) and is
in one of those places only (`QueuedOnce`, `HeldNotQueued`, `HeldOnce`). Two
workers with one id would hold the same entry. A flush makes an event an entry
only if its id had none, so it cannot be anywhere already; `PostFireEvent`
changes the map under an id that no one else has.

**Argument for the refinement.** An abstract event is pending while it is in the
waiting list, the processing list or a worker's hands, and lost when it is in
none of the places the code has. Two facts are added to the invariant of the
pool. `Placed`: every event is in at most one list, hand or set, and at most once
in a list, so that a step of the code moves an event from one abstract place to
the next and never leaves a copy; `OneOwner` is a consequence. `Accounted`: what
is chained behind the first event of an id is lost, and the first event of a
chain is being processed unless an event of that id was lost before; hence an
event that a flush chains has the rival that `EventPool!Lose` asks for. Each
action then maps to a push, a return, a free, a loss, a collection, the closing
of the pool, or a stutter.

**Only model-checked.** Liveness (the eight properties of the runs with
fairness), which is beyond the prover. Every invariant of a passing run is stated
by a theorem.

## 6. Plan

1. Proofs of what a step may never do: the master is ready for shutdown only
   when no player is left and stays so; a closed pool hands out nothing more.
2. A composition of master and gate over FIFO channels, in which `peers` of the
   one and `asked`, `granted`, `known` of the other are replaced by each other.
3. *LoginServer* over the session layer; *StarNet* peer link (`peer_server.cpp`:
   connect, fail, retry); *Tool* ring buffer and alarm with reference
   definitions.

## 7. Not modelled

* LoginServer and ChatServer: session servers over the layer the gate's model
  covers; the login server appears in the master's model as the clients that
  wait for an answer.
* The maps of a region server (`region_logic_loop.cpp`, `map.cpp`): their threads
  run, but nothing sends a player to them.
* The command list and its lock: commands arrive in any order, which covers the
  list's order.
* Sockets, I/O completion ports, peer links, configuration, map data and Lua:
  input and output without protocol state.
* Log, the code generators and what they generate, the account database and the
  PHP connection service, the client, UniNet, the prototypes (EasyNet,
  EasyServer, EasyNetwork, Test2, Fantuan_v0.10) and vendored libraries.
* In the master: statistics and report intervals. In the pool: SQL text, and the
  leak of collected events. In the cache: the columns of an avatar other than
  its name, id and owner.

## 8. Running

    tlc -workers 2 -config MasterServer.cfg MCMasterServer
    tlc -workers 2 -config GateServer.cfg MCGateServer
    tlc -workers 2 -config DBConnPool.cfg MCDBConnPool
    tlc -workers 2 -config CacheServer.cfg MCCacheServer
    tlc -workers 2 -config RegionServer.cfg MCRegionServer
    tlapm MasterServerProofs.tla
    tlapm MasterServerPeers.tla
    tlapm GateServerProofs.tla
    tlapm CacheServerProofs.tla
    tlapm RegionServerProofs.tla
    tlapm DBConnPoolProofs.tla
    tlapm DBConnPoolRefinement.tla

`PROJECT.json` lists every run with its module, configuration and properties,
the source lines of every definition, the hazards and the findings.
