----------------------------- MODULE DBConnPool -----------------------------
(***************************************************************************)
(* The database pool of the cache server: CacheServer/db_conn_pool.cpp,    *)
(* db_conn.cpp and the events of cache_db_event.cpp.  The logic thread     *)
(* pushes events and collects their results; every DBConn has a thread     *)
(* that takes an event from the processing list, fires it on its MySQL     *)
(* connection and hands it back.                                           *)
(*                                                                         *)
(* A step is what a thread does between two points where another thread    *)
(* can observe it: one critical section, one query, one test of m_bQuit.   *)
(* Undefined behaviour (using a freed event or a closed MySQL handle) sets *)
(* wild, after which the model says nothing more.                          *)
(***************************************************************************)
EXTENDS Naturals, Sequences, FiniteSets

CONSTANTS
  NULL,
  Workers,     \* the DBConn threads
  Events,      \* DBEvent objects; each is allocated, pushed and ends once
  EventIds,    \* values of m_iEventId in use
  Sessions,    \* session ids in use, the sequence ids of the pushes
  EventIdOf,   \* m_iEventId of an event
  SessionOf,   \* the sequence id an event is pushed with
  Returnable,  \* events pushed with bReturnable
  QueryIds     \* event ids whose FireEvent sends a statement to the database

(* A session id carries its server id in the top byte, so it is never one  *)
(* of the small numbers the event ids are.                                 *)
ASSUME PoolAssumption ==
  /\ EventIdOf \in [Events -> EventIds]
  /\ SessionOf \in [Events -> Sessions]
  /\ EventIds \cap Sessions = {}
  /\ Returnable \subseteq Events
  /\ QueryIds \subseteq EventIds
  /\ NULL \notin Events \cup EventIds \cup Sessions

VARIABLES
  fresh,       \* events the logic thread has not pushed yet
  waiting,     \* m_EventWaitingList
  processing,  \* m_EventProcessingList
  seqMap,      \* m_mEventProcessingSequenceMap: per key the event stored in
               \* it followed by its m_pNextEvent chain, <<>> when absent
  returned,    \* m_EventReturnList
  pulse,       \* the logic thread is about to call PulseEvent
  fired,       \* events with m_bFired
  consumed,    \* events whose result the logic thread has taken
  freed,       \* events given to FreeEvent
  pc,          \* where each worker is in _HandleDBConn
  held,        \* pEvent of each worker
  last,        \* iLastEventSequenceId of each worker, NULL for 0
  conn,        \* what m_pMySQL of each worker is good for
  quit,        \* workers whose m_bQuit is set
  destroyed,   \* Destroy has run
  wild         \* undefined behaviour has happened

lists == <<fresh, waiting, processing, seqMap, returned, pulse>>
results == <<fired, consumed, freed>>
threads == <<pc, held, last, conn>>
vars == <<lists, results, threads, quit, destroyed, wild>>

PCs == {"top", "connect", "pop", "flush", "take", "nap", "wait", "recheck",
        "fire", "post", "return", "exit"}

(* up: connected; unconnected: mysql_real_connect failed but the handle    *)
(* stays; closed: mysql_select_db failed, the handle is closed and stays.  *)
Conns == {"none", "up", "unconnected", "closed"}

TypeOK ==
  /\ fresh \subseteq Events
  /\ waiting \in Seq(Events)
  /\ processing \in Seq(Events)
  /\ seqMap \in [EventIds -> Seq(Events)]
  /\ returned \in Seq(Events)
  /\ fired \subseteq Events
  /\ consumed \subseteq Events
  /\ freed \subseteq Events
  /\ pc \in [Workers -> PCs]
  /\ held \in [Workers -> Events \cup {NULL}]
  /\ last \in [Workers -> Sessions \cup {NULL}]
  /\ conn \in [Workers -> Conns]
  /\ quit \subseteq Workers
  /\ pulse \in BOOLEAN
  /\ destroyed \in BOOLEAN
  /\ wild \in BOOLEAN

Init ==
  /\ fresh = Events
  /\ waiting = <<>>
  /\ processing = <<>>
  /\ seqMap = [i \in EventIds |-> <<>>]
  /\ returned = <<>>
  /\ pulse = FALSE
  /\ fired = {}
  /\ consumed = {}
  /\ freed = {}
  /\ pc = [w \in Workers |-> "top"]
  /\ held = [w \in Workers |-> NULL]
  /\ last = [w \in Workers |-> NULL]
  /\ conn = [w \in Workers |-> "none"]
  /\ quit = {}
  /\ destroyed = FALSE
  /\ wild = FALSE

-----------------------------------------------------------------------------
(* The critical sections that last longer than a step: a worker flushing   *)
(* the waiting list holds both, and keeps m_csEventProcessingList until it *)
(* has popped an event.                                                    *)
WaitingLocked == \E w \in Workers : pc[w] = "flush"
ProcessingLocked == \E w \in Workers : pc[w] \in {"flush", "take"}

Goto(w, place) == pc' = [pc EXCEPT ![w] = place]

(***************************************************************************)
(* The logic thread.                                                       *)
(***************************************************************************)
(* PushSequenceEvent up to the end of its critical section.                *)
PushSequenceEvent(e) ==
  /\ e \in fresh
  /\ ~pulse /\ ~WaitingLocked /\ ~destroyed
  /\ fresh' = fresh \ {e}
  /\ waiting' = Append(waiting, e)
  /\ pulse' = TRUE
  /\ UNCHANGED <<processing, seqMap, returned, results, threads, quit,
                 destroyed, wild>>

(* PulseEvent wakes the workers that are waiting at this moment, no other. *)
PulseEvent ==
  /\ pulse
  /\ pulse' = FALSE
  /\ pc' = [w \in Workers |-> IF pc[w] = "wait" THEN "recheck" ELSE pc[w]]
  /\ UNCHANGED <<fresh, waiting, processing, seqMap, returned, results, held,
                 last, conn, quit, destroyed, wild>>

(* One turn of the draining loop of CacheServerLoop::_Loop.  The event is  *)
(* not freed there.                                                        *)
PopFromDBEventReturnList ==
  /\ ~pulse /\ ~destroyed
  /\ returned # <<>>
  /\ consumed' = consumed \cup {Head(returned)}
  /\ returned' = Tail(returned)
  /\ UNCHANGED <<fresh, waiting, processing, seqMap, pulse, fired, freed, threads, quit, destroyed, wild>>

(* DBConnPool::Stop sets the flags one after the other, then joins.        *)
Stop(w) ==
  /\ w \notin quit
  /\ quit' = quit \cup {w}
  /\ UNCHANGED <<lists, results, threads, destroyed, wild>>

(* Destroy, after the threads are joined.  Only the lists are freed, and a *)
(* closed handle is closed again.                                          *)
ElementsOf(s) == {s[i] : i \in 1..Len(s)}

Destroy ==
  /\ ~destroyed /\ ~pulse
  /\ \A w \in Workers : pc[w] = "exit"
  /\ freed' = freed \cup ElementsOf(processing) \cup ElementsOf(waiting)
                    \cup ElementsOf(returned)
  /\ processing' = <<>>
  /\ waiting' = <<>>
  /\ returned' = <<>>
  /\ seqMap' = [i \in EventIds |-> <<>>]
  /\ destroyed' = TRUE
  /\ wild' = (\E w \in Workers : conn[w] = "closed")
  /\ UNCHANGED <<fresh, pulse, fired, consumed, threads,
                 quit>>

-----------------------------------------------------------------------------
(***************************************************************************)
(* A worker: the loop of _HandleDBConn.                                    *)
(***************************************************************************)
LoopTop(w) ==
  /\ pc[w] = "top"
  /\ Goto(w, IF w \in quit THEN "exit"
             ELSE IF conn[w] = "none" THEN "connect" ELSE "pop")
  /\ UNCHANGED <<lists, results, held, last, conn, quit, destroyed, wild>>

(* _InitConnector: mysql_init may fail, then mysql_real_connect, then      *)
(* mysql_select_db.  A failure sends the worker to the top of its loop,    *)
(* where only m_pMySQL = NULL makes it connect again.                      *)
InitConnector(w, outcome) ==
  /\ pc[w] = "connect"
  /\ conn' = [conn EXCEPT ![w] = outcome]
  /\ Goto(w, IF outcome = "up" THEN "pop" ELSE "top")
  /\ UNCHANGED <<lists, results, held, last, quit, destroyed, wild>>

(* The event the map holds under the last sequence id, lines 157 to 165.   *)
FoundBySequence(w) == last[w] \in EventIds /\ seqMap[last[w]] # <<>>

\* Variant: front() without pop_front().
KeepFront(w) ==
  /\ processing # <<>>
  /\ held' = [held EXCEPT ![w] = Head(processing)]
  /\ processing' = processing
  /\ Goto(w, "fire")

(* Lines 181 to 185: the front of the processing list, if there is one.    *)
TakeFront(w) ==
  /\ processing # <<>>
  /\ held' = [held EXCEPT ![w] = Head(processing)]
  /\ processing' = Tail(processing)
  /\ Goto(w, "fire")

(* PopFromDBEventProcessingList when it finds an event at once.            *)
Pop(w) ==
  /\ pc[w] = "pop" /\ ~ProcessingLocked
  /\ ~FoundBySequence(w) => processing # <<>>
  /\ held' = [held EXCEPT ![w] = IF FoundBySequence(w)
                                   THEN Head(seqMap[last[w]])
                                   ELSE Head(processing)]
  /\ processing' = IF FoundBySequence(w) THEN processing ELSE Tail(processing)
  /\ Goto(w, "fire")
  /\ UNCHANGED <<fresh, waiting, seqMap, returned, pulse, results, last, conn,
                 quit, destroyed, wild>>

(* Entering with the list empty: _FlushEventWaitingList.                   *)
BeginFlush(w) ==
  /\ pc[w] = "pop" /\ ~ProcessingLocked
  /\ ~FoundBySequence(w)
  /\ processing = <<>>
  /\ Goto(w, IF waiting = <<>> THEN "nap" ELSE "flush")
  /\ UNCHANGED <<lists, results, held, last, conn, quit, destroyed, wild>>

\* Variant: the sequence map is not consulted.
PlaceUnchecked(e) ==
  /\ seqMap' = [seqMap EXCEPT ![EventIdOf[e]] = Append(@, e)]
  /\ processing' = Append(processing, e)
  /\ wild' = FALSE

(* One turn of the loop over the waiting list, lines 263 to 295: an event  *)
(* whose id is not in the map becomes a head and is processed, any other   *)
(* is chained behind the head.  Chaining behind a freed head is undefined. *)
Place(e) ==
  LET id == EventIdOf[e]
      isHead == seqMap[id] = <<>>
  IN /\ seqMap' = [seqMap EXCEPT ![id] = Append(@, e)]
     /\ processing' = IF isHead THEN Append(processing, e) ELSE processing
     /\ wild' = (~isHead /\ Head(seqMap[id]) \in freed)

FlushEventWaitingList(w) ==
  /\ pc[w] = "flush"
  /\ waiting # <<>>
  /\ Place(Head(waiting))
  /\ waiting' = Tail(waiting)
  /\ Goto(w, IF Tail(waiting) = <<>> THEN "take" ELSE "flush")
  /\ UNCHANGED <<fresh, returned, pulse, results, held, last, conn, quit,
                 destroyed>>

(* Nothing to flush: the lock is given up before the wait begins.          *)
Nap(w) ==
  /\ pc[w] = "nap"
  /\ Goto(w, "wait")
  /\ UNCHANGED <<lists, results, held, last, conn, quit, destroyed, wild>>

\* Variant: a timeout starts the wait again instead of ending it.
WaitUntilPulsed(w) ==
  /\ pc[w] = "wait"
  /\ Goto(w, "nap")
  /\ UNCHANGED <<lists, results, held, last, conn, quit, destroyed, wild>>

(* WaitForSingleObject ends after 1000 ms without a pulse.                 *)
WaitTimeout(w) ==
  /\ pc[w] = "wait"
  /\ Goto(w, "recheck")
  /\ UNCHANGED <<lists, results, held, last, conn, quit, destroyed, wild>>

(* The second half of PopFromDBEventProcessingList: after a flush with the *)
(* lock still held, after a wait once it is taken again.                   *)
PopAgain(w) ==
  /\ pc[w] \in {"take", "recheck"}
  /\ (pc[w] = "recheck") => ~ProcessingLocked
  /\ IF processing # <<>>
       THEN TakeFront(w)
       ELSE Goto(w, "top") /\ UNCHANGED <<held, processing>>
  /\ UNCHANGED <<fresh, waiting, seqMap, returned, pulse, results, last, conn,
                 quit, destroyed, wild>>

-----------------------------------------------------------------------------
(* DBConn::Query needs a live handle: on an unconnected one the statement  *)
(* fails, on a closed one anything happens.                                *)
Query(w) ==
  CASE conn[w] = "unconnected" -> {"failed"}
    [] conn[w] = "closed" -> {"undefined"}
    [] OTHER -> {"done", "failed"}

(* FireEvent of the event the worker holds, "failed" for a negative result *)
(* of the statement or of reading its rows.                                *)
FireEvent(w) == IF EventIdOf[held[w]] \in QueryIds THEN Query(w) ELSE {"done"}

(* The turn of the loop from FireEvent to m_bFired: a negative result      *)
(* costs the worker its connection.  The event goes on in either case.     *)
Fire(w, outcome) ==
  /\ pc[w] = "fire"
  /\ outcome \in FireEvent(w)
  /\ last' = [last EXCEPT ![w] = SessionOf[held[w]]]
  /\ conn' = IF outcome = "failed" THEN [conn EXCEPT ![w] = "none"] ELSE conn
  /\ wild' = (outcome = "undefined")
  /\ fired' = fired \cup {held[w]}
  /\ Goto(w, "post")
  /\ UNCHANGED <<lists, consumed, freed, held, quit, destroyed>>

\* Variant: the next event is stored without testing that there is one.
AfterPostNoTest(s) == IF Len(s) > 1 THEN Tail(s) ELSE <<NULL>>

(* What PostFireEvent leaves in the map under the id of a fired event (all *)
(* events are pushed by PushSequenceEvent, so m_bSequence is always set):  *)
(* insert does not replace the entry that is there, so with a next event   *)
(* the fired event stays, cut off from the rest of its chain.              *)
AfterPost(s) == IF Len(s) > 1 THEN <<Head(s)>> ELSE <<>>

PostFireEvent(w) ==
  LET id == EventIdOf[held[w]]
      bRet == seqMap[id] # <<>>
  IN /\ pc[w] = "post" /\ ~ProcessingLocked
     /\ seqMap' = IF bRet THEN [seqMap EXCEPT ![id] = AfterPost(@)] ELSE seqMap
     /\ last' = IF bRet THEN last ELSE [last EXCEPT ![w] = NULL]
     /\ Goto(w, IF bRet THEN "return" ELSE "top")
     /\ UNCHANGED <<fresh, waiting, processing, returned, pulse, results, held,
                    conn, quit, destroyed, wild>>

(* The end of PostFireEvent: _PushEventToReturnList or FreeEvent.          *)
GiveBack(w) ==
  LET e == held[w]
  IN /\ pc[w] = "return"
     /\ returned' = IF e \in Returnable THEN Append(returned, e) ELSE returned
     /\ freed' = IF e \in Returnable THEN freed ELSE freed \cup {e}
     /\ held' = [held EXCEPT ![w] = NULL]
     /\ Goto(w, "top")
     /\ UNCHANGED <<fresh, waiting, processing, seqMap, pulse, fired, consumed, last, conn, quit, destroyed, wild>>

-----------------------------------------------------------------------------
Worker(w) ==
  \/ LoopTop(w)
  \/ \E outcome \in Conns : InitConnector(w, outcome)
  \/ Pop(w)
  \/ BeginFlush(w)
  \/ FlushEventWaitingList(w)
  \/ Nap(w)
  \/ WaitTimeout(w)
  \/ PopAgain(w)
  \/ \E outcome \in {"done", "failed", "undefined"} : Fire(w, outcome)
  \/ PostFireEvent(w)
  \/ GiveBack(w)

(* The process has ended, or nothing can be said about it any more.        *)
Ended == (destroyed \/ wild) /\ UNCHANGED vars

Next ==
  \/ /\ ~wild
     /\ \/ \E e \in Events : PushSequenceEvent(e)
        \/ PulseEvent
        \/ PopFromDBEventReturnList
        \/ \E w \in Workers : Stop(w) \/ Worker(w)
        \/ Destroy
  \/ Ended

Spec == Init /\ [][Next]_vars

(* Every thread keeps running, and mysql_init, which only fails without    *)
(* memory, does not fail every time.                                       *)
Fairness ==
  /\ WF_vars(~wild /\ PulseEvent)
  /\ WF_vars(~wild /\ PopFromDBEventReturnList)
  /\ \A w \in Workers :
       /\ WF_vars(~wild /\ Worker(w))
       /\ SF_vars(~wild /\ \E outcome \in Conns \ {"none"} :
                             InitConnector(w, outcome))

FairSpec == Spec /\ Fairness

-----------------------------------------------------------------------------
(* A worker is between the pop of an event and the end of the critical     *)
(* section of PostFireEvent.                                               *)
Busy(w) == pc[w] \in {"fire", "post"}

(* The entry of the map is an event that is not being processed any more.  *)
Stale(id) ==
  /\ seqMap[id] # <<>>
  /\ Head(seqMap[id]) \notin ElementsOf(processing)
  /\ \A w \in Workers : Busy(w) => held[w] # Head(seqMap[id])

(* In how many places of the program an event is.                          *)
Occurrences(e, s) == Cardinality({i \in 1..Len(s) : s[i] = e})
Owners(e) == {w \in Workers : held[w] = e}
Copies(e) ==
  Occurrences(e, waiting) + Occurrences(e, processing)
    + Occurrences(e, returned) + Cardinality(Owners(e))
    + (IF e \in fresh THEN 1 ELSE 0) + (IF e \in consumed THEN 1 ELSE 0)
    + (IF e \in freed THEN 1 ELSE 0)

(* Two workers never fire events with the same event id at the same time,  *)
(* however pushes, flushes and pops interleave: _FlushEventWaitingList     *)
(* processes an event only when its id is not in the sequence map, and     *)
(* PostFireEvent removes the id only after the event has fired.            *)
OneFiringPerEventId ==
  \A v, w \in Workers :
    v # w /\ Busy(v) /\ Busy(w) => EventIdOf[held[v]] # EventIdOf[held[w]]

(* An event is in at most one list, in the hands of at most one worker and *)
(* freed or consumed at most once: no path of the pop, the post-processing *)
(* and Destroy hands the same object to two owners.                        *)
OneOwner == \A e \in Events : Copies(e) <= 1

(* The events somewhere between PushSequenceEvent and the end of           *)
(* PostFireEvent, and those that are nowhere any more.                     *)
InWork ==
  ElementsOf(waiting) \cup ElementsOf(processing) \cup ({held[w] : w \in Workers} \ {NULL})
Lost ==
  Events \ (fresh \cup InWork \cup ElementsOf(returned) \cup consumed \cup freed)

Pool == INSTANCE EventPool WITH pending <- InWork, lost <- Lost, open <- ~destroyed

(* To the logic thread the lists, the sequence map and the threads are the *)
(* pool of EventPool: nothing is answered twice, taken back or freed while *)
(* in work, and a push is lost only to a rival with the same event id that *)
(* is in work, or once such an event was lost.                             *)
ImplementsEventPool == Pool!PoolSpec

(* A pushed event is fired and its result taken (or the event freed),      *)
(* although PulseEvent can miss a worker that is just about to wait: the   *)
(* wait has a timeout.  Exceptions: a chain in the map of its id, a stop   *)
(* and undefined behaviour.                                                *)
EventsFinish ==
  \A e \in Events :
    (e \notin fresh) ~>
      \/ e \in consumed \cup freed
      \/ Len(seqMap[EventIdOf[e]]) > 1 \/ Stale(EventIdOf[e])
      \/ quit # {} \/ wild

(* DBConnPool::Stop returns: every thread it joins leaves its loop, from   *)
(* wherever it was when m_bQuit was set, connecting and waiting included.  *)
StopReturns ==
  quit = Workers ~> ((\A w \in Workers : pc[w] = "exit") \/ wild)
=============================================================================
