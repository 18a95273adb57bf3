-------------------------- MODULE DBConnPoolProofs --------------------------
(***************************************************************************)
(* Proofs about DBConnPool for any number of workers, events, event ids    *)
(* and sessions.                                                           *)
(*                                                                         *)
(* OneFiringPerEventId is not inductive.  What keeps it is the discipline  *)
(* of the sequence map: every event that is processed is the entry of the  *)
(* map under its id, and is in one place only.  Two busy workers with the  *)
(* same event id would both hold that entry.                               *)
(***************************************************************************)
EXTENDS DBConnPool, TLAPS

(* The event is the entry of the sequence map under its own id.            *)
IsEntry(e) ==
  /\ seqMap[EventIdOf[e]] # <<>>
  /\ Head(seqMap[EventIdOf[e]]) = e

(* A worker with an event in its hands really has one.                     *)
HandsFull == \A w \in Workers : pc[w] \in {"fire", "post", "return"} => held[w] \in Events

(* Every event of the processing list is the entry of its id.              *)
QueuedAreEntries == \A i \in 1..Len(processing) : IsEntry(processing[i])

(* No event is in the processing list twice.                               *)
QueuedOnce ==
  \A i, j \in 1..Len(processing) : processing[i] = processing[j] => i = j

(* What a busy worker holds is the entry of its id ...                     *)
HeldAreEntries == \A w \in Workers : Busy(w) => IsEntry(held[w])

(* ... has left the processing list ...                                    *)
HeldNotQueued ==
  \A w \in Workers : Busy(w) => \A i \in 1..Len(processing) : processing[i] # held[w]

(* ... and is in no other worker's hands.                                  *)
HeldOnce ==
  \A v, w \in Workers : v # w /\ Busy(v) /\ Busy(w) => held[v] # held[w]

Inv ==
  /\ TypeOK
  /\ HandsFull
  /\ QueuedAreEntries
  /\ QueuedOnce
  /\ HeldAreEntries
  /\ HeldNotQueued
  /\ HeldOnce

-----------------------------------------------------------------------------
(* A sequence that is not empty has a first element, and the rest of it is *)
(* the sequence shifted by one.                                            *)
LEMMA HeadTail ==
  ASSUME NEW S, NEW s \in Seq(S), s # <<>>
  PROVE  /\ Len(s) \in Nat /\ Len(s) > 0 /\ 1 \in 1..Len(s)
         /\ Head(s) = s[1] /\ Head(s) \in S
         /\ Tail(s) \in Seq(S) /\ Len(Tail(s)) = Len(s) - 1
         /\ \A i \in 1..Len(Tail(s)) : i + 1 \in 1..Len(s) /\ Tail(s)[i] = s[i + 1]
OBVIOUS

(* The lookup by sequence id in PopFromDBEventProcessingList never finds   *)
(* anything: the map is keyed by event ids and no session id is one.       *)
LEMMA NeverFound ==
  ASSUME TypeOK, NEW w \in Workers
  PROVE  ~FoundBySequence(w)
BY PoolAssumption DEF TypeOK, FoundBySequence

-----------------------------------------------------------------------------
(* Type correctness, one lemma for the logic thread and one for a worker.  *)
LEMMA LogicType ==
  ASSUME TypeOK,
         \/ \E e \in Events : PushSequenceEvent(e)
         \/ PulseEvent
         \/ PopFromDBEventReturnList
         \/ \E w \in Workers : Stop(w)
         \/ Destroy
  PROVE  TypeOK'
<1>1. CASE \E e \in Events : PushSequenceEvent(e)
  BY <1>1 DEF TypeOK, PushSequenceEvent, results, threads
<1>2. CASE PulseEvent
  <2>1. pc' \in [Workers -> PCs]
    BY <1>2 DEF TypeOK, PulseEvent, PCs
  <2> QED BY <1>2, <2>1 DEF TypeOK, PulseEvent, results
<1>3. CASE PopFromDBEventReturnList
  BY <1>3, HeadTail DEF TypeOK, PopFromDBEventReturnList, threads
<1>4. CASE \E w \in Workers : Stop(w)
  BY <1>4 DEF TypeOK, Stop, lists, results, threads
<1>5. CASE Destroy
  <2>1. ASSUME NEW s \in Seq(Events) PROVE ElementsOf(s) \subseteq Events
    BY DEF ElementsOf
  <2>2. freed' \subseteq Events
    BY <1>5, <2>1 DEF TypeOK, Destroy
  <2>3. seqMap' \in [EventIds -> Seq(Events)]
    BY <1>5 DEF Destroy
  <2>4. wild' \in BOOLEAN /\ destroyed' \in BOOLEAN
    BY <1>5 DEF Destroy
  <2> QED BY <1>5, <2>2, <2>3, <2>4 DEF TypeOK, Destroy, threads
<1> QED BY <1>1, <1>2, <1>3, <1>4, <1>5

LEMMA WorkerType ==
  ASSUME TypeOK, HandsFull, NEW w \in Workers, Worker(w)
  PROVE  TypeOK'
<1>1. CASE LoopTop(w)
  BY <1>1 DEF TypeOK, LoopTop, Goto, PCs, lists, results
<1>2. CASE \E outcome \in Conns : InitConnector(w, outcome)
  BY <1>2 DEF TypeOK, InitConnector, Goto, PCs, lists, results
<1>3. CASE Pop(w)
  BY <1>3, NeverFound, HeadTail DEF TypeOK, Pop, Goto, PCs, results
<1>4. CASE BeginFlush(w)
  BY <1>4 DEF TypeOK, BeginFlush, Goto, PCs, lists, results
<1>5. CASE FlushEventWaitingList(w)
  <2> DEFINE e == Head(waiting)
  <2>1. e \in Events /\ Tail(waiting) \in Seq(Events)
    BY <1>5, HeadTail DEF TypeOK, FlushEventWaitingList
  <2>2. EventIdOf[e] \in EventIds
    BY <2>1, PoolAssumption
  <2>3. seqMap' \in [EventIds -> Seq(Events)] /\ processing' \in Seq(Events)
    BY <1>5, <2>1, <2>2 DEF TypeOK, FlushEventWaitingList, Place
  <2>4. wild' \in BOOLEAN
    BY <1>5 DEF FlushEventWaitingList, Place
  <2>5. pc' \in [Workers -> PCs]
    BY <1>5 DEF TypeOK, FlushEventWaitingList, Goto, PCs
  <2> QED BY <1>5, <2>1, <2>3, <2>4, <2>5 DEF TypeOK, FlushEventWaitingList, results
<1>6. CASE Nap(w)
  BY <1>6 DEF TypeOK, Nap, Goto, PCs, lists, results
<1>7. CASE WaitTimeout(w)
  BY <1>7 DEF TypeOK, WaitTimeout, Goto, PCs, lists, results
<1>8. CASE PopAgain(w)
  <2>1. held' \in [Workers -> Events \cup {NULL}] /\ processing' \in Seq(Events)
    <3>1. CASE processing # <<>>
      <4>1. Head(processing) \in Events /\ Tail(processing) \in Seq(Events)
        BY <3>1, HeadTail DEF TypeOK
      <4>2. held' = [held EXCEPT ![w] = Head(processing)] /\ processing' = Tail(processing)
        BY <1>8, <3>1 DEF PopAgain, TakeFront
      <4> QED BY <4>1, <4>2 DEF TypeOK
    <3>2. CASE processing = <<>>
      BY <1>8, <3>2 DEF TypeOK, PopAgain
    <3> QED BY <3>1, <3>2
  <2>2. pc' \in [Workers -> PCs]
    BY <1>8 DEF TypeOK, PopAgain, TakeFront, Goto, PCs
  <2> QED BY <1>8, <2>1, <2>2 DEF TypeOK, PopAgain, results
<1>9. ASSUME NEW outcome, Fire(w, outcome) PROVE TypeOK'
  <2>1. held[w] \in Events
    BY <1>9 DEF HandsFull, Fire
  <2>2. last' \in [Workers -> Sessions \cup {NULL}]
    BY <1>9, <2>1, PoolAssumption DEF TypeOK, Fire
  <2>3. conn' \in [Workers -> Conns]
    BY <1>9 DEF TypeOK, Fire, Conns
  <2>4. wild' \in BOOLEAN
    BY <1>9 DEF Fire
  <2>5. pc' \in [Workers -> PCs]
    BY <1>9 DEF TypeOK, Fire, Goto, PCs
  <2>6. fired' \subseteq Events
    BY <1>9, <2>1 DEF TypeOK, Fire
  <2> QED BY <1>9, <2>2, <2>3, <2>4, <2>5, <2>6 DEF TypeOK, Fire, lists
<1>10. CASE PostFireEvent(w)
  <2>1. held[w] \in Events
    BY <1>10 DEF HandsFull, PostFireEvent
  <2> DEFINE id == EventIdOf[held[w]]
  <2>2. id \in EventIds /\ seqMap[id] \in Seq(Events)
    BY <2>1, PoolAssumption DEF TypeOK
  <2>3. seqMap[id] # <<>> => AfterPost(seqMap[id]) \in Seq(Events)
    BY <2>2, HeadTail DEF AfterPost
  <2>4. seqMap' \in [EventIds -> Seq(Events)]
    BY <1>10, <2>2, <2>3 DEF TypeOK, PostFireEvent
  <2>5. last' \in [Workers -> Sessions \cup {NULL}] /\ pc' \in [Workers -> PCs]
    BY <1>10 DEF TypeOK, PostFireEvent, Goto, PCs
  <2> QED BY <1>10, <2>4, <2>5 DEF TypeOK, PostFireEvent, results
<1>11. CASE GiveBack(w)
  <2>1. held[w] \in Events
    BY <1>11 DEF HandsFull, GiveBack
  <2> QED BY <1>11, <2>1 DEF TypeOK, GiveBack, Goto, PCs
<1> QED
  BY <1>1, <1>2, <1>3, <1>4, <1>5, <1>6, <1>7, <1>8, <1>9, <1>10, <1>11 DEF Worker

-----------------------------------------------------------------------------
(* The discipline of the map, without the types.                           *)
Discipline ==
  /\ HandsFull
  /\ QueuedAreEntries
  /\ QueuedOnce
  /\ HeldAreEntries
  /\ HeldNotQueued
  /\ HeldOnce

(* A step that leaves the processing list and the map alone and gives no   *)
(* worker an event keeps the discipline.                                   *)
LEMMA QuietStep ==
  ASSUME Inv, UNCHANGED <<processing, seqMap>>,
         \A w \in Workers : Busy(w)' => Busy(w) /\ held'[w] = held[w],
         \A w \in Workers : pc'[w] \in {"fire", "post", "return"} => held'[w] \in Events
  PROVE  Discipline'
BY DEF Inv, Discipline, HandsFull, QueuedAreEntries, QueuedOnce, HeldAreEntries,
       HeldNotQueued, HeldOnce, IsEntry

(* Taking the front of the processing list: the front is an entry of the   *)
(* map, nobody else holds it and it is not in the rest of the list.        *)
LEMMA TakeStep ==
  ASSUME Inv, NEW w \in Workers, TakeFront(w), UNCHANGED seqMap
  PROVE  Discipline'
<1> DEFINE e == Head(processing)
<1>1. /\ e = processing[1] /\ e \in Events /\ 1 \in 1..Len(processing)
      /\ processing' = Tail(processing) /\ Len(processing') = Len(processing) - 1
      /\ Len(processing) \in Nat
      /\ \A i \in 1..Len(processing') :
           i + 1 \in 1..Len(processing) /\ processing'[i] = processing[i + 1]
  BY HeadTail DEF TakeFront, Inv, TypeOK
<1>2. IsEntry(e)
  BY <1>1 DEF Inv, QueuedAreEntries
<1>3. held'[w] = e /\ pc'[w] = "fire"
  BY DEF TakeFront, Goto, Inv, TypeOK
<1>4. \A v \in Workers : v # w => held'[v] = held[v] /\ pc'[v] = pc[v]
  BY DEF TakeFront, Goto, Inv, TypeOK
<1>5. HandsFull'
  BY <1>1, <1>3, <1>4 DEF HandsFull, Inv
<1>6. QueuedAreEntries'
  BY <1>1 DEF QueuedAreEntries, IsEntry, Inv
<1>7. QueuedOnce'
  BY <1>1 DEF QueuedOnce, Inv
<1>8. HeldAreEntries'
  BY <1>2, <1>3, <1>4 DEF HeldAreEntries, IsEntry, Busy, Inv
<1>9. \A i \in 1..Len(processing') : processing'[i] # e
  BY <1>1 DEF QueuedOnce, Inv
<1>10. HeldNotQueued'
  BY <1>1, <1>3, <1>4, <1>9 DEF HeldNotQueued, Busy, Inv
<1>11. \A v \in Workers : Busy(v) => held[v] # e
  BY <1>1 DEF HeldNotQueued, Inv
<1>12. HeldOnce'
  BY <1>3, <1>4, <1>11 DEF HeldOnce, Busy, Inv
<1> QED BY <1>5, <1>6, <1>7, <1>8, <1>10, <1>12 DEF Discipline

(* Flushing one event.  A new entry has an id that nothing processed has,  *)
(* so it is nowhere else; a chained event leaves every entry where it was. *)
LEMMA FlushStep ==
  ASSUME Inv, NEW w \in Workers, FlushEventWaitingList(w)
  PROVE  Discipline'
<1>0. PICK e \in Events : e = Head(waiting)
  BY HeadTail DEF FlushEventWaitingList, Inv, TypeOK
<1> DEFINE id == EventIdOf[e]
<1>1. e \in Events /\ id \in EventIds
  BY PoolAssumption
<1>2. seqMap' = [seqMap EXCEPT ![id] = Append(seqMap[id], e)] /\ held' = held
  BY <1>0 DEF FlushEventWaitingList, Place
<1>3. /\ pc[w] = "flush" /\ pc'[w] \in {"flush", "take"}
      /\ \A v \in Workers : v # w => pc'[v] = pc[v]
  BY DEF FlushEventWaitingList, Goto, Inv, TypeOK
<1>4. \A v \in Workers : (Busy(v)' <=> Busy(v))
  BY <1>3 DEF Busy
<1>5. HandsFull'
  BY <1>2, <1>3 DEF HandsFull, Inv
<1>6. \A x \in Events : IsEntry(x) => IsEntry(x)'
  <2> SUFFICES ASSUME NEW x \in Events, IsEntry(x) PROVE IsEntry(x)'
    OBVIOUS
  <2>1. EventIdOf[x] \in EventIds
    BY PoolAssumption
  <2>2. CASE EventIdOf[x] = id
    <3>1. seqMap[id] \in Seq(Events) /\ seqMap[id] # <<>>
      BY <1>1, <2>2 DEF Inv, TypeOK, IsEntry
    <3>2. Append(seqMap[id], e) # <<>> /\ Head(Append(seqMap[id], e)) = Head(seqMap[id])
      BY <1>1, <3>1
    <3> QED BY <1>1, <1>2, <2>2, <3>2 DEF IsEntry, Inv, TypeOK
  <2>3. CASE EventIdOf[x] # id
    BY <1>1, <1>2, <2>1, <2>3 DEF IsEntry, Inv, TypeOK
  <2> QED BY <2>2, <2>3
<1>7. \A i \in 1..Len(processing) : processing[i] \in Events
  BY DEF Inv, TypeOK
<1>8. HeldAreEntries'
  BY <1>2, <1>4, <1>6 DEF HeldAreEntries, HandsFull, Busy, Inv
<1>9. HeldOnce'
  BY <1>2, <1>4 DEF HeldOnce, Inv
<1>10. CASE seqMap[id] # <<>>
  <2>1. processing' = processing
    BY <1>0, <1>10 DEF FlushEventWaitingList, Place
  <2>2. QueuedAreEntries' /\ QueuedOnce' /\ HeldNotQueued'
    BY <1>2, <1>4, <1>6, <1>7, <2>1
    DEF QueuedAreEntries, QueuedOnce, HeldNotQueued, Inv
  <2> QED BY <1>5, <1>8, <1>9, <2>2 DEF Discipline
<1>11. CASE seqMap[id] = <<>>
  <2>1. processing' = Append(processing, e) /\ processing \in Seq(Events)
    BY <1>0, <1>11 DEF FlushEventWaitingList, Place, Inv, TypeOK
  <2>2. /\ Len(processing) \in Nat /\ Len(processing') = Len(processing) + 1
        /\ \A i \in 1..Len(processing) : processing'[i] = processing[i]
        /\ processing'[Len(processing) + 1] = e
    BY <1>1, <2>1
  <2>3. IsEntry(e)'
    <3>1. seqMap'[id] = <<e>>
      BY <1>1, <1>2, <1>11 DEF Inv, TypeOK
    <3>2. <<e>> # <<>> /\ Head(<<e>>) = e
      OBVIOUS
    <3> QED BY <3>1, <3>2 DEF IsEntry
  <2>4. ~IsEntry(e)
    BY <1>11 DEF IsEntry
  <2>5. QueuedAreEntries'
    <3>1. ASSUME NEW i \in 1..Len(processing) PROVE IsEntry(processing[i])'
      <4>1. IsEntry(processing[i]) /\ processing[i] \in Events
        BY <1>7 DEF QueuedAreEntries, Inv
      <4>2. processing'[i] = processing[i]
        BY <2>2
      <4> QED BY <1>6, <4>1, <4>2 DEF IsEntry
    <3>2. IsEntry(processing[Len(processing)])'
      BY <2>2, <2>3 DEF IsEntry
    <3> QED BY <2>2, <3>1, <3>2 DEF QueuedAreEntries
  <2>6. \A i \in 1..Len(processing) : processing[i] # e
    BY <2>4 DEF QueuedAreEntries, Inv
  <2>7. QueuedOnce'
    BY <2>2, <2>6 DEF QueuedOnce, Inv
  <2>8. \A v \in Workers : Busy(v) => held[v] # e
    BY <2>4 DEF HeldAreEntries, Inv
  <2>9. HeldNotQueued'
    BY <1>2, <1>4, <2>2, <2>8 DEF HeldNotQueued, Inv
  <2> QED BY <1>5, <1>8, <1>9, <2>5, <2>7, <2>9 DEF Discipline
<1> QED BY <1>10, <1>11

(* PostFireEvent touches the map only under the id of the worker's own     *)
(* event, and nobody else has an event of that id.                         *)
LEMMA PostStep ==
  ASSUME Inv, NEW w \in Workers, PostFireEvent(w)
  PROVE  Discipline'
<1> DEFINE e == held[w]
           id == EventIdOf[e]
<1>1. Busy(w) /\ e \in Events /\ id \in EventIds /\ IsEntry(e)
  BY PoolAssumption DEF PostFireEvent, Busy, Inv, HandsFull, HeldAreEntries
<1>2. /\ seqMap' = [seqMap EXCEPT ![id] = AfterPost(seqMap[id])]
      /\ held' = held /\ processing' = processing
  BY <1>1 DEF PostFireEvent, IsEntry
<1>3. pc'[w] = "return" /\ \A v \in Workers : v # w => pc'[v] = pc[v]
  BY <1>1 DEF PostFireEvent, IsEntry, Goto, Inv, TypeOK
<1>4. \A v \in Workers : Busy(v)' => v # w /\ Busy(v)
  BY <1>3 DEF Busy
<1>5. \A x \in Events : IsEntry(x) /\ x # e => IsEntry(x)'
  <2> SUFFICES ASSUME NEW x \in Events, IsEntry(x), x # e PROVE IsEntry(x)'
    OBVIOUS
  <2>1. EventIdOf[x] \in EventIds /\ EventIdOf[x] # id
    BY <1>1, PoolAssumption DEF IsEntry
  <2> QED BY <1>1, <1>2, <2>1 DEF IsEntry, Inv, TypeOK
<1>6. \A i \in 1..Len(processing) : processing[i] \in Events /\ processing[i] # e
  <2>1. processing \in Seq(Events) /\ HeldNotQueued
    BY DEF Inv, TypeOK
  <2> QED BY <1>1, <2>1 DEF HeldNotQueued
<1>7. \A v \in Workers : Busy(v)' => held[v] \in Events /\ held[v] # e
  BY <1>1, <1>4 DEF Inv, HandsFull, HeldOnce, Busy
<1>8. HandsFull'
  BY <1>1, <1>2, <1>3 DEF HandsFull, Inv
<1>9. QueuedAreEntries' /\ QueuedOnce'
  BY <1>2, <1>5, <1>6 DEF QueuedAreEntries, QueuedOnce, Inv
<1>10. HeldAreEntries'
  BY <1>2, <1>4, <1>5, <1>7 DEF HeldAreEntries, Inv
<1>11. HeldNotQueued' /\ HeldOnce'
  BY <1>2, <1>4 DEF HeldNotQueued, HeldOnce, Inv
<1> QED BY <1>8, <1>9, <1>10, <1>11 DEF Discipline

-----------------------------------------------------------------------------
(* The remaining steps of a worker give it no event.                       *)
LEMMA WorkerDiscipline ==
  ASSUME Inv, NEW w \in Workers, Worker(w)
  PROVE  Discipline'
<1> USE DEF Inv, TypeOK, HandsFull, Busy
<1>1. CASE LoopTop(w)
  BY <1>1, QuietStep DEF LoopTop, Goto, lists
<1>2. CASE \E outcome \in Conns : InitConnector(w, outcome)
  BY <1>2, QuietStep DEF InitConnector, Goto, lists
<1>3. CASE Pop(w)
  <2>1. TakeFront(w) /\ UNCHANGED seqMap
    BY <1>3, NeverFound DEF Pop, TakeFront
  <2> QED BY <2>1, TakeStep
<1>4. CASE BeginFlush(w)
  BY <1>4, QuietStep DEF BeginFlush, Goto, lists
<1>5. CASE FlushEventWaitingList(w)
  BY <1>5, FlushStep
<1>6. CASE Nap(w)
  BY <1>6, QuietStep DEF Nap, Goto, lists
<1>7. CASE WaitTimeout(w)
  BY <1>7, QuietStep DEF WaitTimeout, Goto, lists
<1>8. CASE PopAgain(w)
  <2>1. CASE processing # <<>>
    BY <1>8, <2>1, TakeStep DEF PopAgain
  <2>2. CASE processing = <<>>
    BY <1>8, <2>2, QuietStep DEF PopAgain, Goto
  <2> QED BY <2>1, <2>2
<1>9. ASSUME NEW outcome, Fire(w, outcome) PROVE Discipline'
  BY <1>9, QuietStep DEF Fire, Goto, lists
<1>10. CASE PostFireEvent(w)
  BY <1>10, PostStep
<1>11. CASE GiveBack(w)
  BY <1>11, QuietStep DEF GiveBack, Goto
<1> QED
  BY <1>1, <1>2, <1>3, <1>4, <1>5, <1>6, <1>7, <1>8, <1>9, <1>10, <1>11 DEF Worker

(* The logic thread gives events to nobody; Destroy runs when every worker *)
(* has left its loop.                                                      *)
LEMMA LogicDiscipline ==
  ASSUME Inv,
         \/ \E e \in Events : PushSequenceEvent(e)
         \/ PulseEvent
         \/ PopFromDBEventReturnList
         \/ \E w \in Workers : Stop(w)
         \/ Destroy
  PROVE  Discipline'
<1> USE DEF Inv, TypeOK, HandsFull, Busy
<1>1. CASE \E e \in Events : PushSequenceEvent(e)
  BY <1>1, QuietStep DEF PushSequenceEvent, threads
<1>2. CASE PulseEvent
  BY <1>2, QuietStep DEF PulseEvent
<1>3. CASE PopFromDBEventReturnList
  BY <1>3, QuietStep DEF PopFromDBEventReturnList, threads
<1>4. CASE \E w \in Workers : Stop(w)
  BY <1>4, QuietStep DEF Stop, lists, threads
<1>5. CASE Destroy
  <2>1. processing' = <<>> /\ \A w \in Workers : pc'[w] = "exit"
    BY <1>5 DEF Destroy, threads
  <2> QED BY <2>1 DEF Discipline, QueuedAreEntries, QueuedOnce, HeldAreEntries,
                      HeldNotQueued, HeldOnce
<1> QED BY <1>1, <1>2, <1>3, <1>4, <1>5

(* The invariant is inductive.                                             *)
LEMMA InvInductive == Inv /\ [Next]_vars => Inv'
<1> SUFFICES ASSUME Inv, [Next]_vars PROVE Inv'
  OBVIOUS
<1>1. CASE \E w \in Workers : Worker(w)
  BY <1>1, WorkerType, WorkerDiscipline DEF Inv, Discipline
<1>2. CASE \/ \E e \in Events : PushSequenceEvent(e)
           \/ PulseEvent
           \/ PopFromDBEventReturnList
           \/ \E w \in Workers : Stop(w)
           \/ Destroy
  BY <1>2, LogicType, LogicDiscipline DEF Inv, Discipline
<1>3. CASE UNCHANGED vars
  <2>1. TypeOK'
    BY <1>3 DEF Inv, TypeOK, vars, lists, results, threads
  <2>2. Discipline'
    BY <1>3, QuietStep DEF Inv, HandsFull, Busy, vars, lists, threads
  <2> QED BY <2>1, <2>2 DEF Inv, Discipline
<1> QED BY <1>1, <1>2, <1>3 DEF Next, Ended

(* The pool starts with empty lists and idle workers.                      *)
LEMMA InvInit == Init => Inv
<1> SUFFICES ASSUME Init PROVE Inv
  OBVIOUS
<1>1. TypeOK
  <2>1. pc \in [Workers -> PCs] /\ conn \in [Workers -> Conns]
    BY DEF Init, PCs, Conns
  <2>2. pulse \in BOOLEAN /\ destroyed \in BOOLEAN /\ wild \in BOOLEAN
    BY DEF Init
  <2>3. seqMap \in [EventIds -> Seq(Events)]
    BY DEF Init
  <2> QED BY <2>1, <2>2, <2>3 DEF Init, TypeOK
<1>2. \A w \in Workers : pc[w] = "top"
  BY DEF Init
<1>3. processing = <<>>
  BY DEF Init
<1> QED
  BY <1>1, <1>2, <1>3 DEF Inv, HandsFull, QueuedAreEntries, QueuedOnce,
                          HeldAreEntries, HeldNotQueued, HeldOnce, Busy

(* The invariant holds in every behaviour of the pool.                     *)
LEMMA InvAlways == Spec => []Inv
BY InvInit, InvInductive, PTL DEF Spec

(* Two busy workers with events of one id would both hold the entry of the *)
(* map under that id, hence the same event.                                *)
LEMMA InvImpliesOneFiring == Inv => OneFiringPerEventId
BY DEF Inv, HeldAreEntries, HeldOnce, IsEntry, OneFiringPerEventId

(* The lists, the map and the state of every DBConn thread keep their      *)
(* types: no NULL event is ever queued, fired or returned.                 *)
THEOREM PoolTypeCorrect == Spec => []TypeOK
<1>1. Inv => TypeOK
  BY DEF Inv
<1> QED BY <1>1, InvAlways, PTL

(* For any number of DBConn threads, two of them never fire events with    *)
(* the same event id at the same time.                                     *)
THEOREM OneFiringAlways == Spec => []OneFiringPerEventId
BY InvAlways, InvImpliesOneFiring, PTL
=============================================================================
