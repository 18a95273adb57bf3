------------------------ MODULE DBConnPoolRefinement ------------------------
(***************************************************************************)
(* DBConnPool implements EventPool, for any number of workers, events and  *)
(* event ids.  Two facts carry the proof.  Every event is in one place     *)
(* (list, hand, or set of finished events) at most, so that a step moves   *)
(* it from one to the next; that is also OneOwner.  And an entry of the    *)
(* sequence map is the event being processed, unless an event of its id    *)
(* was lost before, so that who is chained has a rival.                    *)
(***************************************************************************)
EXTENDS DBConnPoolProofs, FiniteSetTheorems

Distinct(s) == \A i, j \in 1..Len(s) : s[i] = s[j] => i = j

Held == {held[w] : w \in Workers} \ {NULL}

(* Only a worker on the way from the pop to the return has an event ...    *)
HandsEmpty == \A w \in Workers : pc[w] \notin {"fire", "post", "return"} => held[w] = NULL

(* ... and no two workers have the same.                                   *)
HandsApart == \A v, w \in Workers : v # w /\ held[v] # NULL => held[v] # held[w]

(* Seven sets of which no two meet.                                        *)
Disjoint7(F, W, P, H, R, C, D) ==
  /\ F \cap (W \cup P \cup H \cup R \cup C \cup D) = {}
  /\ W \cap (P \cup H \cup R \cup C \cup D) = {}
  /\ P \cap (H \cup R \cup C \cup D) = {}
  /\ H \cap (R \cup C \cup D) = {}
  /\ R \cap (C \cup D) = {}
  /\ C \cap D = {}

PlacesApart ==
  Disjoint7(fresh, ElementsOf(waiting), ElementsOf(processing), Held, ElementsOf(returned),
            consumed, freed)

ListsDistinct == Distinct(waiting) /\ Distinct(processing) /\ Distinct(returned)

Placed == HandsEmpty /\ HandsApart /\ PlacesApart /\ ListsDistinct

-----------------------------------------------------------------------------
(* The sequence map.                                                       *)

(* What is chained under an id has that id, and has been flushed.          *)
ChainsOwnId ==
  \A id \in EventIds : \A x \in ElementsOf(seqMap[id]) :
    EventIdOf[x] = id /\ x \notin fresh \cup ElementsOf(waiting)

(* Whatever comes after the first event of a chain is lost.                *)
ChainedAreLost ==
  \A id \in EventIds : \A i \in 2..Len(seqMap[id]) : seqMap[id][i] \in Lost

(* The event is being processed.                                           *)
Processed(x) == x \in ElementsOf(processing) \/ \E w \in Workers : Busy(w) /\ held[w] = x

(* An entry is being processed, or an event of its id was lost.            *)
EntriesAccounted ==
  \A id \in EventIds :
    seqMap[id] # <<>> => \/ Processed(Head(seqMap[id]))
                         \/ \E f \in Lost : EventIdOf[f] = id

Accounted == ChainsOwnId /\ ChainedAreLost /\ EntriesAccounted

RInv == Inv /\ Placed /\ Accounted

-----------------------------------------------------------------------------
(* Lists as sets.                                                          *)
LEMMA ElementsAppend ==
  ASSUME NEW S, NEW s \in Seq(S), NEW e \in S
  PROVE  /\ ElementsOf(Append(s, e)) = ElementsOf(s) \cup {e}
         /\ Distinct(s) /\ e \notin ElementsOf(s) => Distinct(Append(s, e))
<1>1. /\ Len(s) \in Nat /\ Len(Append(s, e)) = Len(s) + 1
      /\ \A i \in 1..Len(s) : Append(s, e)[i] = s[i]
      /\ Append(s, e)[Len(s) + 1] = e
  OBVIOUS
<1>2. 1..(Len(s) + 1) = 1..Len(s) \cup {Len(s) + 1}
  BY <1>1
<1>3. ElementsOf(Append(s, e)) = ElementsOf(s) \cup {e}
  BY <1>1, <1>2 DEF ElementsOf
<1>4. ASSUME Distinct(s), e \notin ElementsOf(s) PROVE Distinct(Append(s, e))
  BY <1>1, <1>2, <1>4 DEF ElementsOf, Distinct
<1> QED BY <1>3, <1>4

LEMMA ElementsTail ==
  ASSUME NEW S, NEW s \in Seq(S), s # <<>>, Distinct(s)
  PROVE  /\ Head(s) \in ElementsOf(s)
         /\ ElementsOf(Tail(s)) = ElementsOf(s) \ {Head(s)}
         /\ Distinct(Tail(s))
<1>1. /\ Len(s) \in Nat /\ Len(s) > 0 /\ 1 \in 1..Len(s) /\ Head(s) = s[1]
      /\ Len(Tail(s)) = Len(s) - 1
      /\ \A i \in 1..Len(Tail(s)) : i + 1 \in 1..Len(s) /\ Tail(s)[i] = s[i + 1]
  BY HeadTail
<1>2. Distinct(Tail(s))
  BY <1>1 DEF Distinct
<1>3. Head(s) \in ElementsOf(s)
  BY <1>1 DEF ElementsOf
<1>4. ASSUME NEW x \in ElementsOf(Tail(s)) PROVE x \in ElementsOf(s) \ {Head(s)}
  <2>1. PICK i \in 1..Len(Tail(s)) : x = Tail(s)[i]
    BY <1>4 DEF ElementsOf
  <2>2. i + 1 \in 1..Len(s) /\ x = s[i + 1] /\ i + 1 # 1
    BY <1>1, <2>1
  <2> QED BY <1>1, <2>2 DEF ElementsOf, Distinct
<1>5. ASSUME NEW x \in ElementsOf(s), x # Head(s) PROVE x \in ElementsOf(Tail(s))
  <2>1. PICK i \in 1..Len(s) : x = s[i]
    BY <1>5 DEF ElementsOf
  <2>2. i # 1 /\ i - 1 \in 1..Len(Tail(s))
    BY <1>1, <1>5, <2>1
  <2>3. Tail(s)[i - 1] = s[i]
    BY <1>1, <2>2
  <2> QED BY <2>1, <2>2, <2>3 DEF ElementsOf
<1> QED BY <1>2, <1>3, <1>4, <1>5

LEMMA ElementsType ==
  ASSUME NEW S, NEW s \in Seq(S)
  PROVE  ElementsOf(s) \subseteq S
BY DEF ElementsOf

LEMMA ElementsEmpty == ElementsOf(<<>>) = {} /\ Distinct(<<>>)
BY DEF ElementsOf, Distinct

-----------------------------------------------------------------------------
(* Where the events are after a step.  First the steps that move none.     *)
Quiet ==
  /\ UNCHANGED <<fresh, waiting, processing, returned, consumed, freed, held, destroyed>>
  /\ \A w \in Workers : pc'[w] \notin {"fire", "post", "return"} =>
                          pc[w] \notin {"fire", "post", "return"}

LEMMA QuietPlaced ==
  ASSUME Placed, Quiet
  PROVE  Placed' /\ InWork' = InWork /\ Lost' = Lost
<1>1. Held' = Held /\ InWork' = InWork
  BY DEF Held, InWork, Quiet
<1>2. Lost' = Lost
  BY <1>1 DEF Lost, Quiet
<1>3. HandsEmpty' /\ HandsApart'
  BY DEF Placed, HandsEmpty, HandsApart, Quiet
<1>4. PlacesApart' /\ ListsDistinct'
  BY <1>1 DEF Placed, PlacesApart, ListsDistinct, Quiet
<1> QED BY <1>1, <1>2, <1>3, <1>4 DEF Placed

(* A push.                                                                 *)
LEMMA PushPlaced ==
  ASSUME Inv, Placed, NEW e \in Events, PushSequenceEvent(e)
  PROVE  Placed' /\ InWork' = InWork \cup {e} /\ Lost' = Lost
<1>1. /\ e \in fresh /\ fresh' = fresh \ {e} /\ waiting' = Append(waiting, e)
      /\ UNCHANGED <<processing, returned, consumed, freed, held, pc>>
  BY DEF PushSequenceEvent, results, threads
<1>2. waiting \in Seq(Events) /\ Distinct(waiting) /\ e \notin ElementsOf(waiting)
  BY <1>1 DEF Inv, TypeOK, Placed, ListsDistinct, PlacesApart, Disjoint7
<1>3. ElementsOf(waiting)' = ElementsOf(waiting) \cup {e} /\ Distinct(waiting)'
  BY <1>1, <1>2, ElementsAppend
<1>4. Held' = Held
  BY <1>1 DEF Held
<1>5. HandsEmpty' /\ HandsApart' /\ ListsDistinct'
  BY <1>1, <1>3 DEF Placed, HandsEmpty, HandsApart, ListsDistinct
<1>6. PlacesApart'
  BY <1>1, <1>3, <1>4 DEF Placed, PlacesApart, Disjoint7
<1>7. InWork' = InWork \cup {e}
  BY <1>1, <1>3, <1>4 DEF InWork, Held
<1>8. Lost' = Lost
  BY <1>1, <1>7 DEF Lost
<1> QED BY <1>5, <1>6, <1>7, <1>8 DEF Placed

(* The logic thread collects an answer.                                    *)
LEMMA CollectPlaced ==
  ASSUME Inv, Placed, PopFromDBEventReturnList
  PROVE  Placed' /\ InWork' = InWork /\ Lost' = Lost
<1>0. PICK e \in Events : e = Head(returned)
  BY HeadTail DEF PopFromDBEventReturnList, Inv, TypeOK
<1>1. /\ returned # <<>> /\ returned' = Tail(returned) /\ consumed' = consumed \cup {e}
      /\ UNCHANGED <<fresh, waiting, processing, freed, held, pc>>
  BY <1>0 DEF PopFromDBEventReturnList, threads
<1>2. returned \in Seq(Events) /\ Distinct(returned)
  BY DEF Inv, TypeOK, Placed, ListsDistinct
<1>3. /\ e \in ElementsOf(returned)
      /\ ElementsOf(returned)' = ElementsOf(returned) \ {e} /\ Distinct(returned)'
  BY <1>0, <1>1, <1>2, ElementsTail
<1>4. Held' = Held /\ InWork' = InWork
  BY <1>1 DEF Held, InWork
<1>5. HandsEmpty' /\ HandsApart' /\ ListsDistinct'
  BY <1>1, <1>3 DEF Placed, HandsEmpty, HandsApart, ListsDistinct
<1>6. PlacesApart'
  BY <1>1, <1>3, <1>4 DEF Placed, PlacesApart, Disjoint7
<1>7. Lost' = Lost
  BY <1>1, <1>3, <1>4 DEF Lost
<1> QED BY <1>4, <1>5, <1>6, <1>7 DEF Placed

(* A worker takes the front of the processing list.                        *)
LEMMA TakePlaced ==
  ASSUME Inv, Placed, NEW w \in Workers, TakeFront(w),
         pc[w] \notin {"fire", "post", "return"},
         UNCHANGED <<fresh, waiting, returned, consumed, freed>>
  PROVE  Placed' /\ InWork' = InWork /\ Lost' = Lost
<1>0. PICK e \in Events : e = Head(processing)
  BY HeadTail DEF TakeFront, Inv, TypeOK
<1>1. processing # <<>> /\ processing' = Tail(processing)
  BY DEF TakeFront
<1>2. processing \in Seq(Events) /\ Distinct(processing) /\ e # NULL
  BY PoolAssumption DEF Inv, TypeOK, Placed, ListsDistinct
<1>3. /\ e \in ElementsOf(processing)
      /\ ElementsOf(processing)' = ElementsOf(processing) \ {e} /\ Distinct(processing)'
  BY <1>0, <1>1, <1>2, ElementsTail
<1>4. /\ held[w] = NULL /\ held'[w] = e /\ pc'[w] = "fire"
      /\ \A v \in Workers : v # w => held'[v] = held[v] /\ pc'[v] = pc[v]
  BY <1>0 DEF TakeFront, Goto, Inv, TypeOK, Placed, HandsEmpty
<1>5. Held' = Held \cup {e}
  <2>1. ASSUME NEW x \in Held' PROVE x \in Held \cup {e}
    BY <1>4, <2>1 DEF Held
  <2>2. ASSUME NEW x \in Held PROVE x \in Held'
    BY <1>4, <2>2 DEF Held
  <2>3. e \in Held'
    BY <1>2, <1>4 DEF Held
  <2> QED BY <2>1, <2>2, <2>3
<1>6. e \notin Held
  BY <1>3 DEF Placed, PlacesApart, Disjoint7
<1>7. HandsEmpty' /\ HandsApart'
  BY <1>2, <1>4, <1>6 DEF Placed, HandsEmpty, HandsApart, Held
<1>8. PlacesApart'
  BY <1>3, <1>5 DEF Placed, PlacesApart, Disjoint7
<1>9. InWork' = InWork
  BY <1>3, <1>5 DEF InWork, Held
<1>10. Lost' = Lost
  BY <1>9 DEF Lost
<1> QED BY <1>3, <1>7, <1>8, <1>9, <1>10 DEF Placed, ListsDistinct

(* A worker gives its event back.                                          *)
LEMMA GiveBackPlaced ==
  ASSUME Inv, Placed, NEW w \in Workers, GiveBack(w)
  PROVE  /\ Placed' /\ held[w] \in Events /\ held[w] \in InWork
         /\ InWork' = InWork \ {held[w]} /\ Lost' = Lost
<1>0. PICK e \in Events : e = held[w] /\ e # NULL
  BY PoolAssumption DEF GiveBack, Inv, HandsFull
<1>1. /\ returned' = (IF e \in Returnable THEN Append(returned, e) ELSE returned)
      /\ freed' = (IF e \in Returnable THEN freed ELSE freed \cup {e})
      /\ UNCHANGED <<fresh, waiting, processing, consumed>>
  BY <1>0 DEF GiveBack
<1>2. /\ held'[w] = NULL /\ pc'[w] = "top"
      /\ \A v \in Workers : v # w => held'[v] = held[v] /\ pc'[v] = pc[v]
  BY DEF GiveBack, Goto, Inv, TypeOK
<1>3. e \in Held
  BY <1>0 DEF Held
<1>4. Held' = Held \ {e}
  <2>1. ASSUME NEW x \in Held' PROVE x \in Held \ {e}
    <3>1. PICK v \in Workers : x = held'[v] /\ x # NULL
      BY <2>1 DEF Held
    <3>2. v # w /\ x = held[v]
      BY <1>2, <3>1
    <3>3. x # e
      BY <1>0, <3>1, <3>2 DEF Placed, HandsApart
    <3> QED BY <3>1, <3>2, <3>3 DEF Held
  <2>2. ASSUME NEW x \in Held \ {e} PROVE x \in Held'
    BY <1>0, <1>2, <2>2 DEF Held
  <2> QED BY <2>1, <2>2
<1>5. HandsEmpty' /\ HandsApart'
  BY <1>2 DEF Placed, HandsEmpty, HandsApart
<1>6. returned \in Seq(Events) /\ Distinct(returned) /\ e \notin ElementsOf(returned)
  BY <1>3 DEF Inv, TypeOK, Placed, ListsDistinct, PlacesApart, Disjoint7
<1>7. ListsDistinct'
  BY <1>1, <1>6, ElementsAppend DEF Placed, ListsDistinct
<1>8. InWork' = InWork \ {e} /\ e \in InWork
  <2>1. e \notin ElementsOf(waiting) /\ e \notin ElementsOf(processing)
    BY <1>3 DEF Placed, PlacesApart, Disjoint7
  <2> QED BY <1>1, <1>3, <1>4, <2>1 DEF InWork, Held
<1>9. CASE e \in Returnable
  <2>1. ElementsOf(returned)' = ElementsOf(returned) \cup {e} /\ freed' = freed
    BY <1>1, <1>6, <1>9, ElementsAppend
  <2>2. PlacesApart'
    BY <1>1, <1>3, <1>4, <2>1 DEF Placed, PlacesApart, Disjoint7
  <2>3. Lost' = Lost
    BY <1>1, <1>8, <2>1 DEF Lost
  <2> QED BY <1>0, <1>5, <1>7, <1>8, <2>2, <2>3 DEF Placed
<1>10. CASE e \notin Returnable
  <2>1. returned' = returned /\ freed' = freed \cup {e}
    BY <1>1, <1>10
  <2>2. PlacesApart'
    BY <1>1, <1>3, <1>4, <2>1 DEF Placed, PlacesApart, Disjoint7
  <2>3. Lost' = Lost
    BY <1>1, <1>8, <2>1 DEF Lost
  <2> QED BY <1>0, <1>5, <1>7, <1>8, <2>2, <2>3 DEF Placed
<1> QED BY <1>9, <1>10

(* Flushing one event: it is processed, or it is lost in a chain.          *)
LEMMA FlushPlaced ==
  ASSUME Inv, Placed, NEW w \in Workers, FlushEventWaitingList(w),
         NEW e, e = Head(waiting)
  PROVE  /\ Placed' /\ e \in Events /\ e \in ElementsOf(waiting)
         /\ ElementsOf(waiting)' = ElementsOf(waiting) \ {e}
         /\ seqMap[EventIdOf[e]] = <<>> =>
              InWork' = InWork /\ Lost' = Lost
                /\ ElementsOf(processing)' = ElementsOf(processing) \cup {e}
         /\ seqMap[EventIdOf[e]] # <<>> =>
              InWork' = InWork \ {e} /\ Lost' = Lost \cup {e} /\ processing' = processing
<1>1. /\ waiting # <<>> /\ waiting' = Tail(waiting)
      /\ processing' = (IF seqMap[EventIdOf[e]] = <<>> THEN Append(processing, e) ELSE processing)
      /\ UNCHANGED <<fresh, returned, consumed, freed, held>>
  BY DEF FlushEventWaitingList, Place, results
<1>2. /\ waiting \in Seq(Events) /\ Distinct(waiting) /\ e \in Events
      /\ processing \in Seq(Events) /\ Distinct(processing)
  BY <1>1, HeadTail DEF Inv, TypeOK, Placed, ListsDistinct
<1>3. /\ e \in ElementsOf(waiting)
      /\ ElementsOf(waiting)' = ElementsOf(waiting) \ {e} /\ Distinct(waiting)'
  BY <1>1, <1>2, ElementsTail
<1>4. /\ pc[w] = "flush" /\ pc'[w] \in {"flush", "take"}
      /\ \A v \in Workers : v # w => pc'[v] = pc[v]
  BY DEF FlushEventWaitingList, Goto, Inv, TypeOK
<1>5. HandsEmpty' /\ HandsApart' /\ Held' = Held
  BY <1>1, <1>4 DEF Placed, HandsEmpty, HandsApart, Held
<1>6. e \notin ElementsOf(processing) /\ e \notin Held
  BY <1>3 DEF Placed, PlacesApart, Disjoint7
<1>7. CASE seqMap[EventIdOf[e]] = <<>>
  <2>1. ElementsOf(processing)' = ElementsOf(processing) \cup {e} /\ Distinct(processing)'
    BY <1>1, <1>2, <1>6, <1>7, ElementsAppend
  <2>2. PlacesApart'
    BY <1>1, <1>3, <1>5, <2>1 DEF Placed, PlacesApart, Disjoint7
  <2>3. InWork' = InWork
    BY <1>3, <1>5, <2>1 DEF InWork, Held
  <2>4. Lost' = Lost
    BY <1>1, <2>3 DEF Lost
  <2> QED BY <1>1, <1>2, <1>3, <1>5, <1>7, <2>1, <2>2, <2>3, <2>4 DEF Placed, ListsDistinct
<1>8. CASE seqMap[EventIdOf[e]] # <<>>
  <2>1. processing' = processing
    BY <1>1, <1>8
  <2>2. PlacesApart'
    BY <1>1, <1>3, <1>5, <2>1 DEF Placed, PlacesApart, Disjoint7
  <2>3. InWork' = InWork \ {e}
    BY <1>3, <1>5, <1>6, <2>1 DEF InWork, Held
  <2>4. e \notin fresh /\ e \notin ElementsOf(returned) /\ e \notin consumed /\ e \notin freed
    BY <1>3 DEF Placed, PlacesApart, Disjoint7
  <2>5. e \in InWork
    BY <1>3 DEF InWork
  <2>6. Lost' = Lost \cup {e}
    BY <1>1, <1>2, <2>3, <2>4, <2>5 DEF Lost
  <2> QED BY <1>1, <1>2, <1>3, <1>5, <1>8, <2>1, <2>2, <2>3, <2>6 DEF Placed, ListsDistinct
<1> QED BY <1>7, <1>8

(* Destroy frees what is in the lists; no worker has an event any more.    *)
LEMMA DestroyPlaced ==
  ASSUME Inv, Placed, Destroy
  PROVE  /\ Placed' /\ InWork' = {} /\ Lost' = Lost
         /\ freed' = freed \cup InWork \cup ElementsOf(returned)
<1>1. \A w \in Workers : pc[w] = "exit" /\ held[w] = NULL
  BY DEF Destroy, Placed, HandsEmpty
<1>2. Held = {} /\ InWork = ElementsOf(waiting) \cup ElementsOf(processing)
  BY <1>1 DEF Held, InWork
<1>3. /\ waiting' = <<>> /\ processing' = <<>> /\ returned' = <<>>
      /\ freed' = freed \cup ElementsOf(processing) \cup ElementsOf(waiting) \cup ElementsOf(returned)
      /\ UNCHANGED <<fresh, consumed, held, pc>>
  BY DEF Destroy, threads
<1>4. /\ ElementsOf(waiting)' = {} /\ ElementsOf(processing)' = {} /\ ElementsOf(returned)' = {}
      /\ ListsDistinct'
  BY <1>3, ElementsEmpty DEF ListsDistinct
<1>5. Held' = {} /\ InWork' = {}
  BY <1>1, <1>3, <1>4 DEF Held, InWork
<1>6. HandsEmpty' /\ HandsApart'
  BY <1>1, <1>3 DEF HandsEmpty, HandsApart
<1>7. PlacesApart'
  BY <1>3, <1>4, <1>5 DEF Placed, PlacesApart, Disjoint7
<1>8. Lost' = Lost
  BY <1>2, <1>3, <1>4, <1>5 DEF Lost
<1> QED BY <1>2, <1>3, <1>4, <1>5, <1>6, <1>7, <1>8 DEF Placed

-----------------------------------------------------------------------------
(* The account of the sequence map.  First the steps that leave it alone.  *)
LEMMA AccountedKept ==
  ASSUME Inv, Accounted, UNCHANGED seqMap, Lost \subseteq Lost',
         fresh' \cup ElementsOf(waiting)' \subseteq fresh \cup ElementsOf(waiting),
         \A x \in Events : Processed(x) => Processed(x)'
  PROVE  Accounted'
<1>1. ChainsOwnId'
  BY DEF Accounted, ChainsOwnId
<1>2. ChainedAreLost'
  BY DEF Accounted, ChainedAreLost
<1>3. EntriesAccounted'
  <2> SUFFICES ASSUME NEW id \in EventIds, seqMap[id] # <<>>
               PROVE  Processed(Head(seqMap[id]))' \/ \E f \in Lost' : EventIdOf[f] = id
    BY DEF EntriesAccounted
  <2>1. PICK h \in Events : h = Head(seqMap[id])
    BY HeadTail DEF Inv, TypeOK
  <2>2. CASE Processed(h)
    <3>1. Processed(h)' /\ h = Head(seqMap'[id])
      BY <2>1, <2>2
    <3> QED BY <3>1 DEF Processed
  <2>3. CASE \E f \in Lost : EventIdOf[f] = id
    BY <2>3
  <2> QED BY <2>1, <2>2, <2>3 DEF Accounted, EntriesAccounted
<1> QED BY <1>1, <1>2, <1>3 DEF Accounted

(* Taking the front: who was in the processing list is in a worker's hands. *)
LEMMA TakeAccounted ==
  ASSUME Inv, Placed, Accounted, NEW w \in Workers, TakeFront(w),
         pc[w] \notin {"fire", "post", "return"},
         UNCHANGED <<fresh, waiting, returned, consumed, freed, seqMap>>
  PROVE  Accounted'
<1>1. Lost' = Lost
  BY TakePlaced
<1>2. ASSUME NEW x \in Events, Processed(x) PROVE Processed(x)'
  <2>1. /\ held'[w] = Head(processing) /\ pc'[w] = "fire"
        /\ processing # <<>> /\ processing' = Tail(processing)
        /\ \A v \in Workers : v # w => held'[v] = held[v] /\ pc'[v] = pc[v]
    BY DEF TakeFront, Goto, Inv, TypeOK
  <2>2. ElementsOf(processing)' = ElementsOf(processing) \ {Head(processing)}
    BY <2>1, ElementsTail DEF Inv, TypeOK, Placed, ListsDistinct
  <2>3. CASE x \in ElementsOf(processing)
    BY <2>1, <2>2, <2>3 DEF Processed, Busy
  <2>4. CASE \E v \in Workers : Busy(v) /\ held[v] = x
    <3>1. PICK v \in Workers : Busy(v) /\ held[v] = x
      BY <2>4
    <3>2. v # w
      BY <3>1 DEF Busy
    <3> QED BY <2>1, <3>1, <3>2 DEF Processed, Busy
  <2> QED BY <1>2, <2>3, <2>4 DEF Processed
<1> QED BY <1>1, <1>2, AccountedKept

(* Flushing: a first event of its id starts an entry that is processed;    *)
(* any other lengthens a chain by an event that is lost.                   *)
LEMMA FlushAccounted ==
  ASSUME Inv, Placed, Accounted, NEW w \in Workers, FlushEventWaitingList(w)
  PROVE  Accounted'
<1>0. PICK e \in Events : e = Head(waiting)
  BY HeadTail DEF FlushEventWaitingList, Inv, TypeOK
<1> DEFINE id0 == EventIdOf[e]
<1>1. id0 \in EventIds
  BY PoolAssumption
<1>2. /\ e \in ElementsOf(waiting) /\ ElementsOf(waiting)' = ElementsOf(waiting) \ {e}
      /\ seqMap[id0] = <<>> => Lost' = Lost /\ ElementsOf(processing)' = ElementsOf(processing) \cup {e}
      /\ seqMap[id0] # <<>> => Lost' = Lost \cup {e} /\ processing' = processing
  BY <1>0, FlushPlaced
<1>3. Lost \subseteq Lost'
  BY <1>2
<1>4. /\ seqMap' = [seqMap EXCEPT ![id0] = Append(seqMap[id0], e)]
      /\ held' = held /\ fresh' = fresh
  BY <1>0 DEF FlushEventWaitingList, Place
<1>5. e \notin fresh
  BY <1>2 DEF Placed, PlacesApart, Disjoint7
<1>6. \A v \in Workers : Busy(v) => Busy(v)'
  BY DEF FlushEventWaitingList, Goto, Inv, TypeOK, Busy
<1>7. \A x \in Events : Processed(x) => Processed(x)'
  BY <1>2, <1>4, <1>6 DEF Processed
<1>8. \A id \in EventIds : id # id0 => seqMap'[id] = seqMap[id]
  BY <1>4 DEF Inv, TypeOK
<1>9. PICK c \in Seq(Events) : c = seqMap[id0]
  BY <1>1 DEF Inv, TypeOK
<1>10. seqMap'[id0] = Append(c, e)
  BY <1>1, <1>4, <1>9 DEF Inv, TypeOK
<1>11. ChainsOwnId'
  <2> SUFFICES ASSUME NEW id \in EventIds, NEW x \in ElementsOf(seqMap'[id])
               PROVE  EventIdOf[x] = id /\ x \notin fresh' /\ x \notin ElementsOf(waiting)'
    BY DEF ChainsOwnId, ElementsOf
  <2>1. CASE id # id0
    BY <1>2, <1>4, <1>8, <2>1 DEF Accounted, ChainsOwnId
  <2>2. CASE id = id0
    <3>1. x \in ElementsOf(c) \cup {e}
      <4>1. ElementsOf(Append(c, e)) = ElementsOf(c) \cup {e}
        BY <1>9, ElementsAppend
      <4>2. seqMap'[id] = Append(c, e)
        BY <1>10, <2>2
      <4> QED BY <4>1, <4>2
    <3> QED BY <1>1, <1>2, <1>4, <1>5, <1>9, <2>2, <3>1 DEF Accounted, ChainsOwnId
  <2> QED BY <2>1, <2>2
<1>12. ChainedAreLost'
  <2> SUFFICES ASSUME NEW id \in EventIds, NEW i \in 2..Len(seqMap'[id])
               PROVE  seqMap'[id][i] \in Lost'
    BY DEF ChainedAreLost
  <2>1. CASE id # id0
    BY <1>3, <1>8, <2>1 DEF Accounted, ChainedAreLost
  <2>2. CASE id = id0
    <3>1. /\ Len(c) \in Nat /\ Len(Append(c, e)) = Len(c) + 1 /\ Append(c, e)[Len(c) + 1] = e
          /\ \A j \in 1..Len(c) : Append(c, e)[j] = c[j]
      BY <1>9
    <3>2. CASE i = Len(c) + 1
      <4>1. c # <<>>
        BY <1>10, <2>2, <3>1, <3>2
      <4> QED BY <1>2, <1>9, <1>10, <2>2, <3>1, <3>2, <4>1
    <3>3. CASE i # Len(c) + 1
      <4>1. i \in 2..Len(c) /\ seqMap'[id][i] = c[i]
        BY <1>10, <2>2, <3>1, <3>3
      <4> QED BY <1>1, <1>3, <1>9, <4>1 DEF Accounted, ChainedAreLost
    <3> QED BY <3>2, <3>3
  <2> QED BY <2>1, <2>2
<1>13. EntriesAccounted'
  <2> SUFFICES ASSUME NEW id \in EventIds, seqMap'[id] # <<>>
               PROVE  Processed(Head(seqMap[id]))' \/ \E f \in Lost' : EventIdOf[f] = id
    BY DEF EntriesAccounted
  <2>1. ASSUME seqMap[id] # <<>>, Head(seqMap'[id]) = Head(seqMap[id])
        PROVE  Processed(Head(seqMap[id]))' \/ \E f \in Lost' : EventIdOf[f] = id
    <3>1. PICK h \in Events : h = Head(seqMap[id])
      BY <2>1, HeadTail DEF Inv, TypeOK
    <3>2. CASE Processed(h)
      <4>1. Processed(h)' /\ h = Head(seqMap'[id])
        BY <1>7, <2>1, <3>1, <3>2
      <4> QED BY <4>1 DEF Processed
    <3>3. CASE \E f \in Lost : EventIdOf[f] = id
      BY <1>3, <3>3
    <3> QED BY <2>1, <3>1, <3>2, <3>3 DEF Accounted, EntriesAccounted
  <2>2. CASE id # id0
    BY <1>8, <2>1, <2>2
  <2>3. CASE id = id0 /\ c # <<>>
    <3>1. Head(Append(c, e)) = Head(c)
      BY <1>9, <2>3
    <3> QED BY <1>9, <1>10, <2>1, <2>3, <3>1
  <2>4. CASE id = id0 /\ c = <<>>
    <3>1. Head(seqMap'[id]) = e
      BY <1>10, <2>4
    <3>2. e \in ElementsOf(processing)'
      BY <1>2, <1>9, <2>4
    <3> QED BY <3>1, <3>2 DEF Processed
  <2> QED BY <2>2, <2>3, <2>4
<1> QED BY <1>11, <1>12, <1>13 DEF Accounted

(* After an event has fired, its entry is gone, or the event behind it was *)
(* lost.                                                                   *)
LEMMA PostAccounted ==
  ASSUME Inv, Placed, Accounted, NEW w \in Workers, PostFireEvent(w)
  PROVE  Accounted'
<1>0. PICK e \in Events : e = held[w] /\ Busy(w) /\ IsEntry(e)
  BY DEF PostFireEvent, Busy, Inv, HandsFull, HeldAreEntries
<1> DEFINE id0 == EventIdOf[e]
<1>1. id0 \in EventIds
  BY PoolAssumption
<1>2. PICK c \in Seq(Events) : c = seqMap[id0] /\ c # <<>> /\ Head(c) = e
  BY <1>0, <1>1 DEF Inv, TypeOK, IsEntry
<1>3. /\ seqMap' = [seqMap EXCEPT ![id0] = AfterPost(c)]
      /\ UNCHANGED <<fresh, waiting, processing, returned, consumed, freed, held>>
  BY <1>0, <1>2 DEF PostFireEvent, results
<1>4. InWork' = InWork /\ Lost' = Lost
  <2>1. InWork' = InWork
    BY <1>3 DEF InWork
  <2> QED BY <1>3, <2>1 DEF Lost
<1>5. \A v \in Workers : v # w => pc'[v] = pc[v]
  BY DEF PostFireEvent, Goto, Inv, TypeOK
<1>6. /\ \A id \in EventIds : id # id0 => seqMap'[id] = seqMap[id]
      /\ seqMap'[id0] = AfterPost(c)
  BY <1>1, <1>3 DEF Inv, TypeOK
<1>7. AfterPost(c) = <<>> \/ (AfterPost(c) = <<e>> /\ Len(c) > 1)
  BY <1>2 DEF AfterPost
<1>8. e \in ElementsOf(c)
  BY <1>2, HeadTail DEF ElementsOf
<1>9. ElementsOf(<<>>) = {} /\ ElementsOf(<<e>>) = {e} /\ Len(<<>>) = 0 /\ Len(<<e>>) = 1
  BY DEF ElementsOf
<1>10. ChainsOwnId'
  <2> SUFFICES ASSUME NEW id \in EventIds, NEW x \in ElementsOf(seqMap'[id])
               PROVE  EventIdOf[x] = id /\ x \notin fresh' /\ x \notin ElementsOf(waiting)'
    BY DEF ChainsOwnId, ElementsOf
  <2>1. x \in ElementsOf(seqMap[id])
    <3>1. CASE id # id0
      BY <1>6, <3>1
    <3>2. CASE id = id0
      <4>1. x \in ElementsOf(AfterPost(c))
        BY <1>6, <3>2
      <4>2. x = e
        BY <1>7, <1>9, <4>1
      <4> QED BY <1>2, <1>8, <3>2, <4>2
    <3> QED BY <3>1, <3>2
  <2> QED BY <1>3, <2>1 DEF Accounted, ChainsOwnId
<1>11. ChainedAreLost'
  <2> SUFFICES ASSUME NEW id \in EventIds, NEW i \in 2..Len(seqMap'[id])
               PROVE  seqMap'[id][i] \in Lost'
    BY DEF ChainedAreLost
  <2>1. id # id0
    <3>1. Len(AfterPost(c)) = 0 \/ Len(AfterPost(c)) = 1
      BY <1>7, <1>9
    <3>2. 2..0 = {} /\ 2..1 = {}
      OBVIOUS
    <3> QED BY <1>6, <3>1, <3>2
  <2> QED BY <1>4, <1>6, <2>1 DEF Accounted, ChainedAreLost
<1>12. EntriesAccounted'
  <2> SUFFICES ASSUME NEW id \in EventIds, seqMap'[id] # <<>>
               PROVE  Processed(Head(seqMap[id]))' \/ \E f \in Lost' : EventIdOf[f] = id
    BY DEF EntriesAccounted
  <2>1. CASE id = id0
    <3>1. Len(c) > 1 /\ Len(c) \in Nat
      BY <1>2, <1>6, <1>7, <2>1
    <3>2. c[2] \in Lost /\ c[2] \in ElementsOf(c)
      BY <1>1, <1>2, <3>1 DEF Accounted, ChainedAreLost, ElementsOf
    <3>3. EventIdOf[c[2]] = id0
      BY <1>1, <1>2, <3>2 DEF Accounted, ChainsOwnId
    <3> QED BY <1>4, <2>1, <3>2, <3>3
  <2>2. CASE id # id0
    <3>1. seqMap'[id] = seqMap[id] /\ seqMap[id] # <<>>
      BY <1>6, <2>2
    <3>2. PICK h \in Events : h = Head(seqMap[id]) /\ h = Head(seqMap'[id])
      BY <3>1, HeadTail DEF Inv, TypeOK
    <3>3. EventIdOf[h] = id
      <4>1. h \in ElementsOf(seqMap[id])
        BY <3>1, <3>2, HeadTail DEF Inv, TypeOK, ElementsOf
      <4> QED BY <4>1 DEF Accounted, ChainsOwnId
    <3>4. CASE Processed(h)
      <4>1. h \in ElementsOf(processing)' \/ \E v \in Workers : Busy(v)' /\ held'[v] = h
        BY <1>0, <1>3, <1>5, <2>2, <3>3, <3>4 DEF Processed, Busy
      <4> QED BY <3>2, <4>1 DEF Processed
    <3>5. CASE \E f \in Lost : EventIdOf[f] = id
      BY <1>4, <3>5
    <3> QED BY <3>1, <3>2, <3>4, <3>5 DEF Accounted, EntriesAccounted
  <2> QED BY <2>1, <2>2
<1> QED BY <1>10, <1>11, <1>12 DEF Accounted

-----------------------------------------------------------------------------
(* One step of a worker, and one of the logic thread.  Each keeps the      *)
(* invariant and is a step of EventPool, or none.                          *)
Simulated == Pool!PoolNext \/ UNCHANGED Pool!poolVars

LEMMA QuietWorker ==
  ASSUME RInv, Quiet, UNCHANGED seqMap, \A w \in Workers : Busy(w) => Busy(w)'
  PROVE  Placed' /\ Accounted' /\ Simulated
<1>1. Placed' /\ InWork' = InWork /\ Lost' = Lost
  BY QuietPlaced DEF RInv
<1>2. \A x \in Events : Processed(x) => Processed(x)'
  BY DEF Processed, Quiet
<1>3. Accounted'
  BY <1>1, <1>2, AccountedKept DEF RInv, Quiet
<1>4. UNCHANGED Pool!poolVars
  BY <1>1 DEF Pool!poolVars, Quiet
<1> QED BY <1>1, <1>3, <1>4 DEF Simulated

LEMMA TakeWorker ==
  ASSUME RInv, NEW w \in Workers, TakeFront(w), pc[w] \notin {"fire", "post", "return"},
         UNCHANGED <<fresh, waiting, returned, consumed, freed, seqMap, destroyed>>
  PROVE  Placed' /\ Accounted' /\ Simulated
<1>1. Placed' /\ InWork' = InWork /\ Lost' = Lost
  BY TakePlaced DEF RInv
<1>2. Accounted'
  BY TakeAccounted DEF RInv
<1>3. UNCHANGED Pool!poolVars
  BY <1>1 DEF Pool!poolVars
<1> QED BY <1>1, <1>2, <1>3 DEF Simulated

LEMMA FlushWorker ==
  ASSUME RInv, NEW w \in Workers, FlushEventWaitingList(w)
  PROVE  Placed' /\ Accounted' /\ Simulated
<1>0. PICK e \in Events : e = Head(waiting)
  BY HeadTail DEF FlushEventWaitingList, RInv, Inv, TypeOK
<1>1. /\ Placed' /\ e \in ElementsOf(waiting)
      /\ seqMap[EventIdOf[e]] = <<>> => InWork' = InWork /\ Lost' = Lost
      /\ seqMap[EventIdOf[e]] # <<>> => InWork' = InWork \ {e} /\ Lost' = Lost \cup {e}
  BY <1>0, FlushPlaced DEF RInv
<1>2. Accounted'
  BY FlushAccounted DEF RInv
<1>3. UNCHANGED <<fresh, returned, consumed, freed, destroyed>>
  BY DEF FlushEventWaitingList, results
<1>4. CASE seqMap[EventIdOf[e]] = <<>>
  <2>1. UNCHANGED Pool!poolVars
    BY <1>1, <1>3, <1>4 DEF Pool!poolVars
  <2> QED BY <1>1, <1>2, <2>1 DEF Simulated
<1>5. CASE seqMap[EventIdOf[e]] # <<>>
  <2>1. PICK id \in EventIds : id = EventIdOf[e]
    BY PoolAssumption
  <2>2. PICK h \in Events : h = Head(seqMap[id]) /\ h \in ElementsOf(seqMap[id])
    BY <1>5, <2>1, HeadTail DEF RInv, Inv, TypeOK, ElementsOf
  <2>3. EventIdOf[h] = id /\ h # e
    BY <1>1, <2>2 DEF RInv, Accounted, ChainsOwnId
  <2>4. e \in InWork /\ e \notin Lost
    BY <1>1 DEF InWork, Lost
  <2>5. \E f \in InWork \cup Lost : f # e /\ EventIdOf[f] = EventIdOf[e]
    <3>1. CASE Processed(h)
      <4>1. h # NULL
        BY PoolAssumption
      <4>2. h \in InWork
        BY <3>1, <4>1 DEF Processed, InWork
      <4> QED BY <2>1, <2>3, <4>2
    <3>2. CASE \E f \in Lost : EventIdOf[f] = id
      BY <2>1, <2>4, <3>2
    <3> QED BY <1>5, <2>1, <2>2, <3>1, <3>2 DEF RInv, Accounted, EntriesAccounted
  <2>6. Pool!Lose(e)
    BY <1>1, <1>3, <1>5, <2>4, <2>5 DEF Pool!Lose, Pool!Rival
  <2> QED BY <1>1, <1>2, <2>6 DEF Simulated, Pool!PoolNext, Pool!Work
<1> QED BY <1>4, <1>5

LEMMA GiveBackWorker ==
  ASSUME RInv, NEW w \in Workers, GiveBack(w)
  PROVE  Placed' /\ Accounted' /\ Simulated
<1>0. PICK e \in Events : e = held[w]
  BY DEF GiveBack, RInv, Inv, HandsFull
<1>1. Placed' /\ e \in InWork /\ InWork' = InWork \ {e} /\ Lost' = Lost
  BY <1>0, GiveBackPlaced DEF RInv
<1>2. \A x \in Events : Processed(x) => Processed(x)'
  <2>1. /\ ~Busy(w) /\ processing' = processing
        /\ \A v \in Workers : v # w => held'[v] = held[v] /\ pc'[v] = pc[v]
    BY DEF GiveBack, Goto, Busy, RInv, Inv, TypeOK
  <2> QED BY <2>1 DEF Processed, Busy
<1>3. Accounted'
  BY <1>1, <1>2, AccountedKept DEF RInv, GiveBack
<1>4. Pool!Return(e) \/ Pool!FreeUnanswered(e)
  BY <1>0, <1>1 DEF GiveBack, Pool!Return, Pool!FreeUnanswered
<1> QED BY <1>1, <1>3, <1>4 DEF Simulated, Pool!PoolNext, Pool!Work

(* Every step of a worker.                                                 *)
LEMMA WorkerSimulated ==
  ASSUME RInv, NEW w \in Workers, Worker(w)
  PROVE  Placed' /\ Accounted' /\ Simulated
<1> USE DEF RInv, Inv, TypeOK
<1>1. CASE LoopTop(w)
  BY <1>1, QuietWorker DEF LoopTop, Goto, lists, results, Quiet, Busy
<1>2. CASE \E outcome \in Conns : InitConnector(w, outcome)
  BY <1>2, QuietWorker DEF InitConnector, Goto, lists, results, Quiet, Busy
<1>3. CASE Pop(w)
  <2>1. TakeFront(w) /\ pc[w] = "pop"
    BY <1>3, NeverFound DEF Pop, TakeFront
  <2> QED BY <1>3, <2>1, TakeWorker DEF Pop, results
<1>4. CASE BeginFlush(w)
  BY <1>4, QuietWorker DEF BeginFlush, Goto, lists, results, Quiet, Busy
<1>5. CASE FlushEventWaitingList(w)
  BY <1>5, FlushWorker
<1>6. CASE Nap(w)
  BY <1>6, QuietWorker DEF Nap, Goto, lists, results, Quiet, Busy
<1>7. CASE WaitTimeout(w)
  BY <1>7, QuietWorker DEF WaitTimeout, Goto, lists, results, Quiet, Busy
<1>8. CASE PopAgain(w)
  <2>1. CASE processing # <<>>
    BY <1>8, <2>1, TakeWorker DEF PopAgain, results
  <2>2. CASE processing = <<>>
    BY <1>8, <2>2, QuietWorker DEF PopAgain, Goto, results, Quiet, Busy
  <2> QED BY <2>1, <2>2
<1>9. ASSUME NEW outcome, Fire(w, outcome) PROVE Placed' /\ Accounted' /\ Simulated
  BY <1>9, QuietWorker DEF Fire, Goto, lists, Quiet, Busy
<1>10. CASE PostFireEvent(w)
  <2>1. held[w] \in Events /\ IsEntry(held[w])
    BY <1>10 DEF PostFireEvent, Busy, HandsFull, HeldAreEntries
  <2>2. Quiet
    BY <1>10, <2>1 DEF PostFireEvent, IsEntry, Goto, results, Quiet
  <2>3. Placed' /\ InWork' = InWork /\ Lost' = Lost
    BY <2>2, QuietPlaced
  <2>4. UNCHANGED Pool!poolVars
    BY <2>2, <2>3 DEF Pool!poolVars, Quiet
  <2> QED BY <1>10, <2>3, <2>4, PostAccounted DEF Simulated
<1>11. CASE GiveBack(w)
  BY <1>11, GiveBackWorker
<1> QED
  BY <1>1, <1>2, <1>3, <1>4, <1>5, <1>6, <1>7, <1>8, <1>9, <1>10, <1>11 DEF Worker

(* Every step of the logic thread.                                         *)
LEMMA LogicSimulated ==
  ASSUME RInv,
         \/ \E e \in Events : PushSequenceEvent(e)
         \/ PulseEvent
         \/ PopFromDBEventReturnList
         \/ \E w \in Workers : Stop(w)
         \/ Destroy
  PROVE  Placed' /\ Accounted' /\ Simulated
<1>1. ASSUME NEW e \in Events, PushSequenceEvent(e) PROVE Placed' /\ Accounted' /\ Simulated
  <2>1. Placed' /\ InWork' = InWork \cup {e} /\ Lost' = Lost
    BY <1>1, PushPlaced DEF RInv
  <2>2. ElementsOf(waiting)' = ElementsOf(waiting) \cup {e}
    BY <1>1, ElementsAppend DEF PushSequenceEvent, RInv, Inv, TypeOK
  <2>3. \A x \in Events : Processed(x) => Processed(x)'
    BY <1>1 DEF PushSequenceEvent, Processed, Busy, threads
  <2>4. Accounted'
    BY <1>1, <2>1, <2>2, <2>3, AccountedKept DEF RInv, PushSequenceEvent
  <2>5. Pool!Push(e)
    BY <1>1, <2>1 DEF PushSequenceEvent, Pool!Push, results
  <2> QED BY <2>1, <2>4, <2>5 DEF Simulated, Pool!PoolNext
<1>2. CASE PulseEvent
  BY <1>2, QuietWorker DEF PulseEvent, results, Quiet, Busy, RInv, Inv, TypeOK
<1>3. CASE PopFromDBEventReturnList
  <2>1. Placed' /\ InWork' = InWork /\ Lost' = Lost
    BY <1>3, CollectPlaced DEF RInv
  <2>2. \A x \in Events : Processed(x) => Processed(x)'
    BY <1>3 DEF PopFromDBEventReturnList, Processed, Busy, threads
  <2>3. Accounted'
    BY <1>3, <2>1, <2>2, AccountedKept DEF RInv, PopFromDBEventReturnList
  <2>4. Pool!Collect
    BY <1>3, <2>1 DEF PopFromDBEventReturnList, Pool!Collect
  <2> QED BY <2>1, <2>3, <2>4 DEF Simulated, Pool!PoolNext
<1>4. CASE \E w \in Workers : Stop(w)
  BY <1>4, QuietWorker DEF Stop, lists, results, threads, Quiet, Busy
<1>5. CASE Destroy
  <2>1. /\ Placed' /\ InWork' = {} /\ Lost' = Lost
        /\ freed' = freed \cup InWork \cup ElementsOf(returned)
    BY <1>5, DestroyPlaced DEF RInv
  <2>2. \A id \in EventIds : seqMap'[id] = <<>>
    BY <1>5 DEF Destroy
  <2>3. Accounted'
    <3>1. Len(<<>>) = 0 /\ 2..0 = {}
      OBVIOUS
    <3>2. ChainsOwnId' /\ ChainedAreLost'
      BY <2>2, <3>1, ElementsEmpty DEF ChainsOwnId, ChainedAreLost
    <3> QED BY <2>2, <3>2 DEF Accounted, EntriesAccounted
  <2>4. Pool!InList(returned) = ElementsOf(returned)
    BY DEF Pool!InList, ElementsOf
  <2>5. Pool!Close
    BY <1>5, <2>1, <2>4 DEF Destroy, Pool!Close
  <2> QED BY <2>1, <2>3, <2>5 DEF Simulated, Pool!PoolNext
<1> QED BY <1>1, <1>2, <1>3, <1>4, <1>5

(* Every step of the pool.                                                 *)
LEMMA StepSimulated ==
  ASSUME RInv, [Next]_vars
  PROVE  RInv' /\ [Pool!PoolNext]_(Pool!poolVars)
<1>1. Inv'
  BY InvInductive DEF RInv
<1>2. Placed' /\ Accounted' /\ Simulated
  <2>1. CASE \E w \in Workers : Worker(w)
    BY <2>1, WorkerSimulated
  <2>2. CASE \/ \E e \in Events : PushSequenceEvent(e)
             \/ PulseEvent
             \/ PopFromDBEventReturnList
             \/ \E w \in Workers : Stop(w)
             \/ Destroy
    BY <2>2, LogicSimulated
  <2>3. CASE UNCHANGED vars
    BY <2>3, QuietWorker DEF vars, lists, results, threads, Quiet, Busy
  <2> QED BY <2>1, <2>2, <2>3 DEF Next, Ended
<1> QED BY <1>1, <1>2 DEF RInv, Simulated

(* The pool starts empty.                                                  *)
LEMMA StartSimulated == Init => RInv /\ Pool!PoolInit
<1> SUFFICES ASSUME Init PROVE RInv /\ Pool!PoolInit
  OBVIOUS
<1>1. /\ ElementsOf(waiting) = {} /\ ElementsOf(processing) = {} /\ ElementsOf(returned) = {}
      /\ ListsDistinct
  BY ElementsEmpty DEF Init, ListsDistinct
<1>2. Held = {} /\ InWork = {} /\ Lost = {}
  <2>1. Held = {} /\ InWork = {}
    BY <1>1 DEF Init, Held, InWork
  <2> QED BY <2>1 DEF Init, Lost
<1>3. HandsEmpty /\ HandsApart
  BY DEF Init, HandsEmpty, HandsApart
<1>4. PlacesApart
  BY <1>1, <1>2 DEF Init, PlacesApart, Disjoint7
<1>5. \A id \in EventIds : seqMap[id] = <<>>
  BY DEF Init
<1>6. Accounted
  <2>1. Len(<<>>) = 0 /\ 2..0 = {}
    OBVIOUS
  <2>2. ChainsOwnId /\ ChainedAreLost
    BY <1>5, <2>1, ElementsEmpty DEF ChainsOwnId, ChainedAreLost
  <2> QED BY <1>5, <2>2 DEF Accounted, EntriesAccounted
<1>7. Pool!PoolInit
  BY <1>2 DEF Init, Pool!PoolInit
<1> QED BY <1>1, <1>3, <1>4, <1>6, <1>7, InvInit DEF RInv, Placed

(* DBConnPool implements EventPool for any number of threads and events:   *)
(* what the lists, the sequence map and the DBConn threads do with an      *)
(* event is, seen from the logic thread, what the abstract pool allows.    *)
THEOREM PoolImplemented == Spec => ImplementsEventPool
<1>1. Init => RInv /\ Pool!PoolInit
  BY StartSimulated
<1>2. RInv /\ [Next]_vars => RInv' /\ [Pool!PoolNext]_(Pool!poolVars)
  BY StepSimulated
<1> QED BY <1>1, <1>2, PTL DEF Spec, ImplementsEventPool, Pool!PoolSpec

-----------------------------------------------------------------------------
(* Counting the places of an event.                                        *)
LEMMA CountAtMostOne ==
  ASSUME NEW S, \A x, y \in S : x = y
  PROVE  Cardinality(S) = IF S = {} THEN 0 ELSE 1
<1>1. CASE S = {}
  BY <1>1, FS_EmptySet
<1>2. CASE S # {}
  <2>1. PICK x : S = {x}
    BY <1>2
  <2> QED BY <1>2, <2>1, FS_Singleton
<1> QED BY <1>1, <1>2

LEMMA OccurrencesOnce ==
  ASSUME NEW s \in Seq(Events), Distinct(s), NEW e
  PROVE  Occurrences(e, s) = IF e \in ElementsOf(s) THEN 1 ELSE 0
<1> DEFINE I == {i \in 1..Len(s) : s[i] = e}
<1>1. \A i, j \in I : i = j
  BY DEF Distinct
<1>2. I = {} <=> e \notin ElementsOf(s)
  BY DEF ElementsOf
<1> HIDE DEF I
<1>3. Cardinality(I) = IF I = {} THEN 0 ELSE 1
  BY <1>1, CountAtMostOne
<1>4. Occurrences(e, s) = Cardinality(I)
  BY DEF Occurrences, I
<1> QED BY <1>2, <1>3, <1>4

(* Placed says of the sets what OneOwner counts.                           *)
LEMMA PlacedOnce == ASSUME RInv PROVE OneOwner
<1> SUFFICES ASSUME NEW e \in Events PROVE Copies(e) <= 1
  BY DEF OneOwner
<1>1. /\ Occurrences(e, waiting) = (IF e \in ElementsOf(waiting) THEN 1 ELSE 0)
      /\ Occurrences(e, processing) = (IF e \in ElementsOf(processing) THEN 1 ELSE 0)
      /\ Occurrences(e, returned) = (IF e \in ElementsOf(returned) THEN 1 ELSE 0)
  BY OccurrencesOnce DEF RInv, Inv, TypeOK, Placed, ListsDistinct
<1>2. e # NULL
  BY PoolAssumption
<1>3. Cardinality(Owners(e)) = IF e \in Held THEN 1 ELSE 0
  <2>1. \A v, w \in Owners(e) : v = w
    BY <1>2 DEF Owners, RInv, Placed, HandsApart
  <2>2. Cardinality(Owners(e)) = IF Owners(e) = {} THEN 0 ELSE 1
    BY <2>1, CountAtMostOne
  <2>3. Owners(e) = {} <=> e \notin Held
    BY <1>2 DEF Owners, Held
  <2> QED BY <2>2, <2>3
<1>4. Disjoint7(fresh, ElementsOf(waiting), ElementsOf(processing), Held, ElementsOf(returned),
                consumed, freed)
  BY DEF RInv, Placed, PlacesApart
<1> QED BY <1>1, <1>3, <1>4 DEF Copies, Disjoint7

(* No interleaving of pushes, flushes, pops, post-processing and Destroy   *)
(* gives one DBEvent two owners: it is in at most one list, once, or with  *)
(* one worker, or has come to its end.                                     *)
THEOREM OneOwnerAlways == Spec => []OneOwner
<1>1. Init => RInv
  BY StartSimulated
<1>2. RInv /\ [Next]_vars => RInv'
  BY StepSimulated
<1>3. RInv => OneOwner
  BY PlacedOnce
<1> QED BY <1>1, <1>2, <1>3, PTL DEF Spec
=============================================================================
