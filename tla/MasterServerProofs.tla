------------------------- MODULE MasterServerProofs -------------------------
(***************************************************************************)
(* Proofs about MasterServer, for any number of accounts, contexts,        *)
(* sessions, gates, regions and channels.                                  *)
(***************************************************************************)
EXTENDS MasterServer, TLAPS, FiniteSetTheorems, SequenceTheorems

-----------------------------------------------------------------------------
(* The state machine never leaves its set of states. *)

\* StateTransition returns a state of the machine or INVALID.
LEMMA ResultType ==
  \A s, e : Result(s, e) = INVALID \/ Result(s, e) \in States
<1> SUFFICES ASSUME NEW s, NEW e, Result(s, e) # INVALID
             PROVE  Result(s, e) \in States
  OBVIOUS
<1>1. <<s, e>> \in DOMAIN Table /\ Result(s, e) = Table[<<s, e>>]
  BY DEF Result
<1>2. PICK t \in Transitions : <<t[1], t[2]>> = <<s, e>>
  BY <1>1 DEF Table
<1>3. Table[<<s, e>>] = (CHOOSE u \in Transitions : <<u[1], u[2]>> = <<s, e>>)[3]
  BY <1>1 DEF Table
<1>4. (CHOOSE u \in Transitions : <<u[1], u[2]>> = <<s, e>>) \in Transitions
  BY <1>2
<1> QED
  BY <1>1, <1>3, <1>4 DEF States

\* An event leaves the machine in one of its states.
LEMMA AfterType == ASSUME NEW s \in States, NEW e PROVE After(s, e) \in States
  BY ResultType DEF After

-----------------------------------------------------------------------------
(* The operators on the peers keep their type. *)

\* The peers stay well-formed when one more answer is owed.
LEMMA OweType ==
  ASSUME NEW p \in PeersType, NEW a \in Answers PROVE Owe(p, a) \in PeersType
  BY DEF Owe, PeersType

\* ... when an answer arrives,
LEMMA SettleType ==
  ASSUME NEW p \in PeersType, NEW a PROVE Settle(p, a) \in PeersType
  BY DEF Settle, PeersType

\* ... when the login server's client is answered,
LEMMA LoginAnsweredType ==
  ASSUME NEW p \in PeersType, NEW s PROVE LoginAnswered(p, s) \in PeersType
  BY DEF LoginAnswered, PeersType

\* ... when the gates are told to release accounts,
LEMMA GateReleasedType ==
  ASSUME NEW p \in PeersType, NEW names PROVE GateReleased(p, names) \in PeersType
<1> DEFINE void(a) == IF a.kind = "GateAlloc" /\ a.acct \in names
                      THEN [a EXCEPT !.void = TRUE] ELSE a
           owed == { void(a) : a \in p.owed }
           owner == [g \in GateSids |-> IF p.gateOwner[g] \in names THEN NULL ELSE p.gateOwner[g]]
<1>1. \A a \in Answers : void(a) \in Answers
  BY DEF Answers, GateKinds, CacheKinds, RegionKinds
<1>2. owed \subseteq Answers
  BY <1>1 DEF PeersType
<1>3. owner \in [GateSids -> Accounts \cup {NULL}]
  BY DEF PeersType
<1>4. GateReleased(p, names) = [p EXCEPT !.owed = owed, !.gateOwner = owner]
  BY DEF GateReleased
<1> QED
  BY <1>2, <1>3, <1>4 DEF PeersType

\* ... and when they give up sessions.
LEMMA GateDroppedType ==
  ASSUME NEW p \in PeersType, NEW S PROVE GateDropped(p, S) \in PeersType
  BY DEF GateDropped, PeersType

\* ... when a notice cannot be sent,
LEMMA UntoldType ==
  ASSUME NEW p \in PeersType, NEW s \in Sids, NEW m \in Notices PROVE Untold(p, s, m) \in PeersType
  BY DEF Untold, PeersType

\* ... when a client begins to wait on the login server,
LEMMA NowWaitingType ==
  ASSUME NEW p \in PeersType, NEW s \in LoginSids PROVE NowWaiting(p, s) \in PeersType
  BY DEF NowWaiting, PeersType

\* ... when a player changes its session id,
LEMMA NowUnderType ==
  ASSUME NEW p \in PeersType, NEW s, NEW g PROVE NowUnder(p, s, g) \in PeersType
<1> DEFINE U == { u \in Sids \X Notices : IF u[1] = g THEN <<s, u[2]>> \in p.untold ELSE u \in p.untold }
<1>1. U \in SUBSET (Sids \X Notices)
  OBVIOUS
<1> HIDE DEF U
<1>2. [p EXCEPT !.untold = U] \in PeersType
  BY <1>1 DEF PeersType
<1> QED
  BY <1>2 DEF NowUnder, U

\* ... and when a region gives a player up.
LEMMA PlayerFailedType ==
  ASSUME NEW p \in PeersType, NEW s \in Sids, NEW lost \in Lossy({"Disconnect", "OnLogoutReq"})
  PROVE  PlayerFailed(p, s, lost) \in PeersType
<1> DEFINE q == [p EXCEPT !.cacheOn = IF "OnLogoutReq" \in lost THEN @ ELSE @ \ {s},
                          !.untold = @ \cup ({s} \X lost)]
<1>1. lost \subseteq Notices
  BY DEF Lossy, Notices
<1>2. q \in PeersType
  BY <1>1 DEF PeersType
<1> HIDE DEF q
<1>3. GateDropped(q, IF "Disconnect" \in lost THEN {} ELSE {s}) \in PeersType
  BY <1>2, GateDroppedType
<1> QED
  BY <1>3 DEF PlayerFailed, q

\* What the handlers ask for is an answer of the kind the peers owe.
LEMMA AnswerType ==
  /\ \A s \in LoginSids, n \in Accounts, g \in Gates : Answer("GateAlloc", s, n, g) \in Answers
  /\ \A k \in CacheKinds, s \in Sids : Answer(k, s, NULL, 0) \in Answers
  /\ \A k \in RegionKinds, s \in Sids, r \in RegionIds : Answer(k, s, NULL, r) \in Answers
<1>1. \A s \in LoginSids, n \in Accounts, g \in Gates : Answer("GateAlloc", s, n, g) \in Answers
  BY DEF Answer, Answers, GateKinds
<1>2. \A k \in CacheKinds, s \in Sids : Answer(k, s, NULL, 0) \in Answers
  BY DEF Answer, Answers
<1>3. \A k \in RegionKinds, s \in Sids, r \in RegionIds : Answer(k, s, NULL, r) \in Answers
  BY DEF Answer, Answers
<1> QED
  BY <1>1, <1>2, <1>3

\* ShutdownPlayer tells the peers nothing outside their vocabulary.
LEMMA TellPeersType ==
  ASSUME TypeOK, NEW p \in PeersType, NEW sv, NEW rid \in [Ctx -> RegionIds],
         NEW leave \in SUBSET Ctx, NEW gone \in SUBSET Ctx, NEW lost \in SUBSET (gone \X Notices)
  PROVE  TellPeers(p, sv, rid, leave, gone, lost) \in PeersType
<1> DEFINE In(S, m) == { c \in gone : sv[c] \in S /\ <<c, m>> \notin lost }
           new == { Answer("RegionLeave", sess[c], NULL, rid[c]) : c \in leave }
           more == { <<sess[m[1]], m[2]>> : m \in lost }
           p1 == [p EXCEPT
              !.owed = @ \cup new,
              !.regionOn = @ \ { <<rid[c], sess[c]>> : c \in In(RegionReleaseStates, "RegionReleaseReq") },
              !.loginWait = @ \ { sess[c] : c \in In(FailedAckStates, "OnLoginFailedAck") },
              !.cacheOn = @ \ { sess[c] : c \in In(CacheLogoutStates, "OnLogoutReq") },
              !.untold = @ \cup more]
           p2 == GateReleased(p1, { acct[c] : c \in In(GateReleaseStates, "GateReleaseReq") })
<1>1. new \subseteq Answers
  BY AnswerType DEF TypeOK, RegionKinds
<1>5. more \subseteq Sids \X Notices
  BY DEF TypeOK
<1>2. p1 \in PeersType
  <2> HIDE DEF new, more, In
  <2> QED
    BY <1>1, <1>5 DEF PeersType
<1>3. p2 \in PeersType
  BY <1>2, GateReleasedType
<1> HIDE DEF p2
<1>4. GateDropped(p2, { sess[c] : c \in In(DisconnectStates, "Disconnect") }) \in PeersType
  BY <1>3, GateDroppedType
<1> QED
  BY <1>4 DEF TellPeers, p2

\* The notices that may be lost are about the players in gone.
LEMMA LostNotices ==
  ASSUME NEW sv, NEW gone, NEW lost \in Lossy(Due(sv, gone))
  PROVE  lost \in SUBSET (gone \X Notices)
<1>1. DOMAIN Releases \subseteq Notices
  BY DEF Releases, Notices
<1>2. Due(sv, gone) \subseteq gone \X Notices
  BY <1>1 DEF Due
<1> QED
  BY <1>2 DEF Lossy

-----------------------------------------------------------------------------
(* ShutdownPlayer. *)

\* A push order of a set of contexts lists exactly them, each once.
LEMMA OrdersType ==
  ASSUME NEW S \in SUBSET Ctx, NEW q \in Orders(S)
  PROVE  /\ q \in Seq(Ctx)
         /\ \A i \in 1 .. Len(q) : q[i] \in S
         /\ \A x \in S : \E i \in 1 .. Len(q) : q[i] = x
         /\ \A i, j \in 1 .. Len(q) : q[i] = q[j] => i = j
<1>1. IsFiniteSet(S)
  BY FS_Subset, ConstantAssumption
<1>2. Cardinality(S) \in Nat
  BY <1>1, FS_CardinalityType
<1> DEFINE n == Cardinality(S)
<1>3. n \in Nat
  BY <1>2
<1>4. q \in [1 .. n -> S]
  BY DEF Orders
<1>5. /\ \A x \in S : \E i \in 1 .. n : q[i] = x
      /\ \A i, j \in 1 .. n : q[i] = q[j] => i = j
  BY DEF Orders
<1> HIDE DEF n
<1>6. q \in Seq(S) /\ Len(q) = n
  BY <1>3, <1>4
<1>7. q \in Seq(Ctx)
  BY <1>3, <1>4
<1> QED
  BY <1>3, <1>4, <1>5, <1>6, <1>7

\* What ShutdownPlayer does to the flags and the queue: some contexts of C,
\* not marked before, are marked and pushed.
QueueStep(C) ==
  \E gone \in SUBSET (C \cap Ctx) :
    /\ \A c \in gone : ~fin[c]
    /\ fin' = [c \in Ctx |-> fin[c] \/ c \in gone]
    /\ \E q \in Orders(gone) : queue' = queue \o q

\* The types of the variables that a player's own step changes.
PlayerType ==
  /\ st \in [Ctx -> States] /\ fin \in [Ctx -> BOOLEAN] /\ queue \in Seq(Ctx)
  /\ regionMap \in [Channels \X RegionIds \X Sids -> Ptr]
  /\ peers \in PeersType

\* Pushing contexts keeps the flags and the queue in their types.
LEMMA QueueStepType ==
  ASSUME TypeOK, NEW C, QueueStep(C)
  PROVE  fin' \in [Ctx -> BOOLEAN] /\ queue' \in Seq(Ctx)
<1>1. PICK gone \in SUBSET (C \cap Ctx) :
        /\ fin' = [c \in Ctx |-> fin[c] \/ c \in gone]
        /\ \E q \in Orders(gone) : queue' = queue \o q
  BY DEF QueueStep
<1>2. PICK q \in Orders(gone) : queue' = queue \o q
  BY <1>1
<1>3. q \in Seq(Ctx)
  BY OrdersType
<1>4. fin' \in [Ctx -> BOOLEAN]
  BY <1>1 DEF TypeOK
<1>5. queue' \in Seq(Ctx)
  BY <1>2, <1>3, ConcatProperties DEF TypeOK
<1> QED
  BY <1>4, <1>5

\* Pushing contexts in use keeps the flags and the queue in step.
LEMMA QueueStepExact ==
  ASSUME TypeOK, QueueExact, NEW C, \A c \in C \cap Ctx : Live(c),
         QueueStep(C), UNCHANGED <<created, freeCnt>>
  PROVE  QueueExact'
<1>1. PICK gone \in SUBSET (C \cap Ctx) :
        /\ \A c \in gone : ~fin[c]
        /\ fin' = [c \in Ctx |-> fin[c] \/ c \in gone]
        /\ \E q \in Orders(gone) : queue' = queue \o q
  BY DEF QueueStep
<1>2. PICK q \in Orders(gone) : queue' = queue \o q
  BY <1>1
<1>3. /\ q \in Seq(Ctx)
      /\ \A i \in 1 .. Len(q) : q[i] \in gone
      /\ \A x \in gone : \E i \in 1 .. Len(q) : q[i] = x
      /\ \A i, j \in 1 .. Len(q) : q[i] = q[j] => i = j
  BY OrdersType
<1>4. queue \in Seq(Ctx)
  BY DEF TypeOK
<1> DEFINE m == Len(queue)
           n == Len(q)
<1>5. /\ m \in Nat /\ n \in Nat /\ Len(queue') = m + n
      /\ \A i \in 1 .. m : queue'[i] = queue[i]
      /\ \A i \in 1 .. n : queue'[m + i] = q[i]
  BY <1>2, <1>3, <1>4
<1>6. \A i \in 1 .. m + n : i \in 1 .. m \/ \E j \in 1 .. n : i = m + j
  <2> SUFFICES ASSUME NEW i \in 1 .. m + n, i \notin 1 .. m
               PROVE  i - m \in 1 .. n /\ i = m + (i - m)
    OBVIOUS
  <2> QED
    BY <1>5
<1> HIDE DEF m, n
<1>7. \A c \in Ctx : Queued(c) <=> \E i \in 1 .. m : queue[i] = c
  BY DEF Queued, m
<1>8. \A c \in Ctx : Queued(c)' <=> Queued(c) \/ c \in gone
  <2>1. ASSUME NEW c \in Ctx, Queued(c)' PROVE Queued(c) \/ c \in gone
    <3>1. PICK i \in 1 .. m + n : queue'[i] = c
      BY <2>1, <1>5 DEF Queued
    <3>2. CASE i \in 1 .. m
      BY <3>1, <3>2, <1>5, <1>7
    <3>3. CASE \E j \in 1 .. n : i = m + j
      BY <3>1, <3>3, <1>3, <1>5 DEF n
    <3> QED
      BY <3>2, <3>3, <1>6
  <2>2. ASSUME NEW c \in Ctx, Queued(c) PROVE Queued(c)'
    BY <2>2, <1>5, <1>7 DEF Queued
  <2>3. ASSUME NEW c \in gone PROVE Queued(c)'
    <3>1. PICK j \in 1 .. n : q[j] = c
      BY <1>3 DEF n
    <3>2. m + j \in 1 .. Len(queue') /\ queue'[m + j] = c
      BY <3>1, <1>5
    <3> QED
      BY <3>2 DEF Queued
  <2> QED
    BY <2>1, <2>2, <2>3
<1>9. \A c \in Ctx : fin'[c] <=> fin[c] \/ c \in gone
  BY <1>1
<1>10. \A i, j \in 1 .. m + n : queue'[i] = queue'[j] => i = j
  <2> SUFFICES ASSUME NEW i \in 1 .. m + n, NEW j \in 1 .. m + n, queue'[i] = queue'[j]
               PROVE  i = j
    OBVIOUS
  <2>1. \A k \in 1 .. m : fin[queue[k]] /\ queue[k] \in Ctx
    BY <1>4 DEF QueueExact, Queued, m
  <2>2. \A k \in 1 .. n : ~fin[q[k]]
    BY <1>1, <1>3 DEF n
  <2>3. CASE i \in 1 .. m /\ j \in 1 .. m
    BY <2>3, <1>5 DEF QueueExact, m
  <2>4. CASE i \in 1 .. m /\ \E k \in 1 .. n : j = m + k
    BY <2>4, <2>1, <2>2, <1>5
  <2>5. CASE j \in 1 .. m /\ \E k \in 1 .. n : i = m + k
    BY <2>5, <2>1, <2>2, <1>5
  <2>6. CASE (\E k \in 1 .. n : i = m + k) /\ (\E k \in 1 .. n : j = m + k)
    BY <2>6, <1>3, <1>5 DEF n
  <2> QED
    BY <2>3, <2>4, <2>5, <2>6, <1>6
<1>11. \A c \in Ctx : Live(c)' <=> Live(c)
  BY DEF Live
<1>12. \A c \in Ctx : fin'[c] <=> Queued(c)'
  BY <1>8, <1>9 DEF QueueExact
<1>13. \A c \in Ctx : fin'[c] => Live(c)'
  BY <1>9, <1>11 DEF QueueExact
<1> QED
  BY <1>5, <1>10, <1>12, <1>13 DEF QueueExact

\* Pushing nothing is a QueueStep.
LEMMA EmptyQueueStep ==
  ASSUME TypeOK, NEW C, UNCHANGED <<fin, queue>>
  PROVE  QueueStep(C)
<1>1. Cardinality({}) = 0
  BY FS_EmptySet
<1>2. << >> \in Orders({})
  BY <1>1 DEF Orders
<1>3. queue' = queue \o << >>
  BY DEF TypeOK
<1>4. fin' = [c \in Ctx |-> fin[c] \/ c \in {}]
  BY DEF TypeOK
<1> QED
  BY <1>2, <1>3, <1>4 DEF QueueStep

\* ShutdownPlayer, for a set of players: a QueueStep of those players.
LEMMA ShutdownSetStep ==
  ASSUME TypeOK, regionId' \in [Ctx -> RegionIds], NEW C \in SUBSET Ctx,
         NEW sv \in [Ctx -> States], NEW tv \in [Ctx -> States],
         NEW p \in PeersType, NEW reached, NEW left,
         ShutdownSet(C, sv, tv, p, reached, left)
  PROVE  /\ PlayerType' /\ QueueStep(C)
         /\ \A c \in Ctx \ C : st'[c] = tv[c]
<1> DEFINE todo  == NotFinalizing(C)
           leave == { c \in todo : sv[c] \in RegionLeaveStates /\ c \in reached }
           gone  == todo \ leave
           freed == { c \in gone : sv[c] \in RegionReleaseStates } \cup left
           next(c) == IF c \in leave
                      THEN After(After(sv[c], "FINALIZE"), "REGIONLEAVEACK")
                      ELSE IF c \in gone /\ sv[c] \in RegionLeaveStates
                           THEN After(sv[c], "FINALIZE") ELSE tv[c]
<1>1. /\ st' = [c \in Ctx |-> next(c)]
      /\ fin' = [c \in Ctx |-> fin[c] \/ c \in gone]
      /\ \E q \in Orders(gone) : queue' = queue \o q
      /\ DeleteFromRegion(RegionKeys(freed, regionId'))
      /\ \E lost \in Lossy(Due(sv, gone)) : peers' = TellPeers(p, sv, regionId', leave, gone, lost)
  BY DEF ShutdownSet
<1>2. leave \in SUBSET C /\ gone \in SUBSET C /\ \A c \in gone : ~fin[c]
  BY DEF NotFinalizing
<1> HIDE DEF leave, gone, todo, freed
<1>3. \A c \in Ctx : next(c) \in States
  BY AfterType
<1>4. \A c \in Ctx \ C : next(c) = tv[c]
  BY <1>2
<1> HIDE DEF next
<1>5. st' \in [Ctx -> States] /\ \A c \in Ctx \ C : st'[c] = tv[c]
  BY <1>1, <1>3, <1>4
<1>6. peers' \in PeersType
  <2>1. PICK lost \in Lossy(Due(sv, gone)) : peers' = TellPeers(p, sv, regionId', leave, gone, lost)
    BY <1>1
  <2>2. lost \in SUBSET (gone \X Notices)
    BY LostNotices
  <2>3. leave \in SUBSET Ctx /\ gone \in SUBSET Ctx
    BY <1>2
  <2> QED
    BY <2>1, <2>2, <2>3, TellPeersType
<1>7. regionMap' \in [Channels \X RegionIds \X Sids -> Ptr]
  BY <1>1 DEF DeleteFromRegion, TypeOK, Ptr
<1>8. QueueStep(C)
  BY <1>1, <1>2 DEF QueueStep
<1> QED
  BY <1>5, <1>6, <1>7, <1>8, QueueStepType DEF PlayerType

\* A step of the players in C: their state machines move and they may be queued.
PlayersStep(C) ==
  /\ PlayerType' /\ QueueStep(C)
  /\ \A d \in Ctx \ C : st'[d] = st[d]

PlayerStep(c) == PlayersStep({c})

\* ShutdownPlayer on one player is a step of that player alone.
LEMMA ShutdownPlayerStep ==
  ASSUME TypeOK, regionId' \in [Ctx -> RegionIds], NEW c \in Ctx, NEW s \in States,
         NEW t \in States, NEW p \in PeersType, NEW ok, ShutdownPlayer(c, s, t, p, ok)
  PROVE  PlayerStep(c)
<1> DEFINE sv == [st EXCEPT ![c] = s]
           tv == [st EXCEPT ![c] = t]
<1>1. sv \in [Ctx -> States] /\ tv \in [Ctx -> States] /\ \A d \in Ctx \ {c} : tv[d] = st[d]
  BY DEF TypeOK
<1>2. ShutdownSet({c}, sv, tv, p, IF ok THEN {c} ELSE {}, {})
  BY DEF ShutdownPlayer
<1> HIDE DEF sv, tv
<1>3. /\ PlayerType' /\ QueueStep({c})
      /\ \A d \in Ctx \ {c} : st'[d] = tv[d]
  BY <1>1, <1>2, ShutdownSetStep
<1> QED
  BY <1>1, <1>3 DEF PlayerStep, PlayersStep

\* So is a move of its state machine,
LEMMA MoveStep ==
  ASSUME TypeOK, NEW c \in Ctx, NEW s \in States, NEW p \in PeersType, Move(c, s, p)
  PROVE  PlayerStep(c)
<1>1. QueueStep({c})
  BY EmptyQueueStep DEF Move
<1>2. PlayerType'
  BY DEF Move, PlayerType, TypeOK
<1>3. \A d \in Ctx \ {c} : st'[d] = st[d]
  BY DEF Move, TypeOK
<1> QED
  BY <1>1, <1>2, <1>3 DEF PlayerStep, PlayersStep

\* an event that is ignored,
LEMMA IgnoreStep ==
  ASSUME TypeOK, NEW c, NEW p \in PeersType, Ignore(p)
  PROVE  PlayerStep(c)
<1>1. QueueStep({c})
  BY EmptyQueueStep DEF Ignore
<1> QED
  BY <1>1 DEF Ignore, PlayerStep, PlayersStep, PlayerType, TypeOK

\* a state error,
LEMMA StateErrorStep ==
  ASSUME TypeOK, regionId' \in [Ctx -> RegionIds], NEW c \in Ctx,
         NEW p \in PeersType, NEW ok, StateError(c, p, ok)
  PROVE  PlayerStep(c)
  BY ShutdownPlayerStep DEF StateError, TypeOK

\* and a rejected event.
LEMMA RejectedStep ==
  ASSUME TypeOK, regionId' \in [Ctx -> RegionIds], NEW c \in Ctx, NEW e,
         NEW p \in PeersType, NEW ok, Rejected(c, e, p, ok)
  PROVE  PlayerStep(c)
  BY StateErrorStep, IgnoreStep DEF Rejected

-----------------------------------------------------------------------------
(* The invariant. *)

Inv == TypeOK /\ Bookkeeping

\* The context a message is for, if any, is in use.
LEMMA IndexedIsLive ==
  ASSUME Inv
  PROVE  /\ \A s \in Sids : bySid[s] \in Ptr /\ (bySid[s] # NULL /\ ~overrun => Live(bySid[s]))
         /\ \A n \in Accounts : byName[n] \in Ptr /\ (byName[n] # NULL /\ ~overrun => Live(byName[n]))
  BY DEF Inv, TypeOK, Bookkeeping, NamesAndSessions

\* Steps of players in use preserve the bookkeeping.
LEMMA StepKeepsBooks ==
  ASSUME Inv, NEW C, ~overrun => \A c \in C \cap Ctx : Live(c), PlayersStep(C),
         UNCHANGED <<acct, sess, byName, bySid, created, freeCnt, used, overrun>>
  PROVE  Bookkeeping'
<1> SUFFICES ASSUME ~overrun' PROVE (NamesAndSessions /\ QueueExact /\ PoolSound)'
  BY DEF Bookkeeping
<1>1. ~overrun /\ NamesAndSessions /\ QueueExact /\ PoolSound
  BY DEF Inv, Bookkeeping
<1>2. \A d \in Ctx : Live(d)' <=> Live(d)
  BY DEF Live
<1>3. NamesAndSessions'
  BY <1>1 DEF NamesAndSessions, Live
<1>4. QueueExact'
  BY <1>1, QueueStepExact DEF Inv, PlayersStep
<1>5. PoolSound'
  <2>1. \A d \in Ctx : ~Live(d)' => st'[d] = "NONE" /\ sess'[d] = NoSid /\ acct'[d] = NULL
    BY <1>1, <1>2 DEF PoolSound, PlayersStep
  <2>2. {d \in Ctx : Live(d)'} = {d \in Ctx : Live(d)}
    BY <1>2
  <2> QED
    BY <1>1, <2>1, <2>2 DEF PoolSound
<1> QED
  BY <1>3, <1>4, <1>5

\* A player's own step preserves the invariant.
LEMMA PlayerStepKeeps ==
  ASSUME Inv, NEW c \in Ptr, c # NULL /\ ~overrun => Live(c), PlayerStep(c),
         regionId' \in [Ctx -> RegionIds], chan' \in [Ctx -> Channels],
         avatars' \in [Ctx -> 0 .. AVATARCOUNT_MAX], Frame
  PROVE  Inv'
<1> USE DEF Frame, idVars, mapVars, poolVars, loopVars
<1>1. TypeOK'
  BY DEF Inv, TypeOK, PlayerStep, PlayersStep, PlayerType
<1>2. ~overrun => \A d \in {c} \cap Ctx : Live(d)
  BY ConstantAssumption
<1>3. Bookkeeping'
  BY <1>2, StepKeepsBooks DEF PlayerStep
<1> QED
  BY <1>1, <1>3 DEF Inv

-----------------------------------------------------------------------------
(* The states the handlers name. *)

\* Every state a handler moves to by name is one of the table.
LEMMA StateNames ==
  { "NONE", "ONLOGINREQ", "GATEALLOCREQ", "GATEALLOCACK", "GATEALLOCNTF", "ONGATELOGINREQ",
    "CACHELOGINREQ", "ONAVATARLISTREQ", "ONAVATARLISTACK", "ONAVATARCREATEREQ",
    "ONAVATARCREATEACK", "ONAVATARSELECTREQ", "ONAVATARSELECTACK", "ONCHANNELSELECTREQ",
    "REGIONALLOCREQ", "ONREGIONALLOCACK", "CHANNELSELECTACK", "REGIONENTERREQ" } \subseteq States
<1> DEFINE rows == Transitions
<1>1. /\ <<"NONE", "ONLOGINREQ", "ONLOGINREQ">> \in rows
      /\ <<"ONLOGINREQ", "GATEALLOCREQ", "GATEALLOCREQ">> \in rows
      /\ <<"GATEALLOCREQ", "GATEALLOCACK", "GATEALLOCACK">> \in rows
      /\ <<"GATEALLOCACK", "GATEALLOCNTF", "GATEALLOCNTF">> \in rows
      /\ <<"GATEALLOCNTF", "ONGATELOGINREQ", "ONGATELOGINREQ">> \in rows
      /\ <<"ONGATELOGINREQ", "CACHELOGINREQ", "CACHELOGINREQ">> \in rows
      /\ <<"CACHELOGINREQ", "ONAVATARLISTREQ", "ONAVATARLISTREQ">> \in rows
  BY DEF Transitions, LoginTransitions
<1>2. /\ <<"AVATARLISTREQ", "ONAVATARLISTACK", "ONAVATARLISTACK">> \in rows
      /\ <<"AVATARLISTACK", "ONAVATARCREATEREQ", "ONAVATARCREATEREQ">> \in rows
      /\ <<"AVATARCREATEREQ", "ONAVATARCREATEACK", "ONAVATARCREATEACK">> \in rows
      /\ <<"AVATARLISTACK", "ONAVATARSELECTREQ", "ONAVATARSELECTREQ">> \in rows
      /\ <<"AVATARSELECTREQ", "ONAVATARSELECTACK", "ONAVATARSELECTACK">> \in rows
  BY DEF Transitions, AvatarTransitions
<1>3. /\ <<"CHANNELLISTNTF", "ONCHANNELSELECTREQ", "ONCHANNELSELECTREQ">> \in rows
      /\ <<"ONCHANNELSELECTREQ", "REGIONALLOCREQ", "REGIONALLOCREQ">> \in rows
      /\ <<"REGIONALLOCREQ", "ONREGIONALLOCACK", "ONREGIONALLOCACK">> \in rows
      /\ <<"ONREGIONALLOCACK", "CHANNELSELECTACK", "CHANNELSELECTACK">> \in rows
      /\ <<"CHANNELSELECTACK", "REGIONENTERREQ", "REGIONENTERREQ">> \in rows
  BY DEF Transitions, ChannelTransitions
<1> HIDE DEF rows
<1>4. \A t \in rows : t[1] \in States /\ t[3] \in States
  BY DEF States, rows
<1>5. \A a, b, d : <<a, b, d>> \in rows => a \in States /\ d \in States
  BY <1>4
<1> QED
  BY <1>1, <1>2, <1>3, <1>5

-----------------------------------------------------------------------------
(* Every action preserves the invariant. *)

\* The reports of the login and gate servers preserve the invariant.
LEMMA ReportsKeepInv ==
  ASSUME Inv, LoginReport \/ \E g \in Gates : \E n \in 0 .. GateMax[g] : GateReport(g, n)
  PROVE  Inv'
<1> USE DEF idVars, ctxVars, mapVars, poolVars
<1>1. TypeOK'
  <2>1. CASE LoginReport
    BY <2>1 DEF LoginReport, Inv, TypeOK
  <2>2. CASE \E g \in Gates : \E n \in 0 .. GateMax[g] : GateReport(g, n)
    <3>0. PICK g \in Gates : \E n \in 0 .. GateMax[g] : GateReport(g, n)
      BY <2>2
    <3>1. PICK n \in 0 .. GateMax[g] : GateReport(g, n)
      BY <3>0
    <3>2. GateMax[g] \in Nat /\ GateMax[g] < 65536
      BY ConstantAssumption DEF Uint16
    <3>3. n \in Uint16
      BY <3>2 DEF Uint16
    <3> QED
      BY <3>1, <3>3 DEF GateReport, Inv, TypeOK
  <2> QED
    BY <2>1, <2>2
<1>2. UNCHANGED <<st, fin, queue, acct, sess, byName, bySid, created, freeCnt, used, overrun>>
  BY DEF LoginReport, GateReport
<1>3. Bookkeeping'
  BY <1>2 DEF Inv, Bookkeeping, NamesAndSessions, QueueExact, PoolSound, Queued, Live
<1> QED
  BY <1>1, <1>3 DEF Inv

\* OnGateLoginReq preserves the invariant.
LEMMA OnGateLoginReqKeepsInv ==
  ASSUME Inv, NEW g \in GateSids, NEW ok \in SendResults, OnGateLoginReq(g, ok)
  PROVE  Inv'
<1> DEFINE c == bySid[g]
           p == [peers EXCEPT !.gateIn = @ \cup {g}]
           q == [p EXCEPT !.cacheOn = @ \cup {g}]
<1>1. c \in Ptr /\ (c # NULL /\ ~overrun => Live(c))
  BY IndexedIsLive DEF Sids
<1>2. p \in PeersType /\ q \in PeersType
  BY DEF Inv, TypeOK, PeersType, Sids
<1>3. TypeOK /\ regionId' \in [Ctx -> RegionIds] /\ chan' \in [Ctx -> Channels]
      /\ avatars' \in [Ctx -> 0 .. AVATARCOUNT_MAX]
  BY DEF Inv, TypeOK, OnGateLoginReq, ctxVars
<1>4. \/ Ignore(p)
      \/ c # NULL /\ Rejected(c, "ONGATELOGINREQ", p, ok)
      \/ c # NULL /\ Move(c, "CACHELOGINREQ", q)
      \/ c # NULL /\ ShutdownPlayer(c, "ONGATELOGINREQ", "ONGATELOGINREQ", p, TRUE)
  BY DEF OnGateLoginReq
<1> HIDE DEF c, p, q
<1>5. PlayerStep(c)
  BY <1>1, <1>2, <1>3, <1>4, StateNames, IgnoreStep, RejectedStep, MoveStep, ShutdownPlayerStep
     DEF Ptr
<1> QED
  BY <1>1, <1>3, <1>5, PlayerStepKeeps DEF OnGateLoginReq

\* OnSessionDisconnect preserves the invariant.
LEMMA OnSessionDisconnectKeepsInv ==
  ASSUME Inv, NEW s \in Sids, NEW ok \in SendResults, OnSessionDisconnect(s, ok)
  PROVE  Inv'
<1> DEFINE c == bySid[s]
           d == GateDropped(LoginAnswered(peers, s), {s})
           p == [d EXCEPT !.gateIn = @ \ {s}]
<1>1. c \in Ptr /\ (c # NULL /\ ~overrun => Live(c))
  BY IndexedIsLive
<1>2. d \in PeersType
  BY LoginAnsweredType, GateDroppedType DEF Inv, TypeOK
<1> HIDE DEF d
<1>3. p \in PeersType
  BY <1>2 DEF PeersType
<1>4. TypeOK /\ regionId' \in [Ctx -> RegionIds] /\ chan' \in [Ctx -> Channels]
      /\ avatars' \in [Ctx -> 0 .. AVATARCOUNT_MAX]
  BY DEF Inv, TypeOK, OnSessionDisconnect, ctxVars
<1>5. Ignore(p) \/ (c # NULL /\ StateError(c, p, ok))
  BY DEF OnSessionDisconnect, d
<1> HIDE DEF c, p
<1>6. PlayerStep(c)
  BY <1>1, <1>3, <1>4, <1>5, IgnoreStep, StateErrorStep DEF Ptr
<1> QED
  BY <1>1, <1>4, <1>6, PlayerStepKeeps DEF OnSessionDisconnect

\* A request passed on to the cache is a step of its player.
LEMMA ForwardToCacheStep ==
  ASSUME TypeOK, regionId' \in [Ctx -> RegionIds], NEW c \in Ctx, NEW on \in States, NEW to,
         NEW valid, NEW kind \in CacheKinds, NEW ok, ForwardToCache(c, on, to, valid, kind, ok)
  PROVE  PlayerStep(c)
<1> DEFINE a == Answer(kind, sess[c], NULL, 0)
           p == Owe(peers, a)
<1>1. a \in Answers
  BY AnswerType DEF TypeOK
<1> HIDE DEF a
<1>2. p \in PeersType /\ peers \in PeersType
  BY <1>1, OweType DEF TypeOK
<1>3. \/ Rejected(c, on, peers, ok)
      \/ Move(c, After(on, to), p)
      \/ ShutdownPlayer(c, on, on, peers, ok)
  BY DEF ForwardToCache, a
<1> HIDE DEF p
<1> QED
  BY <1>2, <1>3, AfterType, RejectedStep, MoveStep, ShutdownPlayerStep

\* So is the choice of a channel.
LEMMA OnChannelSelectReqStep ==
  ASSUME TypeOK, regionId' \in [Ctx -> RegionIds], NEW c \in Ctx, NEW ch \in Channels \cup {NULL},
         NEW ok, OnChannelSelectReq(c, ch, ok)
  PROVE  PlayerStep(c) /\ chan' \in [Ctx -> Channels]
<1> DEFINE r == InitialRegion[ch]
           a == Answer("RegionAlloc", sess[c], NULL, r)
           o == Owe(peers, a)
           p == [o EXCEPT !.regionOn = @ \cup {<<r, sess[c]>>}]
<1>0. peers \in PeersType /\ chan \in [Ctx -> Channels]
  BY DEF TypeOK
<1>1. CASE Rejected(c, "ONCHANNELSELECTREQ", peers, ok) /\ UNCHANGED chan
  BY <1>0, <1>1, RejectedStep
<1>2. CASE ch = NULL /\ Move(c, "ONCHANNELSELECTREQ", peers) /\ UNCHANGED chan
  BY <1>0, <1>2, MoveStep, StateNames
<1>3. CASE ShutdownPlayer(c, "ONCHANNELSELECTREQ", "ONCHANNELSELECTREQ", peers, TRUE) /\ UNCHANGED chan
  BY <1>0, <1>3, ShutdownPlayerStep, StateNames
<1>4. CASE ch # NULL /\ chan' = [chan EXCEPT ![c] = ch] /\ Move(c, "REGIONALLOCREQ", p)
  <2>1. r \in RegionIds /\ sess[c] \in Sids
    BY <1>4, ConstantAssumption DEF RegionIds, TypeOK
  <2> HIDE DEF r
  <2>2. a \in Answers
    BY <2>1, AnswerType DEF RegionKinds
  <2> HIDE DEF a
  <2>3. o \in PeersType
    BY <2>2, OweType, <1>0
  <2> HIDE DEF o
  <2>4. p \in PeersType
    BY <2>1, <2>3 DEF PeersType
  <2> HIDE DEF p
  <2> QED
    BY <1>0, <1>4, <2>4, MoveStep, StateNames
<1> QED
  BY <1>1, <1>2, <1>3, <1>4 DEF OnChannelSelectReq

\* Every packet of a client preserves the invariant.
LEMMA ClientPacketKeepsInv ==
  ASSUME Inv, NEW g \in GateSids, NEW ok \in SendResults, ClientPacket(g, ok)
  PROVE  Inv'
<1> DEFINE c == bySid[g]
<1>1. c \in Ctx /\ (~overrun => Live(c))
  BY IndexedIsLive DEF Sids, Ptr, ClientPacket
<1>2. TypeOK /\ chan \in [Ctx -> Channels] /\ regionId' \in [Ctx -> RegionIds]
      /\ avatars' \in [Ctx -> 0 .. AVATARCOUNT_MAX]
  BY DEF Inv, TypeOK, ClientPacket
<1>3. \/ OnAvatarListReq(c, ok) /\ UNCHANGED chan
      \/ OnAvatarCreateReq(c, ok) /\ UNCHANGED chan
      \/ (\E known \in BOOLEAN : OnAvatarSelectReq(c, known, ok)) /\ UNCHANGED chan
      \/ \E ch \in Channels \cup {NULL} : OnChannelSelectReq(c, ch, ok)
  BY DEF ClientPacket
<1> HIDE DEF c
<1>4. PlayerStep(c) /\ chan' \in [Ctx -> Channels]
  <2>1. CASE OnAvatarListReq(c, ok) /\ UNCHANGED chan
    BY <1>1, <1>2, <2>1, StateNames, ForwardToCacheStep DEF OnAvatarListReq, CacheKinds
  <2>2. CASE OnAvatarCreateReq(c, ok) /\ UNCHANGED chan
    BY <1>1, <1>2, <2>2, StateNames, ForwardToCacheStep DEF OnAvatarCreateReq, CacheKinds
  <2>3. CASE (\E known \in BOOLEAN : OnAvatarSelectReq(c, known, ok)) /\ UNCHANGED chan
    BY <1>1, <1>2, <2>3, StateNames, ForwardToCacheStep DEF OnAvatarSelectReq, CacheKinds
  <2>4. CASE \E ch \in Channels \cup {NULL} : OnChannelSelectReq(c, ch, ok)
    BY <1>1, <1>2, <2>4, OnChannelSelectReqStep
  <2> QED
    BY <1>3, <2>1, <2>2, <2>3, <2>4
<1> QED
  BY <1>1, <1>2, <1>4, PlayerStepKeeps DEF ClientPacket, Ptr

\* The answers of the cache are steps of the player they are for.
LEMMA OnAvatarListAckStep ==
  ASSUME TypeOK, regionId' \in [Ctx -> RegionIds], NEW c \in Ctx, NEW p \in PeersType, NEW ret,
         NEW n \in 0 .. AVATARCOUNT_MAX, NEW ok, OnAvatarListAck(c, p, ret, n, ok)
  PROVE  PlayerStep(c) /\ avatars' \in [Ctx -> 0 .. AVATARCOUNT_MAX]
<1> DEFINE s == "ONAVATARLISTACK"
           t == After(s, "AVATARLISTACK")
<1>1. s \in States /\ t \in States /\ avatars \in [Ctx -> 0 .. AVATARCOUNT_MAX]
  BY StateNames, AfterType DEF TypeOK
<1>2. \/ Rejected(c, s, p, ok) \/ ShutdownPlayer(c, s, s, p, ok) \/ Move(c, t, p)
      \/ ShutdownPlayer(c, s, t, p, TRUE)
  BY DEF OnAvatarListAck
<1>3. UNCHANGED avatars \/ avatars' = [avatars EXCEPT ![c] = n]
  BY DEF OnAvatarListAck
<1> HIDE DEF s, t
<1> QED
  BY <1>1, <1>2, <1>3, RejectedStep, MoveStep, ShutdownPlayerStep

\* OnAvatarCreateAck, which never counts beyond AVATARCOUNT_MAX.
LEMMA OnAvatarCreateAckStep ==
  ASSUME TypeOK, regionId' \in [Ctx -> RegionIds], NEW c \in Ctx, NEW p \in PeersType, NEW ret,
         NEW ok, OnAvatarCreateAck(c, p, ret, ok)
  PROVE  PlayerStep(c) /\ avatars' \in [Ctx -> 0 .. AVATARCOUNT_MAX]
<1> DEFINE s == "ONAVATARCREATEACK"
           t == After(s, "AVATARCREATEACK")
<1>1. s \in States /\ t \in States /\ avatars \in [Ctx -> 0 .. AVATARCOUNT_MAX]
  BY StateNames, AfterType DEF TypeOK
<1>2. \/ Rejected(c, s, p, ok) \/ ShutdownPlayer(c, s, s, p, ok) \/ Move(c, s, p) \/ Move(c, t, p)
      \/ ShutdownPlayer(c, s, t, p, TRUE)
  BY DEF OnAvatarCreateAck
<1>3. \/ UNCHANGED avatars
      \/ ~(avatars[c] >= AVATARCOUNT_MAX) /\ avatars' = [avatars EXCEPT ![c] = avatars[c] + 1]
  BY DEF OnAvatarCreateAck
<1> HIDE DEF s, t
<1>4. avatars' \in [Ctx -> 0 .. AVATARCOUNT_MAX]
  BY <1>1, <1>3, ConstantAssumption
<1> QED
  BY <1>1, <1>2, <1>4, RejectedStep, MoveStep, ShutdownPlayerStep

\* OnAvatarSelectAck, with the channel list that follows it.
LEMMA OnAvatarSelectAckStep ==
  ASSUME TypeOK, regionId' \in [Ctx -> RegionIds], NEW c \in Ctx, NEW p \in PeersType, NEW ret,
         NEW ch \in Channels, NEW ok, NEW listed, OnAvatarSelectAck(c, p, ret, ch, ok, listed)
  PROVE  PlayerStep(c) /\ chan' \in [Ctx -> Channels]
<1> DEFINE s == "ONAVATARSELECTACK"
           t == After(s, "AVATARSELECTACK")
           u == IF listed THEN After(t, "CHANNELLISTNTF") ELSE t
           m == IF ok THEN t ELSE s
<1>1. s \in States /\ t \in States /\ chan \in [Ctx -> Channels]
  BY StateNames, AfterType DEF TypeOK
<1> HIDE DEF s, t
<1>2. u \in States /\ m \in States
  BY <1>1, AfterType
<1>3. \/ Rejected(c, s, p, ok) \/ ShutdownPlayer(c, s, s, p, ok) \/ Move(c, u, p)
      \/ ShutdownPlayer(c, m, u, p, TRUE)
  BY DEF OnAvatarSelectAck, s, t
<1>4. UNCHANGED chan \/ chan' = [chan EXCEPT ![c] = ch]
  BY DEF OnAvatarSelectAck
<1> HIDE DEF u, m
<1> QED
  BY <1>1, <1>2, <1>3, <1>4, RejectedStep, MoveStep, ShutdownPlayerStep

\* Every answer of the cache preserves the invariant.
LEMMA CacheAckKeepsInv ==
  ASSUME Inv, NEW a \in peers.owed, NEW ok \in SendResults, CacheAck(a, ok)
  PROVE  Inv'
<1> DEFINE c == bySid[a.sid]
           p == Settle(peers, a)
<1>0. a.sid \in Sids
  BY DEF Inv, TypeOK, PeersType, Answers, Sids
<1>1. c \in Ptr /\ (c # NULL /\ ~overrun => Live(c))
  BY <1>0, IndexedIsLive
<1>2. p \in PeersType
  BY SettleType DEF Inv, TypeOK
<1>3. TypeOK /\ regionId' \in [Ctx -> RegionIds] /\ chan \in [Ctx -> Channels]
      /\ avatars \in [Ctx -> 0 .. AVATARCOUNT_MAX]
  BY DEF Inv, TypeOK, CacheAck
<1>4. \/ c = NULL /\ Ignore(p) /\ UNCHANGED <<chan, avatars>>
      \/ /\ c # NULL /\ UNCHANGED chan
         /\ \E ret \in Returns, n \in 0 .. AVATARCOUNT_MAX : OnAvatarListAck(c, p, ret, n, ok)
      \/ /\ c # NULL /\ UNCHANGED chan
         /\ \E ret \in Returns : OnAvatarCreateAck(c, p, ret, ok)
      \/ /\ c # NULL /\ UNCHANGED avatars
         /\ \E ret \in Returns, ch \in Channels, listed \in SendResults :
              OnAvatarSelectAck(c, p, ret, ch, ok, listed)
  BY DEF CacheAck
<1> HIDE DEF c, p
<1>5. PlayerStep(c) /\ chan' \in [Ctx -> Channels] /\ avatars' \in [Ctx -> 0 .. AVATARCOUNT_MAX]
  <2>1. CASE c = NULL /\ Ignore(p) /\ UNCHANGED <<chan, avatars>>
    BY <1>2, <1>3, <2>1, IgnoreStep
  <2>2. CASE /\ c # NULL /\ UNCHANGED chan
             /\ \E ret \in Returns, n \in 0 .. AVATARCOUNT_MAX : OnAvatarListAck(c, p, ret, n, ok)
    BY <1>1, <1>2, <1>3, <2>2, OnAvatarListAckStep DEF Ptr
  <2>3. CASE c # NULL /\ UNCHANGED chan /\ \E ret \in Returns : OnAvatarCreateAck(c, p, ret, ok)
    BY <1>1, <1>2, <1>3, <2>3, OnAvatarCreateAckStep DEF Ptr
  <2>4. CASE /\ c # NULL /\ UNCHANGED avatars
             /\ \E ret \in Returns, ch \in Channels, listed \in SendResults :
                  OnAvatarSelectAck(c, p, ret, ch, ok, listed)
    BY <1>1, <1>2, <1>3, <2>4, OnAvatarSelectAckStep DEF Ptr
  <2> QED
    BY <1>4, <2>1, <2>2, <2>3, <2>4
<1> QED
  BY <1>1, <1>3, <1>5, PlayerStepKeeps DEF CacheAck

\* A region's refusal is a step of the player it is for,
LEMMA RegionRefusedStep ==
  ASSUME TypeOK, NEW c \in Ctx, NEW p \in PeersType, NEW ok, NEW listed,
         RegionRefused(c, p, ok, listed)
  PROVE  PlayerStep(c) /\ regionId' \in [Ctx -> RegionIds]
<1> DEFINE s1 == After("ONREGIONALLOCACK", "ONREGIONALLOCFAILACK")
           s2 == After(s1, "CHANNELSELECTACK")
           s3 == After(s2, "CHANNELLISTNTF")
<1>1. s1 \in States
  BY StateNames, AfterType
<1>2. regionId' \in [Ctx -> RegionIds]
  BY DEF RegionRefused, TypeOK
<1>3. ShutdownPlayer(c, s1, s1, p, TRUE) \/ ShutdownPlayer(c, s2, s2, p, TRUE) \/ Move(c, s3, p)
  BY DEF RegionRefused
<1> HIDE DEF s1
<1>4. s2 \in States
  BY <1>1, AfterType
<1> HIDE DEF s2
<1>5. s3 \in States
  BY <1>4, AfterType
<1> HIDE DEF s3
<1> QED
  BY <1>1, <1>2, <1>3, <1>4, <1>5, MoveStep, ShutdownPlayerStep

\* and so is its consent.
LEMMA RegionGrantedStep ==
  ASSUME TypeOK, NEW c \in Ctx, NEW r \in RegionIds, NEW p \in PeersType, NEW ok, NEW entered,
         RegionGranted(c, r, p, ok, entered)
  PROVE  PlayerStep(c) /\ regionId' \in [Ctx -> RegionIds]
<1>1. regionId' \in [Ctx -> RegionIds]
  BY DEF RegionGranted, TypeOK
<1>2. CASE ShutdownPlayer(c, "ONREGIONALLOCACK", "ONREGIONALLOCACK", p, TRUE)
  BY <1>1, <1>2, StateNames, ShutdownPlayerStep
<1>3. CASE ShutdownPlayer(c, "CHANNELSELECTACK", "CHANNELSELECTACK", p, TRUE)
  BY <1>1, <1>3, StateNames, ShutdownPlayerStep
<1>4. CASE /\ st' = [st EXCEPT ![c] = "REGIONENTERREQ"]
           /\ regionMap' = Insert(regionMap, <<chan[c], r, sess[c]>>, c)
           /\ peers' = p
           /\ UNCHANGED <<fin, queue>>
  <2>1. QueueStep({c})
    BY <1>4, EmptyQueueStep
  <2>2. regionMap' \in [Channels \X RegionIds \X Sids -> Ptr]
    BY <1>4 DEF Insert, TypeOK, Ptr
  <2>3. st' \in [Ctx -> States] /\ \A d \in Ctx \ {c} : st'[d] = st[d]
    BY <1>4, StateNames DEF TypeOK
  <2> QED
    BY <1>1, <1>4, <2>1, <2>2, <2>3 DEF PlayerStep, PlayersStep, PlayerType, TypeOK
<1> QED
  BY <1>2, <1>3, <1>4 DEF RegionGranted

\* OnRegionAllocAck preserves the invariant.
LEMMA OnRegionAllocAckKeepsInv ==
  ASSUME Inv, NEW a \in peers.owed, a.kind = "RegionAlloc", NEW ret \in Returns,
         NEW ok \in SendResults, NEW ok2 \in SendResults, OnRegionAllocAck(a, ret, ok, ok2)
  PROVE  Inv'
<1> DEFINE c == bySid[a.sid]
           q == Settle(peers, a)
           p == IF ret = 0 THEN q ELSE [q EXCEPT !.regionOn = @ \ {<<a.srv, a.sid>>}]
<1>0. a.sid \in Sids /\ a.srv \in RegionIds
  BY DEF Inv, TypeOK, PeersType, Answers, Sids, GateKinds, CacheKinds
<1>1. c \in Ptr /\ (c # NULL /\ ~overrun => Live(c))
  BY <1>0, IndexedIsLive
<1>2. q \in PeersType
  BY SettleType DEF Inv, TypeOK
<1> HIDE DEF q
<1>3. p \in PeersType
  BY <1>2 DEF PeersType
<1>4. /\ TypeOK /\ regionId \in [Ctx -> RegionIds] /\ chan' \in [Ctx -> Channels]
      /\ avatars' \in [Ctx -> 0 .. AVATARCOUNT_MAX]
  BY DEF Inv, TypeOK, OnRegionAllocAck
<1>5. \/ Ignore(p) /\ UNCHANGED regionId
      \/ c # NULL /\ UNCHANGED regionId /\ Rejected(c, "ONREGIONALLOCACK", p, ok)
      \/ c # NULL /\ RegionRefused(c, p, ok, ok2)
      \/ c # NULL /\ RegionGranted(c, a.srv, p, ok, ok2)
  BY DEF OnRegionAllocAck, q
<1> HIDE DEF c, p
<1>6. PlayerStep(c) /\ regionId' \in [Ctx -> RegionIds]
  BY <1>0, <1>1, <1>3, <1>4, <1>5, IgnoreStep, RejectedStep, RegionRefusedStep, RegionGrantedStep
     DEF Ptr
<1> QED
  BY <1>1, <1>4, <1>6, PlayerStepKeeps DEF OnRegionAllocAck

\* OnRegionLeaveReq preserves the invariant.
LEMMA OnRegionLeaveReqKeepsInv ==
  ASSUME Inv, NEW a \in peers.owed, NEW ok \in SendResults, OnRegionLeaveReq(a, ok)
  PROVE  Inv'
<1> DEFINE c == bySid[a.sid]
           s == Result(st[c], "ONREGIONLEAVEREQ")
           q == Settle(peers, a)
           p == [q EXCEPT !.regionOn = @ \ {<<a.srv, a.sid>>}]
           sv == [st EXCEPT ![c] = s]
<1>0. a.sid \in Sids
  BY DEF Inv, TypeOK, PeersType, Answers, Sids
<1>1. c \in Ptr /\ (c # NULL /\ ~overrun => Live(c))
  BY <1>0, IndexedIsLive
<1>2. q \in PeersType
  BY SettleType DEF Inv, TypeOK
<1> HIDE DEF q
<1>3. p \in PeersType
  BY <1>2 DEF PeersType
<1>4. TypeOK /\ regionId' \in [Ctx -> RegionIds] /\ chan' \in [Ctx -> Channels]
      /\ avatars' \in [Ctx -> 0 .. AVATARCOUNT_MAX]
  BY DEF Inv, TypeOK, OnRegionLeaveReq, ctxVars
<1>5. \/ Ignore(p)
      \/ c # NULL /\ StateError(c, p, ok)
      \/ c # NULL /\ s # INVALID /\ ShutdownSet({c}, sv, sv, p, {c}, {c})
      \/ /\ c # NULL /\ s # INVALID
         /\ st' = [st EXCEPT ![c] = After(s, "CHANNELLISTNTF")]
         /\ DeleteFromRegion(RegionKeys({c}, regionId))
         /\ peers' = p
         /\ UNCHANGED <<fin, queue>>
  BY DEF OnRegionLeaveReq, q
<1>6. s # INVALID => s \in States
  BY ResultType
<1> HIDE DEF c, s, p, sv
<1>7. PlayerStep(c)
  <2>1. CASE Ignore(p)
    BY <1>3, <1>4, <2>1, IgnoreStep
  <2>2. CASE c # NULL /\ StateError(c, p, ok)
    BY <1>1, <1>3, <1>4, <2>2, StateErrorStep DEF Ptr
  <2>3. CASE c # NULL /\ s # INVALID /\ ShutdownSet({c}, sv, sv, p, {c}, {c})
    <3>1. c \in Ctx /\ sv \in [Ctx -> States] /\ \A d \in Ctx \ {c} : sv[d] = st[d]
      BY <1>1, <1>6, <2>3 DEF sv, Inv, TypeOK, Ptr
    <3>2. PlayerType' /\ QueueStep({c}) /\ \A d \in Ctx \ {c} : st'[d] = sv[d]
      BY <1>3, <1>4, <2>3, <3>1, ShutdownSetStep
    <3> QED
      BY <3>1, <3>2 DEF PlayerStep, PlayersStep
  <2>4. CASE /\ c # NULL /\ s # INVALID
             /\ st' = [st EXCEPT ![c] = After(s, "CHANNELLISTNTF")]
             /\ DeleteFromRegion(RegionKeys({c}, regionId))
             /\ peers' = p
             /\ UNCHANGED <<fin, queue>>
    <3>1. c \in Ctx /\ After(s, "CHANNELLISTNTF") \in States
      BY <1>1, <1>6, <2>4, AfterType DEF Ptr
    <3>2. st' \in [Ctx -> States] /\ \A d \in Ctx \ {c} : st'[d] = st[d]
      BY <1>4, <2>4, <3>1 DEF TypeOK
    <3>3. regionMap' \in [Channels \X RegionIds \X Sids -> Ptr]
      BY <1>4, <2>4 DEF DeleteFromRegion, TypeOK, Ptr
    <3>4. QueueStep({c})
      BY <1>4, <2>4, EmptyQueueStep
    <3> QED
      BY <1>3, <1>4, <2>4, <3>2, <3>3, <3>4 DEF PlayerStep, PlayersStep, PlayerType, TypeOK
  <2> QED
    BY <1>5, <2>1, <2>2, <2>3, <2>4
<1> QED
  BY <1>1, <1>4, <1>7, PlayerStepKeeps DEF OnRegionLeaveReq

\* AddPlayerToFinalizingQueue on a player not yet in the queue is a QueueStep.
LEMMA PushStep ==
  ASSUME TypeOK, NEW c \in Ctx, ~fin[c], fin' = [fin EXCEPT ![c] = TRUE], queue' = Append(queue, c)
  PROVE  QueueStep({c})
<1>1. Cardinality({c}) = 1
  BY FS_Singleton
<1>2. <<c>> \in Orders({c})
  <2>1. 1 .. Cardinality({c}) = {1}
    BY <1>1
  <2>2. <<c>> \in [{1} -> {c}] /\ <<c>>[1] = c
    OBVIOUS
  <2> QED
    BY <2>1, <2>2 DEF Orders
<1>3. queue' = queue \o <<c>>
  BY DEF TypeOK
<1>4. fin' = [d \in Ctx |-> fin[d] \/ d \in {c}]
  BY DEF TypeOK
<1>5. {c} \in SUBSET ({c} \cap Ctx) /\ \A d \in {c} : ~fin[d]
  OBVIOUS
<1> QED
  BY <1>2, <1>3, <1>4, <1>5 DEF QueueStep

\* OnRegionPlayerFailReq preserves the invariant.
LEMMA OnRegionPlayerFailReqKeepsInv ==
  ASSUME Inv, NEW k \in peers.regionOn, OnRegionPlayerFailReq(k[1], k[2])
  PROVE  Inv'
<1> DEFINE s == k[2]
           c == bySid[s]
           p == [peers EXCEPT !.regionOn = @ \ {<<k[1], s>>}]
<1>0. s \in Sids
  BY DEF Inv, TypeOK, PeersType
<1>1. c \in Ptr /\ (c # NULL /\ ~overrun => Live(c))
  BY <1>0, IndexedIsLive
<1>2. p \in PeersType
  BY DEF Inv, TypeOK, PeersType
<1>3. TypeOK /\ regionId' \in [Ctx -> RegionIds] /\ chan' \in [Ctx -> Channels]
      /\ avatars' \in [Ctx -> 0 .. AVATARCOUNT_MAX]
  BY DEF Inv, TypeOK, OnRegionPlayerFailReq, ctxVars
<1>4. \/ Ignore(p)
      \/ /\ ~Gone(c)
         /\ fin' = [fin EXCEPT ![c] = TRUE]
         /\ queue' = Append(queue, c)
         /\ \E lost \in Lossy({"Disconnect", "OnLogoutReq"}) : peers' = PlayerFailed(p, s, lost)
         /\ UNCHANGED <<st, regionMap>>
  BY DEF OnRegionPlayerFailReq
<1> HIDE DEF c, p
<1>6. PlayerStep(c)
  <2>1. CASE Ignore(p)
    BY <1>2, <1>3, <2>1, IgnoreStep
  <2>2. CASE /\ ~Gone(c)
             /\ fin' = [fin EXCEPT ![c] = TRUE]
             /\ queue' = Append(queue, c)
             /\ \E lost \in Lossy({"Disconnect", "OnLogoutReq"}) : peers' = PlayerFailed(p, s, lost)
             /\ UNCHANGED <<st, regionMap>>
    <3>1. c \in Ctx /\ ~fin[c]
      BY <1>1, <2>2 DEF Gone, Ptr
    <3>2. QueueStep({c})
      BY <1>3, <2>2, <3>1, PushStep
    <3>3. fin' \in [Ctx -> BOOLEAN] /\ queue' \in Seq(Ctx)
      BY <1>3, <3>2, QueueStepType
    <3>4. peers' \in PeersType
      BY <1>0, <1>2, <2>2, PlayerFailedType
    <3> QED
      BY <1>3, <2>2, <3>2, <3>3, <3>4 DEF PlayerStep, PlayersStep, PlayerType, TypeOK
  <2> QED
    BY <1>4, <2>1, <2>2
<1> QED
  BY <1>1, <1>3, <1>6, PlayerStepKeeps DEF OnRegionPlayerFailReq

\* _OnCommandShutdown, over all players at once, preserves the invariant.
LEMMA ShutdownKeepsInv ==
  ASSUME Inv, NEW reached, Shutdown(reached)
  PROVE  Inv'
<1> DEFINE C == { byName[n] : n \in Accounts } \ {NULL}
<1>1. C \in SUBSET Ctx /\ (~overrun => \A c \in C \cap Ctx : Live(c))
  BY IndexedIsLive DEF Ptr
<1>2. TypeOK /\ regionId' \in [Ctx -> RegionIds] /\ st \in [Ctx -> States] /\ peers \in PeersType
  BY DEF Inv, TypeOK, Shutdown, ctxVars
<1>3. ShutdownSet(C, st, st, peers, reached, {})
  BY DEF Shutdown
<1> HIDE DEF C
<1>4. PlayersStep(C)
  BY <1>1, <1>2, <1>3, ShutdownSetStep DEF PlayersStep
<1> USE DEF Shutdown, idVars, ctxVars, mapVars, poolVars
<1>5. TypeOK'
  BY <1>2, <1>4 DEF TypeOK, PlayersStep, PlayerType
<1>6. Bookkeeping'
  BY <1>1, <1>4, StepKeepsBooks
<1> QED
  BY <1>5, <1>6 DEF Inv

-----------------------------------------------------------------------------
(* A login. *)

\* A fresh context accepts the login request.
LEMMA NoneAcceptsLogin == Result("NONE", "ONLOGINREQ") = "ONLOGINREQ"
<1> DEFINE ch == CHOOSE t \in Transitions : <<t[1], t[2]>> = <<"NONE", "ONLOGINREQ">>
<1>1. <<"NONE", "ONLOGINREQ", "ONLOGINREQ">> \in Transitions
  BY DEF Transitions, LoginTransitions
<1>2. \A t \in Transitions : t[1] = "NONE" => t[3] = "ONLOGINREQ"
  BY DEF Transitions, LoginTransitions, AvatarTransitions, ChannelTransitions, LeaveTransitions
<1>3. ch \in Transitions /\ <<ch[1], ch[2]>> = <<"NONE", "ONLOGINREQ">>
  <2>1. \E t \in Transitions : <<t[1], t[2]>> = <<"NONE", "ONLOGINREQ">>
    BY <1>1
  <2> QED
    BY <2>1
<1>4. ch[3] = "ONLOGINREQ"
  BY <1>2, <1>3
<1>5. <<"NONE", "ONLOGINREQ">> \in DOMAIN Table /\ Table[<<"NONE", "ONLOGINREQ">>] = ch[3]
  BY <1>3 DEF Table
<1> QED
  BY <1>4, <1>5 DEF Result

\* Allocate hands out a context that was not in use, and counts it.
LEMMA AllocateKeepsPool ==
  ASSUME TypeOK, PoolSound, NEW c \in Ctx, Allocate(c)
  PROVE  /\ ~Live(c) /\ Live(c)' /\ \A d \in Ctx \ {c} : Live(d)' <=> Live(d)
         /\ \A d \in Ctx : freeCnt'[d] <= 1 /\ (freeCnt'[d] = 1 => d \in created')
         /\ used' = Cardinality({d \in Ctx : Live(d)'}) /\ used' <= PoolMax
<1>1. /\ ~Live(c) /\ Live(c)' /\ \A d \in Ctx \ {c} : Live(d)' <=> Live(d)
      /\ \A d \in Ctx : freeCnt'[d] <= 1 /\ (freeCnt'[d] = 1 => d \in created')
  BY DEF Allocate, TypeOK, PoolSound, Live
<1> DEFINE L == {d \in Ctx : Live(d)}
<1>2. IsFiniteSet(L) /\ c \notin L
  BY <1>1, FS_Subset, ConstantAssumption
<1>3. {d \in Ctx : Live(d)'} = L \cup {c}
  BY <1>1
<1>4. Cardinality(L \cup {c}) = Cardinality(L) + 1
  BY <1>2, FS_AddElement
<1>5. used = Cardinality(L) /\ used' = used + 1 /\ PoolMax > used
  BY DEF PoolSound, Allocate
<1>6. used \in Nat /\ PoolMax \in Nat
  BY ConstantAssumption DEF TypeOK, Uint16
<1> QED
  BY <1>1, <1>3, <1>4, <1>5, <1>6

\* Allocate keeps the pool in its types.
LEMMA AllocateType ==
  ASSUME TypeOK, NEW c \in Ctx, Allocate(c)
  PROVE  created' \subseteq Ctx /\ freeCnt' \in [Ctx -> Nat] /\ used' \in Uint16
<1>1. used \in Nat /\ PoolMax \in Nat /\ PoolMax < 65536
  BY ConstantAssumption DEF TypeOK, Uint16
<1>2. used' \in Uint16
  BY <1>1 DEF Allocate, Uint16
<1>3. created' \subseteq Ctx
  BY DEF Allocate, TypeOK
<1>4. freeCnt' \in [Ctx -> Nat]
  <2>1. CASE UNCHANGED freeCnt
    BY <2>1 DEF TypeOK
  <2>2. CASE freeCnt[c] > 0 /\ freeCnt' = [freeCnt EXCEPT ![c] = @ - 1]
    <3>1. freeCnt[c] \in Nat
      BY DEF TypeOK
    <3>2. freeCnt[c] - 1 \in Nat
      BY <2>2, <3>1
    <3> QED
      BY <2>2, <3>2 DEF TypeOK
  <2> QED
    BY <2>1, <2>2 DEF Allocate
<1> QED
  BY <1>2, <1>3, <1>4

\* A login that finds no player under the account and room in the pool.
LEMMA NewPlayerKeepsInv ==
  ASSUME Inv, NEW n \in Accounts, NEW s \in LoginSids, NEW ok, NEW c \in Ctx,
         Unused(s), byName[n] = NULL, Allocate(c),
         byName' = [byName EXCEPT ![n] = c],
         bySid' = Insert(bySid, s, c),
         loginMap' = Insert(loginMap, s, c),
         PlayerOnLoginReq(c, s, n, NowWaiting(peers, s), ok),
         UNCHANGED <<chan, avatars, gateMap, status, loginUp, overrun>>
  PROVE  Inv'
<1> DEFINE p == NowWaiting(peers, s)
<1>1. TypeOK /\ UNCHANGED regionId /\ regionId' \in [Ctx -> RegionIds] /\ s \in Sids
  BY DEF Inv, TypeOK, PlayerOnLoginReq, Sids
<1>2. p \in PeersType
  BY NowWaitingType DEF Inv, TypeOK
<1>3. /\ created' \subseteq Ctx /\ freeCnt' \in [Ctx -> Nat] /\ used' \in Uint16
  BY <1>1, AllocateType
<1>4. bySid[s] = NULL /\ loginMap[s] = NULL /\ \A d \in Ctx : sess[d] # s
  BY DEF Unused
<1>5. /\ byName' \in [Accounts -> Ptr] /\ bySid' \in [Sids -> Ptr] /\ loginMap' \in [Sids -> Ptr]
      /\ bySid' = [bySid EXCEPT ![s] = c]
  BY <1>1, <1>4 DEF Insert, TypeOK, Ptr
<1>6. \/ /\ Result(st[c], "ONLOGINREQ") = INVALID
         /\ UNCHANGED <<idVars, gateCnt>>
         /\ StateError(c, p, ok)
      \/ /\ acct' = [acct EXCEPT ![c] = n]
         /\ sess' = [sess EXCEPT ![c] = s]
         /\ \/ Move(c, "ONLOGINREQ", p) /\ UNCHANGED <<gateId, gateCnt>>
            \/ \E g \in Gates :
                 /\ GateMax[g] > gateCnt[g]
                 /\ gateId' = [gateId EXCEPT ![c] = g]
                 /\ gateCnt' = [gateCnt EXCEPT ![g] = @ + 1]
                 /\ \/ Move(c, "GATEALLOCREQ", Owe(p, Answer("GateAlloc", s, n, g)))
                    \/ Move(c, "ONLOGINREQ", p)
  BY DEF PlayerOnLoginReq, FirstGate, GatesWithRoom
<1> HIDE DEF p
<1>7. PlayerStep(c) /\ gateId' \in [Ctx -> GateIds] /\ gateCnt' \in [Gates -> Uint16]
      /\ acct' \in [Ctx -> Accounts \cup {NULL}] /\ sess' \in [Ctx -> Sids]
  <2>1. CASE UNCHANGED <<idVars, gateCnt>> /\ StateError(c, p, ok)
    <3>1. PlayerStep(c)
      BY <1>1, <1>2, <2>1, StateErrorStep
    <3> QED
      BY <1>1, <2>1, <3>1 DEF TypeOK, idVars
  <2>2. CASE /\ acct' = [acct EXCEPT ![c] = n]
             /\ sess' = [sess EXCEPT ![c] = s]
             /\ Move(c, "ONLOGINREQ", p) /\ UNCHANGED <<gateId, gateCnt>>
    <3>1. PlayerStep(c)
      BY <1>1, <1>2, <2>2, MoveStep, StateNames
    <3> QED
      BY <1>1, <2>2, <3>1 DEF TypeOK
  <2>3. ASSUME NEW g \in Gates,
               /\ acct' = [acct EXCEPT ![c] = n]
               /\ sess' = [sess EXCEPT ![c] = s]
               /\ GateMax[g] > gateCnt[g]
               /\ gateId' = [gateId EXCEPT ![c] = g]
               /\ gateCnt' = [gateCnt EXCEPT ![g] = @ + 1]
               /\ \/ Move(c, "GATEALLOCREQ", Owe(p, Answer("GateAlloc", s, n, g)))
                  \/ Move(c, "ONLOGINREQ", p)
        PROVE  PlayerStep(c) /\ gateId' \in [Ctx -> GateIds] /\ gateCnt' \in [Gates -> Uint16]
               /\ acct' \in [Ctx -> Accounts \cup {NULL}] /\ sess' \in [Ctx -> Sids]
    <3>1. Owe(p, Answer("GateAlloc", s, n, g)) \in PeersType
      BY <1>2, OweType, AnswerType
    <3>2. PlayerStep(c)
      BY <1>1, <1>2, <2>3, <3>1, MoveStep, StateNames
    <3>3. gateCnt[g] \in Nat /\ GateMax[g] \in Nat /\ GateMax[g] < 65536
      BY <1>1, ConstantAssumption DEF TypeOK, Uint16
    <3>4. gateCnt[g] + 1 \in Uint16
      BY <2>3, <3>3 DEF Uint16
    <3> QED
      BY <1>1, <2>3, <3>2, <3>4 DEF TypeOK, GateIds
  <2> QED
    BY <1>6, <2>1, <2>2, <2>3
<1>8. TypeOK'
  BY <1>1, <1>3, <1>5, <1>7 DEF TypeOK, PlayerStep, PlayersStep, PlayerType
<1>9. Bookkeeping'
  <2> SUFFICES ASSUME ~overrun' PROVE (NamesAndSessions /\ QueueExact /\ PoolSound)'
    BY DEF Bookkeeping
  <2>1. ~overrun /\ NamesAndSessions /\ QueueExact /\ PoolSound
    BY DEF Inv, Bookkeeping
  <2>2. /\ ~Live(c) /\ Live(c)' /\ \A d \in Ctx \ {c} : Live(d)' <=> Live(d)
        /\ \A d \in Ctx : freeCnt'[d] <= 1 /\ (freeCnt'[d] = 1 => d \in created')
        /\ used' = Cardinality({d \in Ctx : Live(d)'}) /\ used' <= PoolMax
    BY <1>1, <2>1, AllocateKeepsPool
  <2>3. Result(st[c], "ONLOGINREQ") # INVALID
    BY <2>1, <2>2, NoneAcceptsLogin DEF PoolSound, INVALID
  <2>4. /\ acct' = [acct EXCEPT ![c] = n] /\ sess' = [sess EXCEPT ![c] = s]
        /\ UNCHANGED <<fin, queue>>
    BY <1>6, <2>3 DEF Move
  <2>5. NamesAndSessions'
    <3>1. ASSUME NEW m \in Accounts, byName'[m] # NULL
          PROVE  Live(byName[m])' /\ acct'[byName'[m]] = m
      <4>1. CASE m = n
        BY <1>1, <2>2, <2>4, <4>1 DEF TypeOK, Live
      <4>2. CASE m # n
        <5>1. byName'[m] = byName[m] /\ byName[m] \in Ctx \ {c} /\ acct[byName[m]] = m
          BY <1>1, <2>1, <2>2, <3>1, <4>2 DEF NamesAndSessions, TypeOK, Ptr
        <5>2. Live(byName[m])
          BY <2>1, <3>1, <5>1 DEF NamesAndSessions
        <5> QED
          BY <1>1, <2>2, <2>4, <5>1, <5>2 DEF TypeOK, Live
      <4> QED
        BY <4>1, <4>2
    <3>2. ASSUME NEW t \in Sids, bySid'[t] # NULL
          PROVE  Live(bySid[t])' /\ sess'[bySid'[t]] = t
      <4>1. CASE t = s
        BY <1>1, <1>5, <2>2, <2>4, <4>1 DEF TypeOK, Live
      <4>2. CASE t # s
        <5>1. bySid'[t] = bySid[t] /\ bySid[t] \in Ctx \ {c} /\ sess[bySid[t]] = t
          BY <1>1, <1>5, <2>1, <2>2, <3>2, <4>2 DEF NamesAndSessions, TypeOK, Ptr
        <5>2. Live(bySid[t])
          BY <2>1, <3>2, <5>1 DEF NamesAndSessions
        <5> QED
          BY <1>1, <2>2, <2>4, <5>1, <5>2 DEF TypeOK, Live
      <4> QED
        BY <4>1, <4>2
    <3>3. \A d \in Ctx : Live(d)' => /\ acct'[d] \in Accounts /\ byName'[acct'[d]] = d
                                    /\ bySid'[sess'[d]] = d
      <4>1. byName'[n] = c /\ bySid'[s] = c /\ acct'[c] = n /\ sess'[c] = s
        BY <1>1, <1>5, <2>4 DEF TypeOK
      <4>2. ASSUME NEW d \in Ctx \ {c}, Live(d)
            PROVE  /\ acct'[d] \in Accounts /\ byName'[acct'[d]] = d
                   /\ bySid'[sess'[d]] = d
        <5>1. acct[d] \in Accounts /\ byName[acct[d]] = d /\ bySid[sess[d]] = d /\ sess[d] \in Sids
          BY <1>1, <2>1, <4>2 DEF NamesAndSessions, TypeOK
        <5>2. acct[d] # n /\ sess[d] # s
          BY <1>4, <4>2, <5>1, ConstantAssumption
        <5>3. acct'[d] = acct[d] /\ sess'[d] = sess[d]
          BY <1>1, <2>4 DEF TypeOK
        <5> QED
          BY <1>1, <1>5, <5>1, <5>2, <5>3 DEF TypeOK
      <4> QED
        BY <2>2, <4>1, <4>2
    <3> QED
      BY <3>1, <3>2, <3>3 DEF NamesAndSessions
  <2>6. QueueExact'
    BY <2>1, <2>2, <2>4 DEF QueueExact, Queued
  <2>7. \A d \in Ctx : ~Live(d)' => st'[d] = "NONE" /\ sess'[d] = NoSid /\ acct'[d] = NULL
    BY <1>1, <1>7, <2>1, <2>2, <2>4 DEF PoolSound, PlayerStep, PlayersStep, TypeOK
  <2> QED
    BY <2>2, <2>5, <2>6, <2>7 DEF PoolSound
<1> QED
  BY <1>8, <1>9 DEF Inv

\* _OnCommandOnLoginReq preserves the invariant.
LEMMA OnLoginReqKeepsInv ==
  ASSUME Inv, NEW n \in Accounts, NEW s \in LoginSids, NEW ok, NEW told, OnLoginReq(n, s, ok, told)
  PROVE  Inv'
<1> DEFINE refused == IF told THEN peers ELSE Untold(NowWaiting(peers, s), s, "OnLoginFailedAck")
<1>0. TypeOK /\ refused \in PeersType
  <2>1. TypeOK /\ peers \in PeersType /\ s \in Sids /\ "OnLoginFailedAck" \in Notices
    BY DEF Inv, TypeOK, Sids, Notices
  <2> QED
    BY <2>1, NowWaitingType, UntoldType
<1>4. \/ Ignore(refused) /\ UNCHANGED <<idVars, ctxVars, mapVars, poolVars, loopVars>>
      \/ /\ byName[n] # NULL
         /\ UNCHANGED regionId
         /\ StateError(byName[n], refused, ok)
         /\ UNCHANGED <<idVars, chan, avatars, mapVars, poolVars, loopVars>>
      \/ /\ byName[n] = NULL
         /\ \E c \in Ctx :
               /\ Allocate(c)
               /\ byName' = [byName EXCEPT ![n] = c]
               /\ bySid' = Insert(bySid, s, c)
               /\ loginMap' = Insert(loginMap, s, c)
               /\ PlayerOnLoginReq(c, s, n, NowWaiting(peers, s), ok)
         /\ UNCHANGED <<chan, avatars, gateMap, status, loginUp, overrun>>
  BY DEF OnLoginReq
<1> HIDE DEF refused
<1>1. CASE Ignore(refused) /\ UNCHANGED <<idVars, ctxVars, mapVars, poolVars, loopVars>>
  BY <1>0, <1>1 DEF Inv, Ignore, idVars, ctxVars, mapVars, poolVars, loopVars, TypeOK, PlayerType,
       Bookkeeping, NamesAndSessions, QueueExact, PoolSound, Queued, Live
<1>2. CASE /\ byName[n] # NULL
           /\ UNCHANGED regionId
           /\ StateError(byName[n], refused, ok)
           /\ UNCHANGED <<idVars, chan, avatars, mapVars, poolVars, loopVars>>
  <2> DEFINE c == byName[n]
  <2>1. c \in Ptr /\ c \in Ctx /\ (c # NULL /\ ~overrun => Live(c))
    BY <1>2, IndexedIsLive DEF Ptr
  <2>2. TypeOK /\ regionId' \in [Ctx -> RegionIds] /\ chan' \in [Ctx -> Channels]
        /\ avatars' \in [Ctx -> 0 .. AVATARCOUNT_MAX]
    BY <1>2 DEF Inv, TypeOK
  <2>3. PlayerStep(c)
    BY <1>0, <1>2, <2>1, <2>2, StateErrorStep
  <2> QED
    BY <1>2, <2>1, <2>2, <2>3, PlayerStepKeeps DEF Frame
<1>3. CASE /\ byName[n] = NULL
           /\ \E c \in Ctx :
                 /\ Allocate(c)
                 /\ byName' = [byName EXCEPT ![n] = c]
                 /\ bySid' = Insert(bySid, s, c)
                 /\ loginMap' = Insert(loginMap, s, c)
                 /\ PlayerOnLoginReq(c, s, n, NowWaiting(peers, s), ok)
           /\ UNCHANGED <<chan, avatars, gateMap, status, loginUp, overrun>>
  BY <1>3, NewPlayerKeepsInv DEF OnLoginReq
<1> QED
  BY <1>1, <1>2, <1>3, <1>4

-----------------------------------------------------------------------------
(* The gate's answer. *)

\* A session moves from login session s to gate session g: the index by session
\* id follows, for the player and for nobody else.
LEMMA NewSessionKeepsBooks ==
  ASSUME Inv, NEW c \in Ctx, Live(c), sess[c] \in LoginSids, NEW g \in GateSids, Unused(g),
         PlayerStep(c), sess' = [sess EXCEPT ![c] = g],
         bySid' = [bySid EXCEPT ![sess[c]] = NULL, ![g] = c],
         UNCHANGED <<acct, byName, created, freeCnt, used, overrun>>
  PROVE  Bookkeeping'
<1> SUFFICES ASSUME ~overrun' PROVE (NamesAndSessions /\ QueueExact /\ PoolSound)'
  BY DEF Bookkeeping
<1>1. TypeOK /\ ~overrun /\ NamesAndSessions /\ QueueExact /\ PoolSound
  BY DEF Inv, Bookkeeping
<1>2. \A d \in Ctx : Live(d)' <=> Live(d)
  BY DEF Live
<1> DEFINE s == sess[c]
<1>3. /\ g \in Sids /\ s \in Sids /\ g # s /\ bySid[g] = NULL /\ \A d \in Ctx : sess[d] # g
  BY <1>1, ConstantAssumption DEF Unused, Sids
<1>4. bySid[s] = c
  BY <1>1 DEF NamesAndSessions
<1>5. NamesAndSessions'
  <2>1. ASSUME NEW n \in Accounts, byName'[n] # NULL
        PROVE  Live(byName[n])' /\ acct'[byName'[n]] = n
    BY <1>1, <2>1 DEF NamesAndSessions, Live
  <2>2. ASSUME NEW t \in Sids, bySid'[t] # NULL
        PROVE  Live(bySid[t])' /\ sess'[bySid'[t]] = t
    <3>1. CASE t = g
      BY <1>1, <1>2, <1>3, <3>1 DEF TypeOK, Live
    <3>2. CASE t # g
      <4>1. t # s /\ bySid'[t] = bySid[t]
        BY <1>1, <1>3, <2>2, <3>2 DEF TypeOK
      <4>2. Live(bySid[t]) /\ sess[bySid[t]] = t /\ bySid[t] \in Ctx /\ bySid[t] # c
        BY <1>1, <2>2, <4>1 DEF NamesAndSessions, TypeOK, Ptr
      <4> QED
        BY <1>1, <4>1, <4>2 DEF TypeOK, Live
    <3> QED
      BY <3>1, <3>2
  <2>3. ASSUME NEW d \in Ctx, Live(d)'
        PROVE  acct'[d] \in Accounts /\ byName'[acct'[d]] = d /\ bySid'[sess'[d]] = d
    <3>1. /\ Live(d) /\ acct[d] \in Accounts /\ byName[acct[d]] = d
          /\ bySid[sess[d]] = d /\ sess[d] \in Sids
      BY <1>1, <1>2, <2>3 DEF NamesAndSessions, TypeOK
    <3>2. CASE d = c
      BY <1>1, <1>3, <3>1, <3>2 DEF TypeOK
    <3>3. CASE d # c
      BY <1>1, <1>3, <1>4, <3>1, <3>3 DEF TypeOK
    <3> QED
      BY <3>2, <3>3
  <2> QED
    BY <2>1, <2>2, <2>3 DEF NamesAndSessions
<1>6. QueueExact'
  <2>1. \A d \in {c} \cap Ctx : Live(d)
    OBVIOUS
  <2> QED
    BY <1>1, <2>1, QueueStepExact DEF PlayerStep, PlayersStep
<1>7. PoolSound'
  <2>1. \A d \in Ctx : ~Live(d)' => st'[d] = "NONE" /\ sess'[d] = NoSid /\ acct'[d] = NULL
    BY <1>1, <1>2 DEF PoolSound, PlayerStep, PlayersStep, TypeOK
  <2>2. {d \in Ctx : Live(d)'} = {d \in Ctx : Live(d)}
    BY <1>2
  <2> QED
    BY <1>1, <2>1, <2>2 DEF PoolSound
<1> QED
  BY <1>5, <1>6, <1>7

\* A gate's answer to a login, whichever player and session it finds.
LEMMA GateAllocAckKeepsInv ==
  ASSUME Inv, NEW a \in peers.owed, a.kind = "GateAlloc", NEW x \in GateAnswers(a), NEW ok,
         GateAllocAck(a, x[1], x[2], ok)
  PROVE  Inv'
<1> DEFINE c == byName[a.acct]
           srv == x[1]
           g == x[2]
           p == IF g = NoSid \/ a.void THEN Settle(peers, a)
                ELSE [Settle(peers, a) EXCEPT !.gateOwner[g] = a.acct]
           q == NowUnder(LoginAnswered(p, a.sid), a.sid, g)
           u == Untold(p, a.sid, "LoginNtf")
<1>1. TypeOK /\ peers \in PeersType /\ a.sid \in LoginSids /\ a.sid \in Sids
      /\ a.acct \in Accounts /\ a.srv \in Gates
  <2>1. TypeOK /\ peers \in PeersType /\ a \in Answers
    BY DEF Inv, TypeOK, PeersType
  <2> QED
    BY <2>1 DEF Answers, GateKinds, CacheKinds, RegionKinds, Sids
<1>2. g = NoSid \/ (g \in GateSids /\ Unused(g) /\ ServerOf[g] = a.srv)
  BY DEF GateAnswers
<1>3. srv \in GateIds /\ g \in Sids
  BY <1>1, <1>2 DEF GateAnswers, GateIds, Sids
<1>4. p \in PeersType /\ q \in PeersType /\ u \in PeersType
  <2>1. Settle(peers, a) \in PeersType
    BY <1>1, SettleType
  <2>2. p \in PeersType
    BY <1>1, <1>2, <2>1 DEF PeersType
  <2>3. "LoginNtf" \in Notices
    BY DEF Notices
  <2> QED
    BY <1>1, <2>2, <2>3, LoginAnsweredType, NowUnderType, UntoldType
<1>5. c \in Ptr /\ (c # NULL /\ ~overrun => Live(c))
  BY <1>1, IndexedIsLive
<1>6. /\ UNCHANGED <<acct, chan, avatars, poolVars, loopVars, regionId>>
      /\ regionId' \in [Ctx -> RegionIds]
  BY <1>1 DEF GateAllocAck, TypeOK
<1>7. \/ Ignore(p) /\ UNCHANGED <<mapVars, sess, gateId>>
      \/ c # NULL /\ sess[c] = a.sid /\ PlayerGateAllocAck(c, a.sid, srv, g, p, ok)
  BY DEF GateAllocAck, SameLogin
<1> HIDE DEF c, srv, g, p, q, u
\* The answer changes nothing but the player's state machine and gate.
<1>8. ASSUME PlayerStep(c), UNCHANGED <<mapVars, sess>>, gateId' \in [Ctx -> GateIds]
      PROVE  Inv'
  <2>1. TypeOK'
    BY <1>1, <1>6, <1>8 DEF TypeOK, PlayerStep, PlayersStep, PlayerType, poolVars, loopVars, mapVars
  <2>2. ~overrun => \A d \in {c} \cap Ctx : Live(d)
    BY <1>5, ConstantAssumption
  <2>3. Bookkeeping'
    BY <1>6, <1>8, <2>2, StepKeepsBooks DEF PlayerStep, poolVars, loopVars, mapVars
  <2> QED
    BY <2>1, <2>3 DEF Inv
<1>9. CASE Ignore(p) /\ UNCHANGED <<mapVars, sess, gateId>>
  <2>1. PlayerStep(c)
    BY <1>1, <1>4, <1>9, IgnoreStep
  <2> QED
    BY <1>1, <1>8, <1>9, <2>1 DEF TypeOK
<1>10. CASE c # NULL /\ sess[c] = a.sid /\ PlayerGateAllocAck(c, a.sid, srv, g, p, ok)
  <2>1. c \in Ctx /\ st[c] \in States
    BY <1>1, <1>5, <1>10 DEF Ptr, TypeOK
  <2>2. CASE /\ UNCHANGED <<mapVars, sess, gateId>>
             /\ ShutdownPlayer(c, After(st[c], "GATEALLOCFAILACK"),
                               After(st[c], "GATEALLOCFAILACK"), p, ok)
    <3>1. PlayerStep(c)
      BY <1>1, <1>4, <1>6, <2>1, <2>2, AfterType, ShutdownPlayerStep
    <3> QED
      BY <1>1, <1>8, <2>2, <3>1 DEF TypeOK
  <2>3. CASE UNCHANGED <<mapVars, sess, gateId>> /\ StateError(c, p, ok)
    <3>1. PlayerStep(c)
      BY <1>1, <1>4, <1>6, <2>1, <2>3, StateErrorStep
    <3> QED
      BY <1>1, <1>8, <2>3, <3>1 DEF TypeOK
  <2>4. CASE /\ gateId' = [gateId EXCEPT ![c] = srv]
             /\ UNCHANGED <<mapVars, sess>>
             /\ ShutdownPlayer(c, "GATEALLOCACK", "GATEALLOCACK", u, TRUE)
    <3>1. PlayerStep(c)
      BY <1>1, <1>4, <1>6, <2>1, <2>4, StateNames, ShutdownPlayerStep
    <3> QED
      BY <1>1, <1>3, <1>8, <2>4, <3>1 DEF TypeOK
  <2>5. CASE /\ gateId' = [gateId EXCEPT ![c] = srv]
             /\ Move(c, "GATEALLOCNTF", q)
             /\ LoginSession2GateSession(c, a.sid, g)
             /\ UNCHANGED byName
    <3>1. PlayerStep(c)
      BY <1>1, <1>4, <2>1, <2>5, StateNames, MoveStep
    <3>2. gateId' \in [Ctx -> GateIds]
      BY <1>1, <1>3, <2>5 DEF TypeOK
    <3>3. /\ loginMap' \in [Sids -> Ptr] /\ sess' \in [Ctx -> Sids]
          /\ gateMap' \in [Gates \X Sids -> Ptr] /\ bySid' \in [Sids -> Ptr]
      BY <1>1, <1>3, <2>1, <2>5 DEF LoginSession2GateSession, Insert, TypeOK, Ptr
    <3>4. TypeOK'
      BY <1>1, <1>6, <2>5, <3>1, <3>2, <3>3
         DEF TypeOK, PlayerStep, PlayersStep, PlayerType, poolVars, loopVars
    <3>5. Bookkeeping'
      <4>1. CASE overrun
        BY <1>6, <4>1 DEF Bookkeeping, loopVars
      <4>2. CASE ~overrun /\ g = NoSid
        <5>1. UNCHANGED <<sess, bySid, byName>>
          BY <2>5, <4>2 DEF LoginSession2GateSession
        <5>2. ~overrun => \A d \in {c} \cap Ctx : Live(d)
          BY <1>5, ConstantAssumption
        <5> QED
          BY <1>6, <3>1, <5>1, <5>2, StepKeepsBooks DEF PlayerStep, poolVars, loopVars
      <4>3. CASE ~overrun /\ g # NoSid
        <5>1. g \in GateSids /\ Unused(g) /\ Live(c) /\ bySid[g] = NULL
          BY <1>2, <1>5, <1>10, <4>3 DEF Unused
        <5>2. bySid[a.sid] = c
          BY <1>10, <2>1, <4>3, <5>1 DEF Inv, Bookkeeping, NamesAndSessions
        <5>3. sess' = [sess EXCEPT ![c] = g]
          BY <2>5, <4>3 DEF LoginSession2GateSession
        <5>4. bySid' = Insert([bySid EXCEPT ![a.sid] = NULL], g, c)
          BY <1>10, <2>5, <4>3, <5>2 DEF LoginSession2GateSession
        <5>5. bySid' = [bySid EXCEPT ![a.sid] = NULL, ![g] = c]
          BY <1>1, <1>3, <5>1, <5>4 DEF Insert, TypeOK
        <5> QED
          BY <1>1, <1>6, <1>10, <2>1, <2>5, <3>1, <5>1, <5>3, <5>5, NewSessionKeepsBooks
             DEF poolVars, loopVars
      <4> QED
        BY <4>1, <4>2, <4>3
    <3> QED
      BY <3>4, <3>5 DEF Inv
  <2> QED
    BY <1>10, <2>2, <2>3, <2>4, <2>5 DEF PlayerGateAllocAck, q, u
<1> QED
  BY <1>7, <1>9, <1>10

-----------------------------------------------------------------------------
(* The periodic pass. *)

\* DeletePlayer keeps every variable in its type, however often it is called.
LEMMA DeletePlayerType ==
  ASSUME TypeOK, NEW c \in Ctx, NEW n \in Nat, DeletePlayer(c, n), queue' = << >>,
         status' \in {"NOT_SHUTDOWN", "START_SHUTDOWN", "READY_FOR_SHUTDOWN"},
         overrun' \in BOOLEAN, UNCHANGED <<peers, loginUp, gateCnt>>
  PROVE  TypeOK'
<1>1. /\ st' \in [Ctx -> States] /\ fin' \in [Ctx -> BOOLEAN]
      /\ acct' \in [Ctx -> Accounts \cup {NULL}] /\ sess' \in [Ctx -> Sids]
      /\ gateId' \in [Ctx -> GateIds] /\ regionId' \in [Ctx -> RegionIds]
  BY StateNames DEF DeletePlayer, Clear, TypeOK, Sids, GateIds, RegionIds
<1>2. chan' \in [Ctx -> Channels] /\ avatars' \in [Ctx -> 0 .. AVATARCOUNT_MAX]
  BY ConstantAssumption DEF DeletePlayer, Clear, TypeOK
<1>3. /\ byName' \in [Accounts -> Ptr] /\ bySid' \in [Sids -> Ptr] /\ loginMap' \in [Sids -> Ptr]
      /\ gateMap' \in [Gates \X Sids -> Ptr]
  BY DEF DeletePlayer, Erase, TypeOK, Ptr
<1>4. regionMap' \in [Channels \X RegionIds \X Sids -> Ptr]
  BY DEF DeletePlayer, DeleteFromRegion, TypeOK, Ptr
<1>5. created' \subseteq Ctx /\ freeCnt' \in [Ctx -> Nat]
  BY DEF DeletePlayer, Free, TypeOK
<1>6. used' \in Uint16
  <2>1. used \in Nat /\ used' = (used - n) % 65536
    BY DEF DeletePlayer, Free, TypeOK, Uint16
  <2> QED
    BY <2>1 DEF Uint16
<1>7. queue' \in Seq(Ctx)
  OBVIOUS
<1> QED
  BY <1>1, <1>2, <1>3, <1>4, <1>5, <1>6, <1>7 DEF TypeOK

\* Deleting the only player of the queue returns exactly its context to the
\* pool and takes it out of both indexes.
LEMMA DeleteOneKeepsBooks ==
  ASSUME Inv, NEW c \in Ctx, ~overrun, queue = <<c>>, DeletePlayer(c, 1), queue' = << >>
  PROVE  (NamesAndSessions /\ QueueExact /\ PoolSound)'
<1>1. TypeOK /\ NamesAndSessions /\ QueueExact /\ PoolSound
  BY DEF Inv, Bookkeeping
<1>2. Queued(c) /\ \A d \in Ctx \ {c} : ~Queued(d)
  BY DEF Queued
<1>3. Live(c) /\ fin[c] /\ \A d \in Ctx \ {c} : ~fin[d]
  BY <1>1, <1>2 DEF QueueExact
<1>4. freeCnt[c] = 0 /\ c \in created
  BY <1>3 DEF Live
<1>5. /\ freeCnt' = [freeCnt EXCEPT ![c] = 1] /\ created' = created
      /\ used' = (used - 1) % 65536
  BY <1>1, <1>4 DEF DeletePlayer, Free, TypeOK
<1>6. ~Live(c)' /\ \A d \in Ctx \ {c} : Live(d)' <=> Live(d)
  BY <1>1, <1>5 DEF Live, TypeOK
<1> DEFINE n == acct[c]
           s == sess[c]
<1>7. n \in Accounts /\ s \in Sids /\ byName[n] = c /\ bySid[s] = c
  BY <1>1, <1>3 DEF NamesAndSessions, TypeOK
<1>8. /\ byName' = [byName EXCEPT ![n] = NULL] /\ bySid' = [bySid EXCEPT ![s] = NULL]
      /\ acct' = [acct EXCEPT ![c] = NULL] /\ sess' = [sess EXCEPT ![c] = NoSid]
      /\ st' = [st EXCEPT ![c] = "NONE"] /\ fin' = [fin EXCEPT ![c] = FALSE]
  BY DEF DeletePlayer, Erase, Clear
<1> HIDE DEF n, s
<1>9. NamesAndSessions'
  <2>1. ASSUME NEW m \in Accounts, byName'[m] # NULL
        PROVE  Live(byName[m])' /\ acct'[byName'[m]] = m
    <3>1. m # n /\ byName'[m] = byName[m]
      BY <1>1, <1>7, <1>8, <2>1 DEF TypeOK
    <3>2. byName[m] \in Ctx \ {c} /\ Live(byName[m]) /\ acct[byName[m]] = m
      BY <1>1, <2>1, <3>1 DEF NamesAndSessions, TypeOK, Ptr, n
    <3> QED
      BY <1>1, <1>5, <1>8, <3>1, <3>2 DEF TypeOK, Live
  <2>2. ASSUME NEW t \in Sids, bySid'[t] # NULL
        PROVE  Live(bySid[t])' /\ sess'[bySid'[t]] = t
    <3>1. t # s /\ bySid'[t] = bySid[t]
      BY <1>1, <1>7, <1>8, <2>2 DEF TypeOK
    <3>2. bySid[t] \in Ctx \ {c} /\ Live(bySid[t]) /\ sess[bySid[t]] = t
      BY <1>1, <2>2, <3>1 DEF NamesAndSessions, TypeOK, Ptr, s
    <3> QED
      BY <1>1, <1>5, <1>8, <3>1, <3>2 DEF TypeOK, Live
  <2>3. ASSUME NEW d \in Ctx, Live(d)'
        PROVE  acct'[d] \in Accounts /\ byName'[acct'[d]] = d /\ bySid'[sess'[d]] = d
    <3>1. d # c /\ Live(d)
      BY <1>6, <2>3
    <3>2. /\ acct[d] \in Accounts /\ byName[acct[d]] = d
          /\ bySid[sess[d]] = d /\ sess[d] \in Sids
      BY <1>1, <3>1 DEF NamesAndSessions, TypeOK
    <3>3. acct[d] # n /\ sess[d] # s
      BY <1>7, <3>1, <3>2
    <3> QED
      BY <1>1, <1>8, <3>1, <3>2, <3>3 DEF TypeOK
  <2> QED
    BY <2>1, <2>2, <2>3 DEF NamesAndSessions
<1>10. QueueExact'
  <2>1. \A d \in Ctx : ~fin'[d]
    BY <1>1, <1>3, <1>8 DEF TypeOK
  <2>2. Len(queue') = 0
    OBVIOUS
  <2> QED
    BY <2>1, <2>2 DEF QueueExact, Queued
<1>11. PoolSound'
  <2> DEFINE L == {d \in Ctx : Live(d)}
  <2>1. \A d \in Ctx : freeCnt'[d] <= 1 /\ (freeCnt'[d] = 1 => d \in created')
    BY <1>1, <1>4, <1>5 DEF PoolSound, TypeOK
  <2>2. \A d \in Ctx : ~Live(d)' => st'[d] = "NONE" /\ sess'[d] = NoSid /\ acct'[d] = NULL
    BY <1>1, <1>6, <1>8 DEF PoolSound, TypeOK
  <2>3. {d \in Ctx : Live(d)'} = L \ {c}
    BY <1>6
  <2>4. IsFiniteSet(L) /\ c \in L
    BY <1>3, FS_Subset, ConstantAssumption
  <2>5. Cardinality(L \ {c}) = Cardinality(L) - 1
    BY <2>4, FS_RemoveElement
  <2>6. Cardinality(L \ {c}) \in Nat
    BY <2>4, FS_RemoveElement, FS_CardinalityType
  <2>7. used = Cardinality(L) /\ used <= PoolMax /\ PoolMax \in Nat /\ used \in Nat /\ used < 65536
    BY <1>1, ConstantAssumption DEF PoolSound, TypeOK, Uint16
  <2>8. used' = Cardinality(L \ {c}) /\ used' <= PoolMax
    BY <1>5, <2>5, <2>6, <2>7
  <2> QED
    BY <2>1, <2>2, <2>3, <2>8 DEF PoolSound
<1> QED
  BY <1>9, <1>10, <1>11

\* A pass of _Loop preserves the invariant.
LEMMA LoopKeepsInv ==
  ASSUME Inv, Loop
  PROVE  Inv'
<1>1. TypeOK /\ queue \in Seq(Ctx) /\ Len(queue) \in Nat
  BY DEF Inv, TypeOK
<1>2. /\ status' \in {"NOT_SHUTDOWN", "START_SHUTDOWN", "READY_FOR_SHUTDOWN"}
      /\ overrun' \in BOOLEAN /\ overrun' = (overrun \/ Len(queue) > 1)
      /\ UNCHANGED <<peers, loginUp, gateCnt>>
  BY <1>1 DEF Loop, TypeOK
<1>3. CASE queue = << >>
  <2>1. UNCHANGED <<st, fin, queue, regionMap, idVars, ctxVars, mapVars, poolVars>>
    BY <1>3 DEF Loop, DrainFinalizingQueue
  <2> USE DEF idVars, ctxVars, mapVars, poolVars
  <2>2. TypeOK'
    BY <1>1, <1>2, <2>1 DEF TypeOK
  <2>3. Bookkeeping'
    <3>1. overrun => overrun'
      BY <1>2
    <3>2. UNCHANGED <<NamesAndSessions, QueueExact, PoolSound>>
      BY <2>1 DEF NamesAndSessions, QueueExact, PoolSound, Queued, Live
    <3> QED
      BY <3>1, <3>2 DEF Inv, Bookkeeping
  <2> QED
    BY <2>2, <2>3 DEF Inv
<1>4. CASE queue # << >>
  <2> DEFINE c == queue[Len(queue)]
             n == Len(queue)
  <2>1. DeletePlayer(c, n) /\ queue' = << >>
    BY <1>4 DEF Loop, DrainFinalizingQueue
  <2>2. n \in Nat /\ n > 0 /\ c \in Ctx
    BY <1>1, <1>4
  <2>3. TypeOK'
    <3> HIDE DEF c, n
    <3> QED
      BY <1>1, <1>2, <2>1, <2>2, DeletePlayerType
  <2>4. Bookkeeping'
    <3> SUFFICES ASSUME ~overrun' PROVE (NamesAndSessions /\ QueueExact /\ PoolSound)'
      BY DEF Bookkeeping
    <3>0. ~overrun /\ ~(n > 1)
      BY <1>2
    <3>1. n = 1
      <4> HIDE DEF c, n
      <4>1. ~(n > 1)
        BY <3>0
      <4> QED
        BY <2>2, <4>1
    <3>2. queue = <<c>>
      BY <1>1, <3>1
    <3>3. DeletePlayer(c, 1)
      BY <2>1, <3>1
    <3> HIDE DEF c, n
    <3> QED
      BY <2>1, <2>2, <3>0, <3>2, <3>3, DeleteOneKeepsBooks
  <2> QED
    BY <2>3, <2>4 DEF Inv
<1> QED
  BY <1>3, <1>4

-----------------------------------------------------------------------------
(* The theorems. *)

\* The invariant holds when the loop starts.
LEMMA InitInv == Init => Inv
<1> SUFFICES ASSUME Init PROVE Inv
  OBVIOUS
<1>1. TypeOK
  <2>1. peers \in PeersType
    BY DEF Init, PeersType
  <2>2. st \in [Ctx -> States]
    BY StateNames DEF Init
  <2>3. used \in Uint16 /\ gateCnt \in [Gates -> Uint16]
    BY DEF Init, Uint16
  <2>4. chan \in [Ctx -> Channels] /\ avatars \in [Ctx -> 0 .. AVATARCOUNT_MAX]
    BY ConstantAssumption DEF Init
  <2>5. /\ fin \in [Ctx -> BOOLEAN] /\ acct \in [Ctx -> Accounts \cup {NULL}]
        /\ sess \in [Ctx -> Sids] /\ gateId \in [Ctx -> GateIds] /\ regionId \in [Ctx -> RegionIds]
    BY DEF Init, Sids, GateIds, RegionIds
  <2>6. /\ byName \in [Accounts -> Ptr] /\ bySid \in [Sids -> Ptr] /\ loginMap \in [Sids -> Ptr]
        /\ gateMap \in [Gates \X Sids -> Ptr]
        /\ regionMap \in [Channels \X RegionIds \X Sids -> Ptr]
    BY DEF Init, Ptr
  <2>7. /\ created \subseteq Ctx /\ freeCnt \in [Ctx -> Nat] /\ queue \in Seq(Ctx)
    BY DEF Init
  <2>8. /\ status \in {"NOT_SHUTDOWN", "START_SHUTDOWN", "READY_FOR_SHUTDOWN"}
        /\ loginUp \in BOOLEAN /\ overrun \in BOOLEAN
    BY DEF Init
  <2> QED
    BY <2>1, <2>2, <2>3, <2>4, <2>5, <2>6, <2>7, <2>8 DEF TypeOK
<1>2. NamesAndSessions /\ QueueExact
  BY DEF Init, NamesAndSessions, QueueExact, Live, Queued
<1>3. PoolSound
  <2>1. {c \in Ctx : Live(c)} = {}
    BY DEF Init, Live
  <2>2. used = Cardinality({c \in Ctx : Live(c)}) /\ used <= PoolMax
    <3>1. used = 0 /\ PoolMax \in Nat
      BY ConstantAssumption DEF Init, Uint16
    <3> QED
      BY <2>1, <3>1, FS_EmptySet
  <2> QED
    BY <2>2 DEF Init, PoolSound
<1> QED
  BY <1>1, <1>2, <1>3 DEF Inv, Bookkeeping

\* Every command preserves the invariant.
LEMMA CommandKeepsInv ==
  ASSUME Inv, Command
  PROVE  Inv'
<1>1. ASSUME NEW ok \in SendResults, NEW a \in peers.owed, PeerAnswer(a, ok)
      PROVE  Inv'
  <2>1. CASE a.kind = "GateAlloc" /\ \E x \in GateAnswers(a) : GateAllocAck(a, x[1], x[2], ok)
    BY <2>1, GateAllocAckKeepsInv
  <2>2. CASE a.kind \in CacheKinds /\ CacheAck(a, ok)
    BY <2>2, CacheAckKeepsInv
  <2>3. CASE a.kind = "RegionAlloc"
             /\ \E ret \in Returns, ok2 \in SendResults : OnRegionAllocAck(a, ret, ok, ok2)
    BY <2>3, OnRegionAllocAckKeepsInv
  <2>4. CASE a.kind = "RegionLeave" /\ OnRegionLeaveReq(a, ok)
    BY <2>4, OnRegionLeaveReqKeepsInv
  <2> QED
    BY <1>1, <2>1, <2>2, <2>3, <2>4 DEF PeerAnswer
<1>2. ASSUME NEW ok \in SendResults, NEW g \in GateSids, OnGateLoginReq(g, ok) \/ ClientPacket(g, ok)
      PROVE  Inv'
  BY <1>2, OnGateLoginReqKeepsInv, ClientPacketKeepsInv
<1>3. ASSUME NEW ok \in SendResults, NEW s \in Sids, OnSessionDisconnect(s, ok)
      PROVE  Inv'
  BY <1>3, OnSessionDisconnectKeepsInv
<1>4. ASSUME NEW ok \in SendResults, NEW n \in Accounts, NEW s \in LoginSids, NEW told \in SendResults,
             OnLoginReq(n, s, ok, told)
      PROVE  Inv'
  BY <1>4, OnLoginReqKeepsInv
<1>5. ASSUME NEW k \in peers.regionOn, OnRegionPlayerFailReq(k[1], k[2])
      PROVE  Inv'
  BY <1>5, OnRegionPlayerFailReqKeepsInv
<1>6. ASSUME NEW reached, Shutdown(reached)
      PROVE  Inv'
  BY <1>6, ShutdownKeepsInv
<1>7. ASSUME NEW g \in Gates, NEW n \in 0 .. GateMax[g], GateReport(g, n)
      PROVE  Inv'
  BY <1>7, ReportsKeepInv
<1>8. CASE LoginReport
  BY <1>8, ReportsKeepInv
<1> QED
  BY <1>1, <1>2, <1>3, <1>4, <1>5, <1>6, <1>7, <1>8 DEF Command

\* Inv is inductive.
LEMMA NextKeepsInv == Inv /\ [Next]_vars => Inv'
<1> SUFFICES ASSUME Inv, [Next]_vars PROVE Inv'
  OBVIOUS
<1>1. CASE Command
  BY <1>1, CommandKeepsInv
<1>2. CASE Loop
  BY <1>2, LoopKeepsInv
<1>3. CASE UNCHANGED vars
  BY <1>3 DEF Inv, vars, idVars, ctxVars, mapVars, poolVars, loopVars, TypeOK,
       Bookkeeping, NamesAndSessions, QueueExact, PoolSound, Queued, Live
<1> QED
  BY <1>1, <1>2, <1>3 DEF Next

\* Every variable of the logic thread keeps the type of its C++ declaration,
\* after a double free, too: m_iUsedSize wraps within its 16 bits.
THEOREM TypeCorrect == Spec => []TypeOK
<1>1. Inv => TypeOK
  BY DEF Inv
<1> QED
  BY <1>1, InitInv, NextKeepsInv, PTL DEF Spec

\* For any number of accounts, contexts, sessions and servers: as long as no
\* pass of _Loop meets two leaving players, the indexes by name and by session,
\* the finalizing queue and the object pool describe the same set of players.
THEOREM BookkeepingHolds == Spec => []Bookkeeping
<1>1. Inv => Bookkeeping
  BY DEF Inv
<1> QED
  BY <1>1, InitInv, NextKeepsInv, PTL DEF Spec
=============================================================================
