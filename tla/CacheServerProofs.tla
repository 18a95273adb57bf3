-------------------------- MODULE CacheServerProofs -------------------------
(***************************************************************************)
(* Proofs about CacheServer, for any number of contexts, sessions,         *)
(* accounts, avatars and events, whatever the database, the allocations    *)
(* and the sends do.                                                       *)
(***************************************************************************)
EXTENDS CacheServer, TLAPS, FiniteSetTheorems, SequenceTheorems

(* What holds always *)

\* An event is in one place of the pool, and once.
Apart ==
  /\ fresh \cap pending = {}
  /\ \A i \in 1 .. Len(returned) : returned[i] \notin fresh \cup pending
  /\ \A i, j \in 1 .. Len(returned) : returned[i] = returned[j] => i = j

\* The events that ask for one avatar carry it; those not pushed yet, nothing.
Filled ==
  /\ \A e \in Events : UnderWay(e) =>
       /\ e.id \in {"AVATARCREATE", "AVATARSELECTDATA"} => Len(data[e]) = 1
       /\ e.id = "AVATARCREATE" => data[e][1].name \in Names
  /\ \A e \in fresh : data[e] = <<>>

\* The session of an event or a context has been opened for an account.
Opened(s) == dialogue[s] # "out" /\ account[s] \in Accounts
Known ==
  /\ \A e \in Events \ fresh : Opened(e.session)
  /\ \A c \in Contexts : ctx[c].sess # NULL => Opened(ctx[c].sess)

TypeInv == TypeOK /\ Apart /\ Filled /\ Known

-----------------------------------------------------------------------------
(* What holds until a pass of _Loop meets two players *)

\* The states after a region was asked for.
Beyond == {"ONREGIONENTERREQ", "REGIONENTERACK", "ONLOGOUTREQ"}

Owned(a, name) == Owns(a, name) \/ Owns(NULL, name)

\* Avatars that have an id belong to account a, or to nobody.
AllOwned(avatars, a) ==
  \A i \in 1 .. Len(avatars) : avatars[i].id # NULL => Owned(a, avatars[i].id)

\* An event of this id is under way for s, and no second one.
AtMostOne(id, s) ==
  \A e, f \in Events :
    e.id = id /\ f.id = id /\ e.session = s /\ f.session = s /\ UnderWay(e) /\ UnderWay(f)
      => e = f

\* What the states of context c say about the events of its session s.
StateFits(c, s) ==
  /\ OnTheWay("GETAVATARLIST", s) => /\ ctx[c].st = "ONAVATARLISTREQ"
                                     /\ dialogue[s] \in {"listwait", "bye"}
  /\ OnTheWay("AVATARSELECTDATA", s) => ctx[c].st = "ONAVATARSELECTREQ"
  /\ OnTheWay("AVATARENTERREGION", s) => ctx[c].st \in Beyond
  /\ OnTheWay("AVATARFINALIZE", s) => ctx[c].st = "ONLOGOUTREQ"

\* The avatars the master shows are avatars the context knows.
ShownKnown(c, s) ==
  dialogue[s] \in {"list", "createwait"} /\ s \notin failed =>
    \A i \in 1 .. Len(shown[s]) :
      \E j \in 1 .. Len(ctx[c].avatars) : ctx[c].avatars[j].name = shown[s][i]

Waits(id, s) == OnTheWay(id, s) \/ LostFor(id, s) \/ s \in failed \/ ~open

Awaited(c, s) ==
  /\ ctx[c].st = "ONAVATARLISTREQ" => Waits("GETAVATARLIST", s)
  /\ ctx[c].st = "ONAVATARSELECTREQ" => Waits("AVATARSELECTDATA", s)
  /\ ctx[c].st = "ONREGIONENTERREQ" => Waits("AVATARENTERREGION", s)
  /\ ctx[c].st = "ONLOGOUTREQ" => Waits("AVATARFINALIZE", s) \/ ctx[c].fin

Owner(c, s) ==
  /\ AllOwned(ctx[c].avatars, account[s])
  /\ ctx[c].avatar # NULL => Owned(account[s], ctx[c].avatar)

\* Session s, with the context it is filed under or without one.
SessionSound(s) ==
  /\ AtMostOne("GETAVATARLIST", s) /\ AtMostOne("AVATARSELECTDATA", s)
  /\ bySession[s] = NULL => /\ ~OnTheWay("GETAVATARLIST", s)
                            /\ ~OnTheWay("AVATARSELECTDATA", s)
  /\ \A c \in Contexts : bySession[s] = c =>
       StateFits(c, s) /\ ShownKnown(c, s) /\ Awaited(c, s) /\ Owner(c, s)

\* Every row an event has read is of the account it was read for.
EventOwned(e) == AllOwned(data[e], account[e.session])
EventsOwned == \A e \in Events \ fresh : EventOwned(e)

\* Who is to be finalized has logged out.
QueueLoggedOut ==
  \A i \in 1 .. Len(queue) : Live(queue[i]) /\ ctx[queue[i]].st = "ONLOGOUTREQ"

\* Who is in the index by avatar has asked for a region, and plays that avatar.
IndexBeyond ==
  \A a \in Names \cup {NULL}, c \in Contexts : byAvatar[a] = c =>
    Live(c) /\ ctx[c].avatar = a /\ ctx[c].st \in Beyond

\* The body of ContextsExact.
Filed ==
  /\ \A s \in Sessions : bySession[s] # NULL => ctx[bySession[s]].sess = s
  /\ \A c \in Contexts :
       IF Live(c) THEN ctx[c].sess # NULL /\ bySession[ctx[c].sess] = c
       ELSE freeCnt[c] = 1 /\ ctx[c] = Blank
  /\ used = Cardinality({ c \in Contexts : Live(c) })

Sound ==
  /\ Filed /\ EventsOwned /\ QueueLoggedOut /\ IndexBeyond
  /\ \A s \in Sessions : SessionSound(s)

CacheInv == TypeInv /\ (~overrun => Sound)

-----------------------------------------------------------------------------
(* Operators *)

\* An event is named for the state it leads to.
LEMMA Rules ==
  \A s, e : /\ Takes(s, e) <=> <<s, e, e>> \in Transitions
            /\ After(s, e) = IF Takes(s, e) THEN e ELSE s
<1>1. \A t \in Transitions :
        \E s, e : t = <<s, e, e>> /\ t[1] = s /\ t[2] = e /\ t[3] = e /\ e # INVALID
  BY DEF Transitions, Requests, INVALID
<1>2. SUFFICES ASSUME NEW s, NEW e
               PROVE  /\ Takes(s, e) <=> <<s, e, e>> \in Transitions
                      /\ After(s, e) = IF Takes(s, e) THEN e ELSE s
  OBVIOUS
<1>3. <<s, e>> \in DOMAIN Table <=> <<s, e, e>> \in Transitions
  <2>1. ASSUME NEW t \in Transitions, <<t[1], t[2]>> = <<s, e>>
        PROVE  <<s, e, e>> \in Transitions
    BY <1>1, <2>1
  <2>2. DOMAIN Table = { <<t[1], t[2]>> : t \in Transitions }
    BY DEF Table
  <2>3. <<s, e, e>> \in Transitions => <<s, e>> \in DOMAIN Table
    BY <2>2
  <2> QED
    BY <2>1, <2>2, <2>3
<1>4. ASSUME <<s, e, e>> \in Transitions
      PROVE  Table[<<s, e>>] = e /\ e # INVALID
  <2> DEFINE u == CHOOSE t \in Transitions : <<t[1], t[2]>> = <<s, e>>
  <2>1. u \in Transitions /\ <<u[1], u[2]>> = <<s, e>>
    BY <1>4
  <2>2. Table[<<s, e>>] = u[3]
    BY <1>3, <1>4 DEF Table
  <2> HIDE DEF u
  <2> QED
    BY <1>1, <2>1, <2>2
<1> QED
  BY <1>3, <1>4 DEF Takes, After, Result

\* The states each request and each answer is taken in.
LEMMA Machine ==
  ASSUME NEW s
  PROVE  /\ Takes(s, "ONLOGINREQ") <=> s = "NONE"
         /\ Takes(s, "ONAVATARLISTREQ") <=> s \in {"ONLOGINREQ", "AVATARSELECTACK"}
         /\ Takes(s, "AVATARLISTACK") <=> s = "ONAVATARLISTREQ"
         /\ Takes(s, "ONAVATARSELECTREQ") <=> s = "AVATARLISTACK"
         /\ Takes(s, "AVATARSELECTACK") <=> s = "ONAVATARSELECTREQ"
         /\ Takes(s, "ONREGIONENTERREQ") <=> s = "AVATARSELECTACK"
         /\ Takes(s, "REGIONENTERACK") <=> s = "ONREGIONENTERREQ"
         /\ Takes(s, "ONLOGOUTREQ") <=> s \in LogoutFrom
  BY Rules DEF Transitions, Requests

LEMMA StateTypes ==
  /\ {"NONE", "ONLOGINREQ", "ONAVATARLISTREQ", "AVATARLISTACK", "ONAVATARSELECTREQ",
      "AVATARSELECTACK", "ONREGIONENTERREQ", "REGIONENTERACK", "ONLOGOUTREQ"} \subseteq States
  /\ \A s \in States : \A e : After(s, e) \in States
<1>1. \A s, e : <<s, e, e>> \in Transitions => s \in States /\ e \in States
  <2> SUFFICES ASSUME NEW s, NEW e, <<s, e, e>> \in Transitions
               PROVE  s \in States /\ e \in States
    OBVIOUS
  <2>1. <<s, e, e>>[1] = s /\ <<s, e, e>>[3] = e
    OBVIOUS
  <2> QED
    BY <2>1 DEF States
<1>2. Requests \subseteq Transitions /\ \A s \in LogoutFrom : <<s, "ONLOGOUTREQ", "ONLOGOUTREQ">> \in Transitions
  BY DEF Transitions
<1>3. {"NONE", "ONLOGINREQ", "ONAVATARLISTREQ", "AVATARLISTACK", "ONAVATARSELECTREQ",
       "AVATARSELECTACK", "ONREGIONENTERREQ", "REGIONENTERACK", "ONLOGOUTREQ"} \subseteq States
  BY <1>1, <1>2 DEF Requests, LogoutFrom
<1>4. \A s \in States : \A e : After(s, e) \in States
  BY <1>1, Rules
<1> QED
  BY <1>3, <1>4

LEMMA EventType ==
  /\ \A e : e \in Events <=>
       \E i \in EventIds : e \in [id : {i}, session : Sessions, n : 1 .. MaxEvents[i]]
  /\ \A e \in Events : e.id \in EventIds /\ e.session \in Sessions /\ e.n \in 1 .. MaxEvents[e.id]
  /\ \A e, f \in Events : e.id = f.id /\ e.session = f.session /\ e.n = f.n => e = f
<1>1. \A e : e \in Events <=>
        \E i \in EventIds : e \in [id : {i}, session : Sessions, n : 1 .. MaxEvents[i]]
  BY DEF Events
<1> QED
  BY <1>1

LEMMA BlankType == Blank \in ContextRecords
  BY StateTypes, EmptySeq DEF Blank, ContextRecords

\* The first of the events that are left is one event, if there is one.
LEMMA FirstOfFresh ==
  ASSUME TypeOK, NEW id, NEW s
  PROVE  \A e, f \in NextOf(id, s, 1) : e = f
<1> SUFFICES ASSUME NEW e \in NextOf(id, s, 1), NEW f \in NextOf(id, s, 1), e.n < f.n
             PROVE  FALSE
  <2> SUFFICES ASSUME NEW g \in NextOf(id, s, 1), NEW h \in NextOf(id, s, 1)
               PROVE  g = h
    OBVIOUS
  <2>1. g \in Events /\ h \in Events /\ g.id = h.id /\ g.session = h.session
    BY DEF NextOf, FreshOf, TypeOK
  <2>2. g.n \in Int /\ h.n \in Int
    BY <2>1, EventType, CacheAssumption
  <2>3. g.n # h.n \/ g = h
    BY <2>1, EventType
  <2> QED
    BY <2>2, <2>3
<1> DEFINE B == { g \in FreshOf(id, s) : g.n < f.n }
           N == 1 .. MaxEvents[id]
<1>1. e \in B /\ B \subseteq Events /\ f.id = id
  BY DEF NextOf, FreshOf, TypeOK
<1>2. id \in EventIds /\ MaxEvents[id] \in Nat
  BY <1>1, EventType, CacheAssumption DEF NextOf, FreshOf, TypeOK
<1>3. IsFiniteSet(N)
  BY <1>2, FS_Interval
<1>4. [g \in B |-> g.n] \in Injection(B, N)
  <2>1. \A g \in B : g.id = id /\ g.session = s /\ g \in Events
    BY <1>1 DEF FreshOf
  <2>2. \A g \in B : g.n \in N
    BY <2>1, EventType
  <2>3. \A g, h \in B : g.n = h.n => g = h
    BY <2>1, EventType
  <2> HIDE DEF B, N
  <2> QED
    BY <2>2, <2>3 DEF Injection, IsInjective
<1>5. IsFiniteSet(B)
  BY <1>3, <1>4, FS_Injection
<1>6. Cardinality(B) < 1
  BY DEF NextOf
<1>7. Cardinality(B) # 0
  BY <1>1, <1>5, FS_EmptySet
<1>8. Cardinality(B) \in Nat
  BY <1>5, FS_CardinalityType
<1> HIDE DEF B
<1> QED
  BY <1>6, <1>7, <1>8

-----------------------------------------------------------------------------
(* The pool: events of E enter it, events of D are taken out.              *)

PoolTyped ==
  /\ fresh \subseteq Events /\ pending \subseteq Events /\ returned \in Seq(Events)
  /\ consumed \subseteq Events /\ freed \subseteq Events /\ lost \subseteq Events
  /\ open \in BOOLEAN

PoolStep(E, D) ==
  /\ PoolTyped' /\ Apart'
  /\ fresh' = fresh \ E /\ D \cap fresh = {}
  /\ \A f \in Events : UnderWay(f)' => (UnderWay(f) /\ f \notin D) \/ f \in E
  /\ \A f \in Events : (UnderWay(f) /\ f \notin D) \/ f \in E =>
       UnderWay(f)' \/ f \in lost' \/ f \notin Answered \/ ~open'
  /\ lost \subseteq lost' /\ (open' => open)

LEMMA PoolIdle ==
  ASSUME TypeOK, Apart, UNCHANGED poolVars
  PROVE  PoolStep({}, {})
  BY DEF TypeOK, Apart, PoolStep, PoolTyped, poolVars, UnderWay

LEMMA PushEffect ==
  ASSUME TypeOK, Apart, NEW E \in SUBSET fresh, Push(E)
  PROVE  PoolStep(E, {})
<1>1. PoolTyped'
  BY DEF TypeOK, Push, PoolTyped
<1>2. Apart'
  BY DEF TypeOK, Push, Apart
<1>3. \A f \in Events : UnderWay(f)' <=> UnderWay(f) \/ f \in E
  BY DEF Push, UnderWay
<1> QED
  BY <1>1, <1>2, <1>3 DEF PoolStep, Push

\* The first of the returned events is taken off.
LEMMA TailOfReturned ==
  ASSUME TypeOK, Apart, returned # <<>>, returned' = Tail(returned)
  PROVE  /\ Head(returned) \in Events /\ UnderWay(Head(returned))
         /\ Head(returned) \notin fresh \cup pending
         /\ returned' \in Seq(Events)
         /\ \A f : (\E i \in 1 .. Len(returned') : returned'[i] = f) <=>
                   f # Head(returned) /\ \E i \in 1 .. Len(returned) : returned[i] = f
         /\ \A i, j \in 1 .. Len(returned') : returned'[i] = returned'[j] => i = j
<1> DEFINE n == Len(returned)
<1>1. /\ n \in Nat \ {0} /\ Head(returned) = returned[1]
      /\ returned' \in Seq(Events) /\ Len(returned') = n - 1
      /\ \A i \in 1 .. n - 1 : returned'[i] = returned[i + 1]
      /\ \A i \in 1 .. n : returned[i] \in Events
  BY HeadTailProperties, LenProperties, EmptySeq DEF TypeOK
<1>2. /\ \A i \in 1 .. n : returned[i] \notin fresh \cup pending
      /\ \A i, j \in 1 .. n : returned[i] = returned[j] => i = j
  BY DEF Apart
<1>3. \A f : UnderWay(f) <=> f \in pending \/ \E i \in 1 .. n : returned[i] = f
  BY DEF UnderWay
<1> HIDE DEF n
<1>4. 1 \in 1 .. n /\ \A i \in 1 .. n - 1 : i + 1 \in 1 .. n
  BY <1>1
<1>5. \A i \in 1 .. n : i # 1 => \E j \in 1 .. n - 1 : i = j + 1
  <2> TAKE i \in 1 .. n
  <2>1. i # 1 => i - 1 \in 1 .. n - 1 /\ i = (i - 1) + 1
    BY <1>1
  <2> QED
    BY <2>1
<1>6. \A f : (\E i \in 1 .. n - 1 : returned'[i] = f) <=>
             f # returned[1] /\ \E i \in 1 .. n : returned[i] = f
  <2> TAKE f
  <2>1. ASSUME NEW i \in 1 .. n - 1, returned'[i] = f
        PROVE  f # returned[1] /\ \E k \in 1 .. n : returned[k] = f
    <3>1. i + 1 \in 1 .. n /\ i + 1 # 1 /\ returned[i + 1] = f
      BY <1>1, <1>4, <2>1
    <3> QED
      BY <1>2, <1>4, <3>1
  <2>2. ASSUME f # returned[1], NEW i \in 1 .. n, returned[i] = f
        PROVE  \E k \in 1 .. n - 1 : returned'[k] = f
    <3>1. PICK j \in 1 .. n - 1 : i = j + 1
      BY <1>5, <2>2
    <3> QED
      BY <1>1, <2>2, <3>1
  <2> QED
    BY <2>1, <2>2
<1>7. \A i, j \in 1 .. n - 1 : returned'[i] = returned'[j] => i = j
  <2> TAKE i, j \in 1 .. n - 1
  <2>1. returned'[i] = returned'[j] => i + 1 = j + 1
    BY <1>1, <1>2, <1>4
  <2> QED
    BY <1>1, <2>1
<1> QED
  BY <1>1, <1>2, <1>3, <1>4, <1>6, <1>7

LEMMA CollectEffect ==
  ASSUME TypeOK, Apart, NEW E \in SUBSET fresh, CollectAndPush(E)
  PROVE  PoolStep(E, {Head(returned)})
<1>1. /\ Head(returned) \in Events
      /\ Head(returned) \notin fresh \cup pending
      /\ returned' \in Seq(Events)
      /\ \A f : (\E i \in 1 .. Len(returned') : returned'[i] = f) <=>
                f # Head(returned) /\ \E i \in 1 .. Len(returned) : returned[i] = f
      /\ \A i, j \in 1 .. Len(returned') : returned'[i] = returned'[j] => i = j
  BY TailOfReturned DEF CollectAndPush
<1>2. /\ fresh' = fresh \ E /\ pending' = pending \cup E
      /\ consumed' = consumed \cup {Head(returned)}
      /\ UNCHANGED <<freed, lost, open>>
  BY DEF CollectAndPush
<1> DEFINE h == Head(returned)
<1> HIDE DEF h
<1>3. PoolTyped'
  BY <1>1, <1>2 DEF TypeOK, PoolTyped
<1>4. \A i \in 1 .. Len(returned) : returned[i] \notin fresh \cup pending
  BY DEF Apart
<1>5. \A i \in 1 .. Len(returned') : returned'[i] \notin fresh \cup pending
  BY <1>1, <1>4
<1>6. Apart'
  BY <1>1, <1>2, <1>5 DEF Apart
<1>7. \A f \in Events : UnderWay(f)' <=> (UnderWay(f) /\ f # h) \/ f \in E
  BY <1>1, <1>2 DEF UnderWay, h
<1> QED
  BY <1>1, <1>2, <1>3, <1>6, <1>7 DEF PoolStep, h

LEMMA FinishEffect ==
  ASSUME TypeOK, Apart, NEW e \in pending, Finish(e)
  PROVE  PoolStep({}, {})
<1>1. CASE Pool!Return(e)
  <2>1. /\ e \in Events /\ returned' = Append(returned, e) /\ pending' = pending \ {e}
        /\ UNCHANGED <<fresh, consumed, freed, lost, open>>
    BY <1>1 DEF Pool!Return, TypeOK
  <2>2. /\ returned' \in Seq(Events) /\ Len(returned) \in Nat /\ Len(returned') = Len(returned) + 1
        /\ \A i \in 1 .. Len(returned) : returned'[i] = returned[i]
        /\ returned'[Len(returned) + 1] = e
    BY <2>1 DEF TypeOK
  <2>3. 1 .. Len(returned') = 1 .. Len(returned) \cup {Len(returned) + 1}
    BY <2>2
  <2>4. PoolTyped'
    BY <2>1, <2>2 DEF PoolTyped, TypeOK
  <2>5. \A i \in 1 .. Len(returned) : returned[i] # e /\ returned[i] \notin fresh \cup pending
    BY DEF Apart
  <2>6. Apart'
    <3>1. \A i \in 1 .. Len(returned') : returned'[i] \notin fresh' \cup pending'
      BY <2>1, <2>2, <2>3, <2>5 DEF Apart
    <3>2. \A i, j \in 1 .. Len(returned') : returned'[i] = returned'[j] => i = j
      BY <2>2, <2>3, <2>5 DEF Apart
    <3> QED
      BY <2>1, <3>1, <3>2 DEF Apart
  <2>7. \A f : (\E i \in 1 .. Len(returned') : returned'[i] = f) <=>
               f = e \/ \E i \in 1 .. Len(returned) : returned[i] = f
    BY <2>2, <2>3
  <2>8. \A f \in Events : UnderWay(f)' <=> UnderWay(f)
    BY <2>1, <2>7 DEF UnderWay
  <2> QED
    BY <2>1, <2>4, <2>6, <2>8 DEF PoolStep
<1>2. CASE Pool!FreeUnanswered(e)
  <2>1. /\ e \in Events /\ e \notin Answered /\ pending' = pending \ {e} /\ freed' = freed \cup {e}
        /\ UNCHANGED <<fresh, returned, consumed, lost, open>>
    BY <1>2 DEF Pool!FreeUnanswered, TypeOK
  <2>2. PoolTyped' /\ Apart'
    BY <2>1 DEF PoolTyped, TypeOK, Apart
  <2>3. \A f \in Events : UnderWay(f)' <=> UnderWay(f) /\ f # e
    BY <2>1 DEF UnderWay, Apart
  <2> QED
    BY <2>1, <2>2, <2>3 DEF PoolStep
<1>3. CASE Pool!Lose(e)
  <2>1. /\ e \in Events /\ pending' = pending \ {e} /\ lost' = lost \cup {e}
        /\ UNCHANGED <<fresh, returned, consumed, freed, open>>
    BY <1>3 DEF Pool!Lose, TypeOK
  <2>2. PoolTyped' /\ Apart'
    BY <2>1 DEF PoolTyped, TypeOK, Apart
  <2>3. \A f \in Events : UnderWay(f)' <=> UnderWay(f) /\ f # e
    BY <2>1 DEF UnderWay, Apart
  <2> QED
    BY <2>1, <2>2, <2>3 DEF PoolStep
<1> QED
  BY <1>1, <1>2, <1>3 DEF Finish

LEMMA CloseEffect ==
  ASSUME TypeOK, Apart, Pool!Close
  PROVE  PoolStep({}, {})
<1>1. /\ open' = FALSE /\ pending' = {} /\ returned' = <<>>
      /\ freed' = freed \cup pending \cup {returned[i] : i \in 1 .. Len(returned)}
      /\ UNCHANGED <<fresh, consumed, lost>>
  BY DEF Pool!Close, Pool!InList
<1>2. Len(returned') = 0 /\ returned' \in Seq(Events)
  BY <1>1, EmptySeq
<1>3. \A i \in 1 .. Len(returned) : returned[i] \in Events
  BY ElementOfSeq DEF TypeOK
<1>4. PoolTyped'
  <2>1. freed' \subseteq Events
    BY <1>1, <1>3 DEF TypeOK
  <2> QED
    BY <1>1, <1>2, <2>1 DEF PoolTyped, TypeOK
<1>5. Apart'
  BY <1>1, <1>2 DEF Apart
<1>6. \A f \in Events : ~UnderWay(f)'
  BY <1>1, <1>2 DEF UnderWay
<1> QED
  BY <1>1, <1>4, <1>5, <1>6 DEF PoolStep

-----------------------------------------------------------------------------
(* What holds always, step by step *)

\* The session and the data of the events that enter are as they should be.
Entering(E) ==
  /\ E \subseteq fresh
  /\ \A e \in E :
       /\ Opened(e.session)
       /\ e.id \in {"AVATARCREATE", "AVATARSELECTDATA"} => Len(data'[e]) = 1
       /\ e.id = "AVATARCREATE" => data'[e][1].name \in Names

SessionsStay ==
  /\ \A s \in Sessions : Opened(s) => Opened(s)'
  /\ \A c \in Contexts :
       \/ ctx'[c].sess = ctx[c].sess \/ ctx'[c].sess = NULL
       \/ \E s \in Sessions : ctx'[c].sess = s /\ Opened(s)'

LEMMA AlwaysKept ==
  ASSUME TypeInv, NEW E, NEW D, PoolStep(E, D), Entering(E), SessionsStay, TypeOK',
         \A e \in Events : e \notin E \cup D => data'[e] = data[e]
  PROVE  TypeInv'
<1>1. Filled'
  <2> SUFFICES ASSUME NEW e \in Events, UnderWay(e)'
               PROVE  /\ e.id \in {"AVATARCREATE", "AVATARSELECTDATA"} => Len(data'[e]) = 1
                      /\ e.id = "AVATARCREATE" => data'[e][1].name \in Names
    <3>1. \A e \in fresh' : e \in fresh /\ e \in Events /\ data'[e] = data[e]
      BY DEF PoolStep, TypeInv, TypeOK
    <3>2. \A e \in fresh' : data'[e] = <<>>
      BY <3>1 DEF TypeInv, Filled
    <3> QED
      BY <3>2 DEF Filled
  <2>1. CASE e \in E
    BY <2>1 DEF Entering
  <2>2. CASE e \notin E
    <3>1. UnderWay(e) /\ e \notin D
      BY <2>2 DEF PoolStep
    <3>2. data'[e] = data[e]
      BY <2>2, <3>1
    <3> QED
      BY <3>1, <3>2 DEF TypeInv, Filled
  <2> QED
    BY <2>1, <2>2
<1>2. \A e \in Events \ fresh' : Opened(e.session)'
  BY EventType DEF PoolStep, Entering, SessionsStay, TypeInv, Known
<1>3. \A c \in Contexts : ctx'[c].sess # NULL =>
        \E s \in Sessions : ctx'[c].sess = s /\ Opened(s)'
  <2> SUFFICES ASSUME NEW c \in Contexts, ctx'[c].sess # NULL, ctx'[c].sess = ctx[c].sess
               PROVE  \E s \in Sessions : ctx'[c].sess = s /\ Opened(s)'
    BY DEF SessionsStay
  <2>1. ctx[c].sess \in Sessions /\ Opened(ctx[c].sess)
    BY DEF TypeInv, Known, TypeOK, ContextRecords
  <2>2. PICK s \in Sessions : s = ctx[c].sess
    BY <2>1
  <2>3. Opened(s)'
    BY <2>1, <2>2 DEF SessionsStay
  <2> QED
    BY <2>2, <2>3
<1>4. Known'
  BY <1>2, <1>3, Zenon DEF Known, Opened
<1> QED
  BY <1>1, <1>4 DEF TypeInv, PoolStep

LEMMA TypeInit == Init => TypeInv
<1> SUFFICES ASSUME Init PROVE TypeInv
  OBVIOUS
<1>1. Blank \in ContextRecords
  BY BlankType
<1>2. TypeOK
  BY <1>1, EmptySeq DEF Init, TypeOK, Pool!PoolInit, DialogueStates
<1>3. Apart /\ Filled
  BY DEF Init, Apart, Filled, Pool!PoolInit, UnderWay
<1>4. Known
  BY DEF Init, Known, Pool!PoolInit, Blank
<1> QED
  BY <1>2, <1>3, <1>4 DEF TypeInv

\* An event of this id is pushed for context c, or cannot be had.
Pushed(E, c, id, args, alloc) ==
  /\ E \subseteq fresh /\ PoolStep(E, {})
  /\ \A e \in E : e.id = id /\ e.session = ctx[c].sess
  /\ \A e, f \in E : e = f
  /\ IF alloc = id THEN E = {} ELSE E # {}
  /\ \A e \in Events : data'[e] = IF e \in E THEN args ELSE data[e]
  /\ data' \in [Events -> Seq(AvatarRecords)]
  /\ failed' = IF alloc = id THEN failed \cup {ctx[c].sess} ELSE failed
  /\ failed' \subseteq Sessions \cup {NULL}
  /\ UNCHANGED <<fired, bad, dbAccounts, dbAvatars, wild>>

LEMMA PushForEffect ==
  ASSUME TypeInv, NEW c \in Contexts, NEW id \in EventIds, NEW args \in Seq(AvatarRecords),
         NEW alloc, PushFor(c, id, args, alloc)
  PROVE  \E E : Pushed(E, c, id, args, alloc)
<1> DEFINE E == IF alloc = id THEN {} ELSE NextOf(id, ctx[c].sess, 1)
<1>1. /\ alloc # id => E # {}
      /\ Push(E)
      /\ data' = [e \in Events |-> IF e \in E THEN args ELSE data[e]]
      /\ failed' = IF alloc = id THEN failed \cup {ctx[c].sess} ELSE failed
      /\ UNCHANGED <<fired, bad, dbAccounts, dbAvatars, wild>>
  BY DEF PushFor
<1>2. \A e, f \in NextOf(id, ctx[c].sess, 1) : e = f
  BY FirstOfFresh DEF TypeInv
<1>3. \A e \in NextOf(id, ctx[c].sess, 1) : e \in fresh /\ e.id = id /\ e.session = ctx[c].sess
  BY DEF NextOf, FreshOf
<1>4. alloc = id => E = {}
  OBVIOUS
<1>5. \A e \in E : e \in NextOf(id, ctx[c].sess, 1)
  OBVIOUS
<1> HIDE DEF E
<1>6. PoolStep(E, {})
  BY <1>1, <1>3, <1>5, PushEffect DEF TypeInv
<1>7. data \in [Events -> Seq(AvatarRecords)]
  BY DEF TypeInv, TypeOK
<1>8. data' \in [Events -> Seq(AvatarRecords)]
  BY <1>1, <1>7
<1>9. ctx[c].sess \in Sessions \cup {NULL} /\ failed \subseteq Sessions \cup {NULL}
  BY DEF TypeInv, TypeOK, ContextRecords
<1>10. failed' \subseteq Sessions \cup {NULL}
  BY <1>1, <1>9
<1>11. \A e \in Events : data'[e] = IF e \in E THEN args ELSE data[e]
  BY <1>1
<1>12. Pushed(E, c, id, args, alloc)
  BY <1>1, <1>2, <1>3, <1>4, <1>5, <1>6, <1>8, <1>10, <1>11 DEF Pushed
<1> QED
  BY <1>12

\* Context c takes an event of the machine.
Moved(c, t) ==
  /\ ctx' \in [Contexts -> ContextRecords]
  /\ \A d \in Contexts : d # c => ctx'[d] = ctx[d]
  /\ ctx'[c].st = t
  /\ ctx'[c].sess = ctx[c].sess /\ ctx'[c].avatars = ctx[c].avatars
  /\ ctx'[c].avatar = ctx[c].avatar /\ ctx'[c].fin = ctx[c].fin

LEMMA StepMoves ==
  ASSUME TypeOK, NEW c \in Contexts, NEW event, Takes(ctx[c].st, event), ctx' = Step(c, event)
  PROVE  Moved(c, event)
<1>1. ctx \in [Contexts -> ContextRecords] /\ ctx[c].st \in States
  BY DEF TypeOK, ContextRecords
<1>2. After(ctx[c].st, event) \in States /\ After(ctx[c].st, event) = event
  BY <1>1, StateTypes, Rules
<1> QED
  BY <1>1, <1>2 DEF Step, Moved, ContextRecords

-----------------------------------------------------------------------------
(* What holds until two players meet: steps that session s hardly sees.    *)

\* Events that no state waits for.
Side == {"AVATARSAVEDATA", "AVATARLOGOUT", "AVATARCREATE"}

RowsKept == \A a \in Accounts \cup {NULL}, n \in Names : Owns(a, n) => Owns(a, n)'

\* The context keeps its state, and the events it waits for.
Steady(s, E, D) ==
  /\ bySession'[s] = bySession[s]
  /\ \A c \in Contexts : bySession[s] = c =>
       ctx'[c].st = ctx[c].st /\ (ctx[c].fin => ctx'[c].fin)
  /\ dialogue[s] \in {"listwait", "bye"} => dialogue'[s] \in {"listwait", "bye"}
  /\ s \in failed => s \in failed'
  /\ \A e \in E : e.session = s => e.id \in Side
  /\ \A e \in D : e.session = s =>
       \/ e.id \in Side \/ bySession[s] = NULL
       \/ e.id = "AVATARFINALIZE" /\ \A c \in Contexts : bySession[s] = c => ctx'[c].fin

\* The master shows the player no more than before.
ShowsNoMore(s) ==
  dialogue'[s] \in {"list", "createwait"} /\ s \notin failed' =>
    dialogue[s] \in {"list", "createwait"} /\ s \notin failed /\ shown'[s] = shown[s]

\* Its avatars stay the same, too.
Unaffected(s, E, D) ==
  /\ Steady(s, E, D) /\ ShowsNoMore(s) /\ account'[s] = account[s]
  /\ \A c \in Contexts : bySession[s] = c =>
       ctx'[c].avatars = ctx[c].avatars /\ ctx'[c].avatar = ctx[c].avatar

LEMMA OwnedKept ==
  ASSUME TypeOK, RowsKept, NEW avatars \in Seq(AvatarRecords), NEW a \in Accounts \cup {NULL},
         AllOwned(avatars, a)
  PROVE  /\ \A i \in 1 .. Len(avatars) : avatars[i].id # NULL => Owned(a, avatars[i].id)'
         /\ \A n \in Names : Owned(a, n) => Owned(a, n)'
<1>1. \A i \in 1 .. Len(avatars) : avatars[i].id \in Names \cup {NULL}
  <2>1. \A i \in 1 .. Len(avatars) : avatars[i] \in AvatarRecords
    OBVIOUS
  <2> QED
    BY <2>1 DEF AvatarRecords
<1>2. \A n \in Names : Owned(a, n) => Owned(a, n)'
  BY DEF Owned, RowsKept
<1>3. \A i \in 1 .. Len(avatars) : avatars[i].id # NULL => Owned(a, avatars[i].id)'
  <2> SUFFICES ASSUME NEW i \in 1 .. Len(avatars), avatars[i].id # NULL
               PROVE  Owned(a, avatars[i].id)'
    OBVIOUS
  <2>1. PICK n \in Names : n = avatars[i].id
    BY <1>1
  <2>2. Owned(a, n)'
    BY <1>2, <2>1 DEF AllOwned
  <2> QED
    BY <2>1, <2>2
<1> QED
  BY <1>2, <1>3

\* A player that keeps its avatars keeps the right to them.
LEMMA OwnerKept ==
  ASSUME TypeOK, RowsKept, NEW s \in Sessions, NEW c \in Contexts, Owner(c, s),
         account'[s] = account[s],
         ctx'[c].avatars = ctx[c].avatars, ctx'[c].avatar = ctx[c].avatar
  PROVE  Owner(c, s)'
<1>1. /\ ctx[c].avatars \in Seq(AvatarRecords) /\ ctx[c].avatar \in Names \cup {NULL}
      /\ account[s] \in Accounts \cup {NULL}
  BY DEF TypeOK, ContextRecords
<1>2. PICK a \in Accounts \cup {NULL} : a = account[s] /\ a = account'[s]
  BY <1>1
<1>3. PICK r \in Seq(AvatarRecords) : r = ctx[c].avatars
  BY <1>1
<1>4. AllOwned(r, a) /\ (ctx[c].avatar # NULL => Owned(a, ctx[c].avatar))
  BY <1>2, <1>3 DEF Owner
<1>5. /\ \A i \in 1 .. Len(r) : r[i].id # NULL => Owned(a, r[i].id)'
      /\ \A n \in Names : Owned(a, n) => Owned(a, n)'
  BY <1>4, OwnedKept
<1>6. AllOwned(r, a)'
  BY <1>5 DEF AllOwned
<1>7. ASSUME NEW n \in Names, ctx'[c].avatar = n PROVE Owned(a, n)'
  BY <1>1, <1>4, <1>5, <1>7, CacheAssumption
<1>8. AllOwned(ctx[c].avatars, account[s])'
  BY <1>1, <1>2, <1>3, <1>6
<1>9. ctx'[c].avatar # NULL => \E n \in Names : ctx'[c].avatar = n
  BY <1>1
<1> QED
  BY <1>2, <1>7, <1>8, <1>9 DEF Owner

LEMMA SteadyKeeps ==
  ASSUME TypeOK, NEW s \in Sessions, NEW E, NEW D,
         PoolStep(E, D), Steady(s, E, D), SessionSound(s),
         \A c \in Contexts : bySession[s] = c => ShownKnown(c, s)' /\ Owner(c, s)'
  PROVE  SessionSound(s)'
<1>1. \A id \in EventIds \ Side : OnTheWay(id, s)' => OnTheWay(id, s)
  BY DEF PoolStep, Steady, OnTheWay
<1>2. \A id \in EventIds \ Side : AtMostOne(id, s) => AtMostOne(id, s)'
  BY DEF PoolStep, Steady, AtMostOne
<1>3. {"GETAVATARLIST", "AVATARSELECTDATA", "AVATARENTERREGION", "AVATARFINALIZE"}
        \subseteq EventIds \ Side
  BY DEF EventIds, Side
<1>4. ASSUME NEW c \in Contexts, bySession'[s] = c
      PROVE  (StateFits(c, s) /\ ShownKnown(c, s) /\ Awaited(c, s) /\ Owner(c, s))'
  <2>1. /\ bySession[s] = c /\ ctx'[c].st = ctx[c].st
        /\ ctx[c].fin => ctx'[c].fin
    BY <1>4 DEF Steady
  <2>2. StateFits(c, s) /\ Awaited(c, s)
    BY <2>1 DEF SessionSound
  <2>3. StateFits(c, s)'
    BY <1>1, <1>3, <2>1, <2>2 DEF StateFits, Steady
  <2>4. \A id \in EventIds \ Side : Waits(id, s) => Waits(id, s)' \/ (id = "AVATARFINALIZE" /\ ctx'[c].fin)
    <3> SUFFICES ASSUME NEW id \in EventIds \ Side, Waits(id, s), s \notin failed', open',
                        ~(id = "AVATARFINALIZE" /\ ctx'[c].fin)
                 PROVE  OnTheWay(id, s)' \/ LostFor(id, s)'
      BY DEF Waits
    <3>1. open /\ s \notin failed
      BY DEF PoolStep, Steady
    <3>2. CASE LostFor(id, s)
      BY <3>2 DEF LostFor, PoolStep
    <3>3. CASE OnTheWay(id, s)
      <4>1. PICK e \in Events : e.id = id /\ e.session = s /\ UnderWay(e)
        BY <3>3 DEF OnTheWay
      <4>2. e \notin D
        BY <2>1, <4>1, CacheAssumption DEF Steady
      <4>3. e \in Answered
        BY <4>1 DEF Answered, Side
      <4>4. UnderWay(e)' \/ e \in lost'
        BY <4>1, <4>2, <4>3 DEF PoolStep
      <4> QED
        BY <4>1, <4>4 DEF OnTheWay, LostFor
    <3> QED
      BY <3>1, <3>2, <3>3 DEF Waits
  <2>5. Awaited(c, s)'
    BY <1>3, <2>1, <2>2, <2>4 DEF Awaited
  <2> QED
    BY <2>1, <2>3, <2>5
<1>5. bySession'[s] = NULL => ~OnTheWay("GETAVATARLIST", s)' /\ ~OnTheWay("AVATARSELECTDATA", s)'
  BY <1>1, <1>3 DEF SessionSound, Steady
<1>6. AtMostOne("GETAVATARLIST", s)' /\ AtMostOne("AVATARSELECTDATA", s)'
  BY <1>2, <1>3 DEF SessionSound
<1> QED
  BY <1>4, <1>5, <1>6 DEF SessionSound

LEMMA UnaffectedKeeps ==
  ASSUME TypeOK, NEW s \in Sessions, NEW E, NEW D,
         PoolStep(E, D), Unaffected(s, E, D), RowsKept, SessionSound(s)
  PROVE  SessionSound(s)'
<1>1. ASSUME NEW c \in Contexts, bySession[s] = c
      PROVE  ShownKnown(c, s)' /\ Owner(c, s)'
  <2>1. /\ ctx'[c].avatars = ctx[c].avatars /\ ctx'[c].avatar = ctx[c].avatar
        /\ account'[s] = account[s]
    BY <1>1 DEF Unaffected
  <2>2. ShownKnown(c, s) /\ Owner(c, s)
    BY <1>1 DEF SessionSound
  <2>3. ShownKnown(c, s)'
    BY <2>1, <2>2 DEF ShownKnown, Unaffected, ShowsNoMore
  <2> QED
    BY <2>1, <2>2, <2>3, OwnerKept
<1>2. Steady(s, E, D)
  BY DEF Unaffected
<1> QED
  BY <1>1, <1>2, SteadyKeeps

\* The players in use stay in use, and keep what the queue and the index by
\* avatar say about them.
ContextsStay ==
  /\ UNCHANGED <<bySession, freeCnt, used>>
  /\ \A c \in Contexts :
       /\ ctx'[c].sess = ctx[c].sess
       /\ ~Live(c) => ctx'[c] = ctx[c]
       /\ ctx[c].st = "ONLOGOUTREQ" => ctx'[c].st = "ONLOGOUTREQ"
       /\ ctx[c].st \in Beyond => ctx'[c].st \in Beyond /\ ctx'[c].avatar = ctx[c].avatar

LEMMA StayKeeps ==
  ASSUME TypeOK, ContextsStay, Filed
  PROVE  /\ Filed'
         /\ QueueLoggedOut /\ UNCHANGED queue => QueueLoggedOut'
         /\ IndexBeyond /\ UNCHANGED byAvatar => IndexBeyond'
<1>1. \A c \in Contexts : Live(c)' <=> Live(c)
  BY DEF ContextsStay, Live
<1>2. Filed'
  <2>1. \A s \in Sessions : bySession'[s] # NULL => ctx'[bySession'[s]].sess = s
    <3>1. bySession' = bySession /\ \A c \in Contexts : ctx'[c].sess = ctx[c].sess
      BY DEF ContextsStay
    <3>2. \A s \in Sessions : bySession[s] # NULL =>
            bySession[s] \in Contexts /\ ctx[bySession[s]].sess = s
      BY DEF Filed, TypeOK
    <3> QED
      BY <3>1, <3>2
  <2>2. \A c \in Contexts :
          IF Live(c)' THEN ctx'[c].sess # NULL /\ bySession'[ctx'[c].sess] = c
          ELSE freeCnt'[c] = 1 /\ ctx'[c] = Blank
    BY <1>1 DEF Filed, ContextsStay
  <2>3. {c \in Contexts : Live(c)}' = {c \in Contexts : Live(c)}
    BY <1>1
  <2>4. used' = Cardinality({c \in Contexts : Live(c)}')
    BY <2>3, Zenon DEF Filed, ContextsStay
  <2> QED
    BY <2>1, <2>2, <2>4 DEF Filed, Blank
<1>3. QueueLoggedOut /\ UNCHANGED queue => QueueLoggedOut'
  BY <1>1 DEF QueueLoggedOut, ContextsStay, TypeOK
<1>4. IndexBeyond /\ UNCHANGED byAvatar => IndexBeyond'
  BY <1>1 DEF IndexBeyond, ContextsStay
<1> QED
  BY <1>2, <1>3, <1>4

LEMMA EventsOwnedKept ==
  ASSUME TypeInv, EventsOwned, RowsKept,
         \A s \in Sessions : Opened(s) => account'[s] = account[s],
         \A e \in Events \ fresh' : (e \notin fresh /\ data'[e] = data[e]) \/ EventOwned(e)'
  PROVE  EventsOwned'
<1> SUFFICES ASSUME NEW e \in Events \ fresh', e \notin fresh, data'[e] = data[e]
             PROVE  EventOwned(e)'
  BY DEF EventsOwned
<1>1. e.session \in Sessions /\ Opened(e.session) /\ EventOwned(e)
  BY EventType DEF EventsOwned, TypeInv, Known
<1>2. data[e] \in Seq(AvatarRecords)
  BY DEF TypeInv, TypeOK
<1>3. PICK a \in Accounts : a = account[e.session] /\ a = account'[e.session]
  BY <1>1 DEF Opened
<1>4. PICK r \in Seq(AvatarRecords) : r = data[e] /\ r = data'[e]
  BY <1>2
<1>5. AllOwned(r, a)
  BY <1>1, <1>3, <1>4 DEF EventOwned
<1>6. \A i \in 1 .. Len(r) : r[i].id # NULL => Owned(a, r[i].id)'
  BY <1>5, OwnedKept DEF TypeInv
<1>7. AllOwned(r, a)'
  BY <1>6 DEF AllOwned
<1> QED
  BY <1>3, <1>4, <1>7 DEF EventOwned

\* A step that goes past a session keeps it sound; the others are looked after
\* one by one.
LEMMA SoundKept ==
  ASSUME TypeInv, Sound, NEW E, NEW D, PoolStep(E, D), RowsKept, ContextsStay,
         QueueLoggedOut' \/ UNCHANGED queue, IndexBeyond' \/ UNCHANGED byAvatar,
         \A s \in Sessions : Opened(s) => account'[s] = account[s],
         \A e \in Events \ fresh' : (e \notin fresh /\ data'[e] = data[e]) \/ EventOwned(e)',
         \A s \in Sessions : Unaffected(s, E, D) \/ SessionSound(s)'
  PROVE  Sound'
<1>1. TypeOK /\ Filed /\ QueueLoggedOut /\ IndexBeyond /\ EventsOwned
  BY DEF TypeInv, Sound
<1>2. Filed' /\ QueueLoggedOut' /\ IndexBeyond'
  BY <1>1, StayKeeps
<1>3. EventsOwned'
  BY <1>1, EventsOwnedKept
<1>4. \A s \in Sessions : SessionSound(s)'
  BY <1>1, UnaffectedKeeps DEF Sound
<1> QED
  BY <1>2, <1>3, <1>4 DEF Sound

\* A context with nothing under way that its state waits for asks the database.
LEMMA AskKeeps ==
  ASSUME TypeInv, NEW s \in Sessions, NEW c \in Contexts, NEW id, NEW t, NEW args, NEW alloc, NEW E,
         bySession[s] = c, ctx[c].sess = s, SessionSound(s),
         ctx[c].st \in {"ONLOGINREQ", "AVATARLISTACK", "AVATARSELECTACK"},
         \/ id = "GETAVATARLIST" /\ t = "ONAVATARLISTREQ"
         \/ id = "AVATARSELECTDATA" /\ t = "ONAVATARSELECTREQ"
         \/ id = "AVATARENTERREGION" /\ t = "ONREGIONENTERREQ",
         Pushed(E, c, id, args, alloc), Moved(c, t), UNCHANGED <<bySession, account>>,
         id = "GETAVATARLIST" => alloc = id \/ dialogue'[s] \in {"listwait", "bye"},
         ShowsNoMore(s)
  PROVE  SessionSound(s)'
<1>1. /\ StateFits(c, s) /\ ShownKnown(c, s) /\ Awaited(c, s) /\ Owner(c, s)
      /\ AtMostOne("GETAVATARLIST", s) /\ AtMostOne("AVATARSELECTDATA", s)
  BY DEF SessionSound
<1>2. /\ ~OnTheWay("GETAVATARLIST", s) /\ ~OnTheWay("AVATARSELECTDATA", s)
      /\ ~OnTheWay("AVATARENTERREGION", s) /\ ~OnTheWay("AVATARFINALIZE", s)
  BY <1>1 DEF StateFits, Beyond
<1>3. \A i : OnTheWay(i, s)' => OnTheWay(i, s) \/ (i = id /\ alloc # id)
  BY DEF Pushed, PoolStep, OnTheWay
<1>4. AtMostOne("GETAVATARLIST", s)' /\ AtMostOne("AVATARSELECTDATA", s)'
  <2>1. \A e \in Events :
          /\ e.id \in {"GETAVATARLIST", "AVATARSELECTDATA"} /\ e.session = s /\ UnderWay(e)'
          => e \in E
    BY <1>2 DEF OnTheWay, Pushed, PoolStep
  <2>2. \A e, f \in E : e = f
    BY DEF Pushed
  <2> QED
    BY <2>1, <2>2 DEF AtMostOne
<1>5. StateFits(c, s)'
  BY <1>2, <1>3 DEF StateFits, Moved, Beyond
<1>6. ShownKnown(c, s)'
  BY <1>1 DEF ShownKnown, ShowsNoMore, Moved
<1>7. Waits(id, s)'
  <2>1. CASE alloc = id
    BY <2>1 DEF Pushed, Waits
  <2>2. CASE alloc # id
    <3>1. PICK e \in E : e \in Events /\ e.id = id /\ e.session = s
      BY <2>2 DEF Pushed, TypeInv, TypeOK
    <3>2. e \in Answered
      BY <3>1 DEF Answered
    <3>3. UnderWay(e)' \/ e \in lost' \/ ~open'
      BY <3>1, <3>2 DEF Pushed, PoolStep
    <3> QED
      BY <3>1, <3>3 DEF Waits, OnTheWay, LostFor
  <2> QED
    BY <2>1, <2>2
<1>8. Awaited(c, s)'
  BY <1>7 DEF Awaited, Moved
<1>9. Owner(c, s)'
  <2>1. RowsKept
    BY DEF Pushed, RowsKept, Owns
  <2> QED
    BY <1>1, <2>1, OwnerKept DEF Moved, TypeInv
<1> QED
  BY <1>4, <1>5, <1>6, <1>8, <1>9, CacheAssumption DEF SessionSound

\* Where a request reaches its context.
LEMMA Reached ==
  ASSUME TypeInv, NEW s \in Sessions, NEW event, ~Refused(s, event)
  PROVE  /\ bySession[s] \in Contexts /\ Takes(ctx[bySession[s]].st, event)
         /\ Sound => ctx[bySession[s]].sess = s /\ Live(bySession[s])
<1>1. bySession[s] \in Contexts /\ bySession[s] # NULL /\ Takes(ctx[bySession[s]].st, event)
  BY DEF Refused, TypeInv, TypeOK
<1>2. PICK c \in Contexts : c = bySession[s]
  BY <1>1
<1>3. ASSUME Sound PROVE ctx[c].sess = s /\ Live(c)
  <2>1. ctx[c].sess = s
    BY <1>1, <1>2, <1>3 DEF Sound, Filed
  <2>2. s # NULL
    BY CacheAssumption
  <2> QED
    BY <1>2, <1>3, <2>1, <2>2 DEF Sound, Filed, Blank
<1> QED
  BY <1>1, <1>2, <1>3

-----------------------------------------------------------------------------
(* Commands *)

\* The master goes on in its dialogues, and nothing new is shown.
DialogueGoesOn ==
  /\ dialogue' \in [Sessions -> DialogueStates]
  /\ \A t \in Sessions :
       /\ dialogue[t] # "out" => dialogue'[t] # "out"
       /\ dialogue[t] \in {"listwait", "bye"} => dialogue'[t] \in {"listwait", "bye"}
       /\ dialogue'[t] \in {"list", "createwait"} => dialogue[t] \in {"list", "createwait"}

\* A command that the cache does not act on.
LEMMA RefusedKeeps ==
  ASSUME TypeInv, NoPush, UNCHANGED <<ctx, mapVars, queue, overrun, account, shown>>,
         UNCHANGED <<status, inLoop>> \/ (status' = "START_SHUTDOWN" /\ UNCHANGED inLoop),
         entering' \subseteq Sessions, DialogueGoesOn
  PROVE  TypeInv' /\ (Sound => Sound')
<1>1. PoolStep({}, {})
  BY PoolIdle DEF TypeInv, NoPush
<1>2. UNCHANGED <<dbVars, failed>> /\ UNCHANGED poolVars
  BY DEF NoPush
<1>3. TypeOK'
  BY <1>1, <1>2 DEF TypeInv, TypeOK, PoolStep, PoolTyped, mapVars, dbVars, DialogueGoesOn
<1>4. Entering({}) /\ SessionsStay
  BY DEF Entering, SessionsStay, Opened, DialogueGoesOn
<1>5. TypeInv'
  BY <1>1, <1>2, <1>3, <1>4, AlwaysKept DEF dbVars
<1>6. RowsKept /\ ContextsStay
  BY <1>2 DEF dbVars, mapVars, RowsKept, Owns, ContextsStay
<1>7. \A s \in Sessions : Unaffected(s, {}, {})
  BY <1>2 DEF Unaffected, Steady, ShowsNoMore, DialogueGoesOn, mapVars
<1>8. \A e \in Events \ fresh' : e \notin fresh /\ data'[e] = data[e]
  BY <1>2 DEF dbVars, poolVars
<1>9. Sound => Sound'
  BY <1>1, <1>6, <1>7, <1>8, SoundKept DEF mapVars
<1> QED
  BY <1>5, <1>9

\* A command for which context c asks the database.
LEMMA AskedTyped ==
  ASSUME TypeInv, NEW s \in Sessions, NEW c \in Contexts, NEW id \in EventIds, NEW args, NEW alloc,
         NEW E, Pushed(E, c, id, args, alloc),
         id \in {"AVATARCREATE", "AVATARSELECTDATA"} => Len(args) = 1,
         id = "AVATARCREATE" => args[1].name \in Names,
         ctx' \in [Contexts -> ContextRecords],
         \A d \in Contexts : ctx'[d].sess = ctx[d].sess,
         UNCHANGED <<mapVars, loopVars, account>>, entering' \subseteq Sessions,
         dialogue' \in [Sessions -> DialogueStates],
         \A t \in Sessions : dialogue[t] # "out" => dialogue'[t] # "out",
         shown' \in [Sessions -> Seq(Names \cup {NULL})]
  PROVE  TypeInv'
<1>1. /\ PoolStep(E, {}) /\ UNCHANGED <<fired, bad, dbAccounts, dbAvatars, wild>>
      /\ data' \in [Events -> Seq(AvatarRecords)]
      /\ failed' \subseteq Sessions \cup {NULL}
  BY DEF Pushed
<1>2. TypeOK'
  BY <1>1 DEF TypeInv, TypeOK, PoolStep, PoolTyped, mapVars, loopVars
<1>3. \A e \in E : e \in Events /\ e.id = id /\ e.session = ctx[c].sess /\ data'[e] = args
  BY DEF Pushed, TypeInv, TypeOK
<1>4. \A e \in E : Opened(e.session)
  <2> SUFFICES ASSUME NEW e \in E PROVE Opened(e.session)
    OBVIOUS
  <2>1. e.session \in Sessions /\ e.session = ctx[c].sess
    BY <1>3, EventType
  <2> QED
    BY <2>1, CacheAssumption DEF TypeInv, Known
<1>5. Entering(E)
  BY <1>3, <1>4 DEF Entering, Pushed
<1>6. SessionsStay
  BY DEF SessionsStay, Opened
<1>7. \A e \in Events : e \notin E \cup {} => data'[e] = data[e]
  BY DEF Pushed
<1> QED
  BY <1>1, <1>2, <1>5, <1>6, <1>7, AlwaysKept

LEMMA AskedSound ==
  ASSUME TypeInv, Sound, NEW s \in Sessions, NEW c \in Contexts, NEW id \in EventIds, NEW args,
         NEW alloc, NEW E, bySession[s] = c, ctx[c].sess = s,
         Pushed(E, c, id, args, alloc), AllOwned(args, account[s]),
         ContextsStay, UNCHANGED <<mapVars, loopVars, account>>,
         \A d \in Contexts : d # c => ctx'[d] = ctx[d],
         \A t \in Sessions : t # s => dialogue'[t] = dialogue[t] /\ shown'[t] = shown[t],
         Unaffected(s, E, {}) \/ SessionSound(s)'
  PROVE  Sound'
<1>1. /\ PoolStep(E, {}) /\ dbAvatars' = dbAvatars
      /\ \A e \in E : e \in fresh /\ e.id = id /\ e.session = s /\ data'[e] = args
      /\ \A e \in Events \ E : data'[e] = data[e]
      /\ fresh' = fresh \ E /\ E \subseteq Events
  BY DEF Pushed, PoolStep, TypeInv, TypeOK
<1>2. RowsKept
  BY <1>1 DEF RowsKept, Owns
<1>3. \A e \in Events \ fresh' : (e \notin fresh /\ data'[e] = data[e]) \/ EventOwned(e)'
  <2> SUFFICES ASSUME NEW e \in E PROVE EventOwned(e)'
    BY <1>1
  <2>1. AllOwned(args, account[s])'
    BY <1>1, Zenon DEF AllOwned, Owned, Owns
  <2> QED
    BY <1>1, <2>1 DEF EventOwned
<1>4. ASSUME NEW t \in Sessions, t # s PROVE Unaffected(t, E, {})
  <2>1. \A d \in Contexts : bySession[t] = d => d # c
    BY <1>4, CacheAssumption DEF Sound, Filed
  <2>2. t \in failed <=> t \in failed'
    BY <1>4 DEF Pushed
  <2> QED
    BY <1>1, <1>4, <2>1, <2>2 DEF Unaffected, Steady, ShowsNoMore, mapVars
<1> QED
  BY <1>1, <1>2, <1>3, <1>4, SoundKept DEF mapVars, loopVars

\* Moving on from a state before a region was asked for.
LEMMA MoveStays ==
  ASSUME TypeInv, NEW c \in Contexts, NEW t, Live(c), Moved(c, t), UNCHANGED <<bySession, freeCnt, used>>,
         ctx[c].st # "ONLOGOUTREQ", ctx[c].st \in Beyond => t \in Beyond
  PROVE  ContextsStay
  BY DEF Moved, ContextsStay

LEMMA OnAvatarListReqKeeps ==
  ASSUME TypeInv, NEW s \in Sessions, NEW alloc \in {NULL, "GETAVATARLIST"},
         NEW ok \in BOOLEAN, OnAvatarListReq(s, alloc, ok)
  PROVE  TypeInv' /\ (Sound => Sound')
<1> DEFINE d == IF MasterWaits(alloc, ok) THEN "listwait" ELSE "list"
<1>1. /\ dialogue[s] \in {"login", "channel"} /\ dialogue \in [Sessions -> DialogueStates]
      /\ UNCHANGED <<mapVars, loopVars, account, entering>>
      /\ shown \in [Sessions -> Seq(Names \cup {NULL})] /\ entering \subseteq Sessions
  BY DEF OnAvatarListReq, TypeInv, TypeOK
<1>2. CASE Refused(s, "ONAVATARLISTREQ")
  <2>1. dialogue' = [dialogue EXCEPT ![s] = "listwait"] /\ NoPush /\ UNCHANGED <<ctx, shown>>
    BY <1>2 DEF OnAvatarListReq, MasterIs
  <2>2. DialogueGoesOn
    BY <1>1, <2>1 DEF DialogueGoesOn, DialogueStates
  <2> QED
    BY <1>1, <2>1, <2>2, RefusedKeeps DEF loopVars
<1>3. CASE ~Refused(s, "ONAVATARLISTREQ")
  <2>1. PICK c \in Contexts : c = bySession[s] /\ Takes(ctx[c].st, "ONAVATARLISTREQ")
    BY <1>3, Reached
  <2>2. /\ ctx' = Step(c, "ONAVATARLISTREQ")
        /\ PushFor(c, "GETAVATARLIST", <<>>, alloc)
        /\ dialogue' = [dialogue EXCEPT ![s] = d]
        /\ shown' = IF MasterWaits(alloc, ok) THEN shown ELSE [shown EXCEPT ![s] = <<>>]
    BY <1>3, <2>1 DEF OnAvatarListReq, MasterIs
  <2>3. Moved(c, "ONAVATARLISTREQ")
    BY <2>1, <2>2, StepMoves DEF TypeInv
  <2>4. PICK E : Pushed(E, c, "GETAVATARLIST", <<>>, alloc)
    BY <2>2, PushForEffect, EmptySeq DEF EventIds
  <2>5. /\ dialogue' \in [Sessions -> DialogueStates] /\ dialogue'[s] = d
        /\ \A t \in Sessions : dialogue[t] # "out" => dialogue'[t] # "out"
        /\ \A t \in Sessions : t # s => dialogue'[t] = dialogue[t] /\ shown'[t] = shown[t]
        /\ shown' \in [Sessions -> Seq(Names \cup {NULL})]
    BY <1>1, <2>2, EmptySeq DEF DialogueStates
  <2>6. TypeInv'
    BY <1>1, <2>3, <2>4, <2>5, AskedTyped DEF Moved, EventIds
  <2>7. ASSUME Sound PROVE Sound'
    <3>1. ctx[c].sess = s /\ Live(c)
      BY <1>3, <2>1, <2>7, Reached
    <3>2. ctx[c].st \in {"ONLOGINREQ", "AVATARSELECTACK"}
      BY <2>1, Machine
    <3>3. ContextsStay
      BY <1>1, <2>3, <3>1, <3>2, MoveStays DEF Beyond, mapVars
    <3>4. alloc # NULL => s \in failed'
      BY <2>4, <3>1, CacheAssumption DEF Pushed
    <3>5. ShowsNoMore(s)
      BY <2>5, <3>4 DEF ShowsNoMore, MasterWaits
    <3>6. SessionSound(s)'
      <4>1. SessionSound(s)
        BY <2>7 DEF Sound
      <4>2. UNCHANGED <<bySession, account>>
        BY <1>1 DEF mapVars
      <4>3. alloc = "GETAVATARLIST" \/ dialogue'[s] \in {"listwait", "bye"}
        BY <2>5 DEF MasterWaits
      <4> QED
        BY <2>1, <2>3, <2>4, <3>1, <3>2, <3>5, <4>1, <4>2, <4>3, AskKeeps
    <3>7. AllOwned(<<>>, account[s])
      BY DEF AllOwned
    <3> QED
      BY <1>1, <2>1, <2>3, <2>4, <2>5, <2>7, <3>1, <3>3, <3>6, <3>7, AskedSound DEF Moved, EventIds
  <2> QED
    BY <2>6, <2>7
<1> QED
  BY <1>2, <1>3

LEMMA AtHome ==
  ASSUME TypeInv, Sound, NEW s \in Sessions, NEW c \in Contexts, bySession[s] = c
  PROVE  ctx[c].sess = s /\ Live(c)
<1>1. ctx[c].sess = s
  BY CacheAssumption DEF Sound, Filed
<1>2. s # NULL
  BY CacheAssumption
<1> QED
  BY <1>1, <1>2 DEF Sound, Filed, Blank

LEMMA AvatarType ==
  \A name, id \in Names \cup {NULL} :
    /\ Avatar(name, id) \in AvatarRecords
    /\ Avatar(name, id).name = name /\ Avatar(name, id).id = id
    /\ <<Avatar(name, id)>> \in Seq(AvatarRecords)
  BY DEF Avatar, AvatarRecords

LEMMA OnAvatarCreateReqKeeps ==
  ASSUME TypeInv, NEW s \in Sessions, NEW name \in Names, NEW alloc \in {NULL, "AVATARCREATE"},
         NEW ok \in BOOLEAN, OnAvatarCreateReq(s, name, alloc, ok)
  PROVE  TypeInv' /\ (Sound => Sound')
<1> DEFINE d == IF MasterWaits(alloc, ok) THEN "createwait" ELSE "list"
           args == <<Avatar(name, NULL)>>
<1>1. /\ dialogue[s] = "list" /\ dialogue \in [Sessions -> DialogueStates]
      /\ UNCHANGED <<ctx, mapVars, loopVars, account, entering>>
      /\ shown \in [Sessions -> Seq(Names \cup {NULL})] /\ entering \subseteq Sessions
      /\ ctx \in [Contexts -> ContextRecords]
  BY DEF OnAvatarCreateReq, TypeInv, TypeOK
<1>2. CASE bySession[s] = NULL
  <2>1. dialogue' = [dialogue EXCEPT ![s] = "createwait"] /\ NoPush /\ UNCHANGED shown
    BY <1>2 DEF OnAvatarCreateReq, MasterIs
  <2>2. DialogueGoesOn
    BY <1>1, <2>1 DEF DialogueGoesOn, DialogueStates
  <2> QED
    BY <1>1, <2>1, <2>2, RefusedKeeps DEF loopVars
<1>3. CASE bySession[s] # NULL
  <2>1. PICK c \in Contexts : c = bySession[s]
    BY <1>3 DEF TypeInv, TypeOK
  <2>2. /\ PushFor(c, "AVATARCREATE", args, alloc)
        /\ dialogue' = [dialogue EXCEPT ![s] = d]
        /\ shown' = IF MasterWaits(alloc, ok) THEN shown ELSE [shown EXCEPT ![s] = Append(@, NULL)]
    BY <1>3, <2>1 DEF OnAvatarCreateReq, MasterIs
  <2>3. args \in Seq(AvatarRecords) /\ Len(args) = 1 /\ args[1].name \in Names /\ args[1].id = NULL
    BY AvatarType
  <2> HIDE DEF args
  <2>4. PICK E : Pushed(E, c, "AVATARCREATE", args, alloc)
    BY <2>2, <2>3, PushForEffect DEF EventIds
  <2>5. /\ dialogue' \in [Sessions -> DialogueStates] /\ dialogue'[s] = d
        /\ \A t \in Sessions : dialogue[t] # "out" => dialogue'[t] # "out"
        /\ \A t \in Sessions : t # s => dialogue'[t] = dialogue[t] /\ shown'[t] = shown[t]
    BY <1>1, <2>2 DEF DialogueStates
  <2>6. shown' \in [Sessions -> Seq(Names \cup {NULL})]
    <3>1. Append(shown[s], NULL) \in Seq(Names \cup {NULL})
      BY <1>1
    <3> QED
      BY <1>1, <2>2, <3>1
  <2>7. TypeInv'
    BY <1>1, <2>3, <2>4, <2>5, <2>6, AskedTyped DEF EventIds
  <2>8. ASSUME Sound PROVE Sound'
    <3>1. ctx[c].sess = s
      BY <2>1, <2>8, AtHome
    <3>2. ContextsStay
      BY <1>1 DEF ContextsStay, mapVars
    <3>3. alloc # NULL => s \in failed'
      BY <2>4, <3>1, CacheAssumption DEF Pushed
    <3>4. ShowsNoMore(s)
      BY <1>1, <2>2, <3>3, <2>4, CacheAssumption DEF ShowsNoMore, Pushed, MasterWaits
    <3>5. Unaffected(s, E, {})
      BY <1>1, <2>4, <3>4 DEF Unaffected, Steady, Pushed, Side, mapVars
    <3>6. AllOwned(args, account[s])
      BY <2>3 DEF AllOwned
    <3> QED
      BY <1>1, <2>1, <2>4, <2>5, <2>8, <3>1, <3>2, <3>5, <3>6, AskedSound DEF EventIds
  <2> QED
    BY <2>7, <2>8
<1> QED
  BY <1>2, <1>3

LEMMA OnAvatarSelectReqKeeps ==
  ASSUME TypeInv, NEW s \in Sessions, NEW name \in Names, NEW alloc \in {NULL, "AVATARSELECTDATA"},
         NEW ok \in BOOLEAN, OnAvatarSelectReq(s, name, alloc, ok)
  PROVE  TypeInv' /\ (Sound => Sound')
<1> DEFINE d == IF MasterWaits(alloc, ok) THEN "selectwait" ELSE "leaving"
<1>1. /\ dialogue[s] = "list" /\ dialogue \in [Sessions -> DialogueStates]
      /\ \E i \in 1 .. Len(shown[s]) : shown[s][i] = name
      /\ UNCHANGED <<mapVars, loopVars, account, shown, entering>>
      /\ shown \in [Sessions -> Seq(Names \cup {NULL})] /\ entering \subseteq Sessions
  BY DEF OnAvatarSelectReq, TypeInv, TypeOK
<1>2. CASE Refused(s, "ONAVATARSELECTREQ")
  <2>1. dialogue' = [dialogue EXCEPT ![s] = "selectwait"] /\ NoPush /\ UNCHANGED ctx
    BY <1>2 DEF OnAvatarSelectReq, MasterIs
  <2>2. DialogueGoesOn
    BY <1>1, <2>1 DEF DialogueGoesOn, DialogueStates
  <2> QED
    BY <1>1, <2>1, <2>2, RefusedKeeps DEF loopVars
<1>3. CASE ~Refused(s, "ONAVATARSELECTREQ")
  <2>1. PICK c \in Contexts : c = bySession[s] /\ Takes(ctx[c].st, "ONAVATARSELECTREQ")
    BY <1>3, Reached
  <2>2. ctx' = Step(c, "ONAVATARSELECTREQ")
    BY <1>3, <2>1 DEF OnAvatarSelectReq
  <2>3. Moved(c, "ONAVATARSELECTREQ")
    BY <2>1, <2>2, StepMoves DEF TypeInv
  <2>4. ctx[c].st = "AVATARLISTACK"
    BY <2>1, Machine
  <2>5. CASE Found(c, name) = {}
    <3>1. dialogue' = [dialogue EXCEPT ![s] = "selectwait"] /\ NoPush
      BY <1>3, <2>1, <2>5 DEF OnAvatarSelectReq, MasterIs
    <3>2. PoolStep({}, {}) /\ UNCHANGED <<dbVars, failed>> /\ UNCHANGED poolVars
      BY <3>1, PoolIdle DEF TypeInv, NoPush
    <3>3. /\ dialogue' \in [Sessions -> DialogueStates] /\ dialogue'[s] = "selectwait"
          /\ \A t \in Sessions : dialogue[t] # "out" => dialogue'[t] # "out"
          /\ \A t \in Sessions : t # s => dialogue'[t] = dialogue[t]
      BY <1>1, <3>1 DEF DialogueStates
    <3>4. TypeOK'
      BY <1>1, <2>3, <3>2, <3>3 DEF TypeInv, TypeOK, PoolStep, PoolTyped, mapVars, loopVars, dbVars, Moved
    <3>5. \A b \in Contexts : ctx'[b].sess = ctx[b].sess
      BY <2>3 DEF Moved
    <3>6. Entering({}) /\ SessionsStay
      BY <1>1, <3>3, <3>5 DEF Entering, SessionsStay, Opened
    <3>7. TypeInv'
      BY <3>2, <3>4, <3>6, AlwaysKept DEF dbVars
    <3>8. ASSUME Sound PROVE Sound'
      <4>1. ctx[c].sess = s /\ Live(c)
        BY <2>1, <3>8, AtHome
      <4>2. ContextsStay
        BY <1>1, <2>3, <2>4, <4>1, MoveStays DEF Beyond, mapVars
      <4>3. SessionSound(s)
        BY <3>8 DEF Sound
      <4>4. s \in failed
        <5>1. ShownKnown(c, s)
          BY <2>1, <4>3 DEF SessionSound
        <5> QED
          BY <1>1, <2>5, <5>1 DEF ShownKnown, Found
      <4>5. \A id : OnTheWay(id, s)' <=> OnTheWay(id, s)
        BY <3>2 DEF poolVars, OnTheWay, UnderWay
      <4>6. /\ StateFits(c, s) /\ Owner(c, s)
            /\ AtMostOne("GETAVATARLIST", s) /\ AtMostOne("AVATARSELECTDATA", s)
        BY <2>1, <4>3 DEF SessionSound
      <4>7. StateFits(c, s)'
        BY <2>3, <2>4, <4>5, <4>6 DEF StateFits, Moved, Beyond
      <4>8. ShownKnown(c, s)' /\ Awaited(c, s)'
        BY <3>2, <3>3, <4>4 DEF ShownKnown, Awaited, Waits
      <4>9. RowsKept
        BY <3>2 DEF RowsKept, Owns, dbVars
      <4>10. Owner(c, s)'
        BY <1>1, <2>3, <4>6, <4>9, OwnerKept DEF Moved, TypeInv
      <4>11. AtMostOne("GETAVATARLIST", s)' /\ AtMostOne("AVATARSELECTDATA", s)'
        BY <3>2, <4>6 DEF AtMostOne, UnderWay, poolVars
      <4>12. SessionSound(s)'
        BY <1>1, <2>1, <4>7, <4>8, <4>10, <4>11, CacheAssumption DEF SessionSound, mapVars
      <4>13. ASSUME NEW t \in Sessions, t # s PROVE Unaffected(t, {}, {})
        <5>1. \A b \in Contexts : bySession[t] = b => b # c
          BY <3>8, <4>1, <4>13, AtHome
        <5> QED
          BY <1>1, <2>3, <3>2, <3>3, <4>13, <5>1 DEF Unaffected, Steady, ShowsNoMore, mapVars, Moved
      <4>14. \A e \in Events \ fresh' : e \notin fresh /\ data'[e] = data[e]
        BY <3>2 DEF dbVars, poolVars
      <4> QED
        BY <1>1, <3>2, <3>8, <4>2, <4>9, <4>12, <4>13, <4>14, SoundKept DEF mapVars, loopVars
    <3> QED
      BY <3>7, <3>8
  <2>6. CASE Found(c, name) # {}
    <3>1. PICK i \in Found(c, name) : PushFor(c, "AVATARSELECTDATA", <<ctx[c].avatars[i]>>, alloc)
      BY <1>3, <2>1, <2>6 DEF OnAvatarSelectReq
    <3>2. dialogue' = [dialogue EXCEPT ![s] = d]
      BY <1>3, <2>1, <2>6 DEF OnAvatarSelectReq, MasterIs
    <3>3. ctx[c].avatars \in Seq(AvatarRecords) /\ i \in 1 .. Len(ctx[c].avatars)
      BY DEF TypeInv, TypeOK, ContextRecords, Found
    <3>4. PICK r \in AvatarRecords : r = ctx[c].avatars[i]
      BY <3>3
    <3>5. <<r>> \in Seq(AvatarRecords) /\ Len(<<r>>) = 1
      OBVIOUS
    <3>6. PICK E : Pushed(E, c, "AVATARSELECTDATA", <<r>>, alloc)
      BY <3>1, <3>4, <3>5, PushForEffect DEF EventIds
    <3>7. /\ dialogue' \in [Sessions -> DialogueStates] /\ dialogue'[s] = d
          /\ \A t \in Sessions : dialogue[t] # "out" => dialogue'[t] # "out"
          /\ \A t \in Sessions : t # s => dialogue'[t] = dialogue[t]
      BY <1>1, <3>2 DEF DialogueStates
    <3>8. TypeInv'
      BY <1>1, <2>3, <3>5, <3>6, <3>7, AskedTyped DEF Moved, EventIds
    <3>9. ASSUME Sound PROVE Sound'
      <4>1. ctx[c].sess = s /\ Live(c)
        BY <2>1, <3>9, AtHome
      <4>2. ContextsStay
        BY <1>1, <2>3, <2>4, <4>1, MoveStays DEF Beyond, mapVars
      <4>3. ShowsNoMore(s)
        BY <3>7 DEF ShowsNoMore
      <4>4. SessionSound(s)
        BY <3>9 DEF Sound
      <4>5. SessionSound(s)'
        <5>1. UNCHANGED <<bySession, account>>
          BY <1>1 DEF mapVars
        <5> QED
          BY <2>1, <2>3, <2>4, <3>6, <4>1, <4>3, <4>4, <5>1, AskKeeps
      <4>6. AllOwned(<<r>>, account[s])
        <5>1. Owner(c, s)
          BY <2>1, <4>4 DEF SessionSound
        <5>2. r.id # NULL => Owned(account[s], r.id)
          BY <3>3, <3>4, <5>1 DEF Owner, AllOwned
        <5> QED
          BY <3>5, <5>2 DEF AllOwned
      <4> QED
        BY <1>1, <2>1, <2>3, <3>6, <3>7, <3>9, <4>1, <4>2, <4>5, <4>6, AskedSound DEF Moved, EventIds
    <3> QED
      BY <3>8, <3>9
  <2> QED
    BY <2>5, <2>6
<1> QED
  BY <1>2, <1>3

LEMMA ChannelSelectedKeeps ==
  ASSUME TypeInv, NEW s \in Sessions, ChannelSelected(s)
  PROVE  TypeInv' /\ (Sound => Sound')
<1>1. /\ dialogue[s] = "channel" /\ dialogue \in [Sessions -> DialogueStates]
      /\ dialogue' = [dialogue EXCEPT ![s] = "region"] /\ NoPush
      /\ UNCHANGED <<ctx, mapVars, loopVars, account, shown>> /\ entering' \subseteq Sessions
  BY DEF ChannelSelected, MasterIs, TypeInv, TypeOK
<1>2. DialogueGoesOn
  BY <1>1 DEF DialogueGoesOn, DialogueStates
<1> QED
  BY <1>1, <1>2, RefusedKeeps DEF loopVars

LEMMA OnRegionEnterReqKeeps ==
  ASSUME TypeInv, NEW s \in Sessions, NEW alloc \in {NULL, "AVATARENTERREGION"},
         OnRegionEnterReq(s, alloc)
  PROVE  TypeInv' /\ (Sound => Sound')
<1>1. /\ dialogue \in [Sessions -> DialogueStates]
      /\ UNCHANGED <<mapVars, loopVars, account, dialogue, shown>>
      /\ shown \in [Sessions -> Seq(Names \cup {NULL})] /\ entering' \subseteq Sessions
  BY DEF OnRegionEnterReq, TypeInv, TypeOK
<1>2. CASE Refused(s, "ONREGIONENTERREQ")
  <2>1. NoPush /\ UNCHANGED ctx
    BY <1>2 DEF OnRegionEnterReq
  <2>2. DialogueGoesOn
    BY <1>1 DEF DialogueGoesOn
  <2> QED
    BY <1>1, <2>1, <2>2, RefusedKeeps DEF loopVars
<1>3. CASE ~Refused(s, "ONREGIONENTERREQ")
  <2>1. PICK c \in Contexts : c = bySession[s] /\ Takes(ctx[c].st, "ONREGIONENTERREQ")
    BY <1>3, Reached
  <2>2. ctx' = Step(c, "ONREGIONENTERREQ") /\ PushFor(c, "AVATARENTERREGION", <<>>, alloc)
    BY <1>3, <2>1 DEF OnRegionEnterReq
  <2>3. Moved(c, "ONREGIONENTERREQ")
    BY <2>1, <2>2, StepMoves DEF TypeInv
  <2>4. PICK E : Pushed(E, c, "AVATARENTERREGION", <<>>, alloc)
    BY <2>2, PushForEffect, EmptySeq DEF EventIds
  <2>5. TypeInv'
    BY <1>1, <2>3, <2>4, AskedTyped DEF Moved, EventIds
  <2>6. ASSUME Sound PROVE Sound'
    <3>1. ctx[c].sess = s /\ Live(c)
      BY <2>1, <2>6, AtHome
    <3>2. ctx[c].st = "AVATARSELECTACK"
      BY <2>1, Machine
    <3>3. ContextsStay
      BY <1>1, <2>3, <3>1, <3>2, MoveStays DEF Beyond, mapVars
    <3>4. ShowsNoMore(s)
      BY <1>1, <2>4 DEF ShowsNoMore, Pushed
    <3>5. SessionSound(s)'
      <4>1. SessionSound(s)
        BY <2>6 DEF Sound
      <4>2. UNCHANGED <<bySession, account>>
        BY <1>1 DEF mapVars
      <4> QED
        BY <2>1, <2>3, <2>4, <3>1, <3>2, <3>4, <4>1, <4>2, AskKeeps
    <3>6. AllOwned(<<>>, account[s])
      BY DEF AllOwned
    <3> QED
      BY <1>1, <2>1, <2>3, <2>4, <2>6, <3>1, <3>3, <3>5, <3>6, AskedSound DEF Moved, EventIds
  <2> QED
    BY <2>5, <2>6
<1> QED
  BY <1>2, <1>3

LEMMA NextOfType ==
  ASSUME TypeOK, NEW id, NEW s, NEW k
  PROVE  \A e \in NextOf(id, s, k) : e \in fresh /\ e \in Events /\ e.id = id /\ e.session = s
  BY DEF NextOf, FreshOf, TypeOK

LEMMA OnLogoutReqKeeps ==
  ASSUME TypeInv, NEW s \in Sessions, NEW alloc \in {NULL, "AVATARLOGOUT", "AVATARFINALIZE"},
         OnLogoutReq(s, alloc)
  PROVE  TypeInv' /\ (Sound => Sound')
<1>1. /\ dialogue \in [Sessions -> DialogueStates] /\ dialogue' = [dialogue EXCEPT ![s] = "bye"]
      /\ UNCHANGED <<mapVars, loopVars, account, shown, entering>>
      /\ entering' \subseteq Sessions
  BY DEF OnLogoutReq, MasterIs, TypeInv, TypeOK
<1>2. DialogueGoesOn
  BY <1>1 DEF DialogueGoesOn, DialogueStates
<1>3. CASE Refused(s, "ONLOGOUTREQ")
  <2>1. NoPush /\ UNCHANGED ctx
    BY <1>3 DEF OnLogoutReq
  <2> QED
    BY <1>1, <1>2, <2>1, RefusedKeeps DEF loopVars
<1>4. CASE ~Refused(s, "ONLOGOUTREQ")
  <2>1. PICK c \in Contexts : c = bySession[s] /\ Takes(ctx[c].st, "ONLOGOUTREQ")
    BY <1>4, Reached
  <2> DEFINE F == NextOf("AVATARFINALIZE", ctx[c].sess, Finalizes(c, alloc))
             E == LogoutEvents(c, alloc)
  <2>2. /\ ctx' = Step(c, "ONLOGOUTREQ") /\ Push(E) /\ UNCHANGED dbVars
        /\ Cardinality(F) = Finalizes(c, alloc)
        /\ failed' = IF alloc = NULL THEN failed ELSE failed \cup {ctx[c].sess}
    BY <1>4, <2>1 DEF OnLogoutReq
  <2>3. Moved(c, "ONLOGOUTREQ")
    BY <2>1, <2>2, StepMoves DEF TypeInv
  <2>4. /\ \A e \in E : /\ e \in fresh /\ e \in Events /\ e.session = ctx[c].sess
                        /\ e.id \in {"AVATARLOGOUT", "AVATARFINALIZE"}
        /\ F \subseteq E
        /\ \A e \in F : e.id = "AVATARFINALIZE"
    BY NextOfType DEF LogoutEvents, TypeInv
  <2> HIDE DEF E, F
  <2>5. PoolStep(E, {})
    BY <2>2, <2>4, PushEffect DEF TypeInv
  <2>6. ctx[c].sess \in Sessions \cup {NULL}
    BY DEF TypeInv, TypeOK, ContextRecords
  <2>7. failed' \subseteq Sessions \cup {NULL}
    BY <2>2, <2>6 DEF TypeInv, TypeOK
  <2>8. TypeOK'
    BY <1>1, <1>2, <2>2, <2>3, <2>5, <2>7
    DEF TypeInv, TypeOK, PoolStep, PoolTyped, mapVars, loopVars, dbVars, Moved, DialogueGoesOn
  <2>9. \A e \in E : Opened(e.session)
    <3> SUFFICES ASSUME NEW e \in E PROVE Opened(e.session)
      OBVIOUS
    <3>1. e.session \in Sessions /\ e.session = ctx[c].sess
      BY <2>4, EventType
    <3> QED
      BY <3>1, CacheAssumption DEF TypeInv, Known
  <2>10. \A b \in Contexts : ctx'[b].sess = ctx[b].sess
    BY <2>3 DEF Moved
  <2>11. Entering(E) /\ SessionsStay
    BY <1>1, <1>2, <2>4, <2>9, <2>10 DEF Entering, SessionsStay, Opened, DialogueGoesOn
  <2>12. TypeInv'
    BY <2>2, <2>5, <2>8, <2>11, AlwaysKept DEF dbVars
  <2>13. ASSUME Sound PROVE Sound'
    <3>1. ctx[c].sess = s /\ Live(c)
      BY <2>1, <2>13, AtHome
    <3>2. ctx[c].st \in LogoutFrom
      BY <2>1, Machine
    <3>3. ContextsStay
      BY <1>1, <2>3, <3>1, <3>2, MoveStays DEF Beyond, mapVars, LogoutFrom
    <3>4. SessionSound(s)
      BY <2>13 DEF Sound
    <3>5. /\ StateFits(c, s) /\ Owner(c, s)
          /\ AtMostOne("GETAVATARLIST", s) /\ AtMostOne("AVATARSELECTDATA", s)
      BY <2>1, <3>4 DEF SessionSound
    <3>6. \A id : OnTheWay(id, s)' => OnTheWay(id, s) \/ id \in {"AVATARLOGOUT", "AVATARFINALIZE"}
      BY <2>4, <2>5 DEF PoolStep, OnTheWay
    <3>7. StateFits(c, s)'
      BY <2>3, <3>2, <3>5, <3>6 DEF StateFits, Moved, Beyond, LogoutFrom
    <3>8. dialogue'[s] = "bye"
      BY <1>1
    <3>9. ShownKnown(c, s)'
      BY <3>8 DEF ShownKnown
    <3>10. ASSUME ~ctx[c].fin, s \notin failed' PROVE Waits("AVATARFINALIZE", s)'
      <4>1. alloc = NULL
        BY <2>2, <3>1, <3>10
      <4>2. Finalizes(c, alloc) = 1
        BY <3>10, <4>1, CacheAssumption DEF Finalizes, EventIds
      <4>3. F # {}
        BY <2>2, <4>2, FS_EmptySet
      <4>4. PICK e \in F : TRUE
        BY <4>3
      <4>5. e \in E /\ e \in Answered /\ e.id = "AVATARFINALIZE" /\ e.session = s /\ e \in Events
        BY <2>4, <3>1, <4>4 DEF Answered
      <4>6. UnderWay(e)' \/ e \in lost' \/ ~open'
        BY <2>5, <4>5 DEF PoolStep
      <4> QED
        BY <4>5, <4>6 DEF Waits, OnTheWay, LostFor
    <3>11. Awaited(c, s)'
      BY <2>3, <3>10 DEF Awaited, Moved, Waits
    <3>12. RowsKept
      BY <2>2 DEF RowsKept, Owns, dbVars
    <3>13. Owner(c, s)'
      BY <1>1, <2>3, <3>5, <3>12, OwnerKept DEF Moved, TypeInv
    <3>14. AtMostOne("GETAVATARLIST", s)' /\ AtMostOne("AVATARSELECTDATA", s)'
      BY <2>4, <2>5, <3>5 DEF AtMostOne, PoolStep
    <3>15. SessionSound(s)'
      BY <1>1, <2>1, <3>7, <3>9, <3>11, <3>13, <3>14, CacheAssumption DEF SessionSound, mapVars
    <3>16. ASSUME NEW t \in Sessions, t # s PROVE Unaffected(t, E, {})
      <4>1. \A b \in Contexts : bySession[t] = b => b # c
        BY <2>13, <3>1, <3>16, AtHome
      <4>2. t \in failed <=> t \in failed'
        BY <2>2, <3>1, <3>16
      <4>3. dialogue'[t] = dialogue[t]
        BY <1>1, <3>16
      <4> QED
        BY <1>1, <2>3, <2>4, <3>1, <3>16, <4>1, <4>2, <4>3
        DEF Unaffected, Steady, ShowsNoMore, mapVars, Moved
    <3>17. \A e \in Events \ fresh' : (e \notin fresh /\ data'[e] = data[e]) \/ EventOwned(e)'
      <4> SUFFICES ASSUME NEW e \in E PROVE EventOwned(e)'
        BY <2>2, <2>5 DEF dbVars, PoolStep
      <4>1. data[e] = <<>>
        BY <2>4 DEF TypeInv, Filled
      <4> QED
        BY <2>2, <4>1 DEF EventOwned, AllOwned, dbVars
    <3> QED
      BY <1>1, <2>5, <2>13, <3>3, <3>12, <3>15, <3>16, <3>17, SoundKept DEF mapVars, loopVars
  <2> QED
    BY <2>12, <2>13
<1> QED
  BY <1>3, <1>4

LEMMA ShutdownKeeps ==
  ASSUME TypeInv, Shutdown
  PROVE  TypeInv' /\ (Sound => Sound')
<1>1. /\ status' = "START_SHUTDOWN" /\ NoPush
      /\ UNCHANGED <<ctx, mapVars, queue, inLoop, overrun, masterVars>>
      /\ dialogue \in [Sessions -> DialogueStates] /\ entering \subseteq Sessions
  BY DEF Shutdown, TypeInv, TypeOK
<1>2. DialogueGoesOn
  BY <1>1 DEF DialogueGoesOn, masterVars
<1> QED
  BY <1>1, <1>2, RefusedKeeps DEF masterVars

\* Events move within the pool, and saves enter it.
LEMMA PoolOnlyKeeps ==
  ASSUME TypeInv, NEW E, PoolStep(E, {}), E \subseteq fresh,
         \A e \in E : e.id = "AVATARSAVEDATA" /\ Opened(e.session),
         UNCHANGED <<ctx, mapVars, loopVars, dbVars, masterVars, failed>>
  PROVE  TypeInv' /\ (Sound => Sound')
<1>1. TypeOK'
  BY DEF TypeInv, TypeOK, PoolStep, PoolTyped, mapVars, loopVars, dbVars, masterVars
<1>2. Entering(E) /\ SessionsStay
  BY DEF Entering, SessionsStay, Opened, masterVars
<1>3. TypeInv'
  BY <1>1, <1>2, AlwaysKept DEF dbVars
<1>4. RowsKept /\ ContextsStay
  BY DEF dbVars, mapVars, RowsKept, Owns, ContextsStay
<1>5. \A s \in Sessions : Unaffected(s, E, {})
  BY DEF Unaffected, Steady, ShowsNoMore, Side, mapVars, masterVars
<1>6. \A e \in Events \ fresh' : (e \notin fresh /\ data'[e] = data[e]) \/ EventOwned(e)'
  <2> SUFFICES ASSUME NEW e \in E PROVE EventOwned(e)'
    BY DEF dbVars, PoolStep
  <2>1. data[e] = <<>>
    BY DEF TypeInv, Filled
  <2> QED
    BY <2>1 DEF EventOwned, AllOwned, dbVars
<1>7. Sound => Sound'
  BY <1>4, <1>5, <1>6, SoundKept DEF mapVars, loopVars, masterVars
<1> QED
  BY <1>3, <1>7

LEMMA SaveDataToDBKeeps ==
  ASSUME TypeInv, NEW due \in SUBSET Contexts, SaveDataToDB(due)
  PROVE  TypeInv' /\ (Sound => Sound')
<1> DEFINE E == UNION { NextOf("AVATARSAVEDATA", ctx[c].sess, 1) : c \in due }
<1>1. Push(E) /\ UNCHANGED <<ctx, mapVars, loopVars, dbVars, masterVars, failed>>
  BY DEF SaveDataToDB
<1>2. ASSUME NEW e \in E
      PROVE  e \in fresh /\ e.id = "AVATARSAVEDATA" /\ Opened(e.session)
  <2>1. PICK c \in due : e \in NextOf("AVATARSAVEDATA", ctx[c].sess, 1)
    OBVIOUS
  <2>2. e \in fresh /\ e \in Events /\ e.id = "AVATARSAVEDATA" /\ e.session = ctx[c].sess
    BY <2>1, NextOfType DEF TypeInv
  <2>3. e.session # NULL
    BY <2>2, EventType, CacheAssumption
  <2> QED
    BY <2>2, <2>3 DEF TypeInv, Known
<1> HIDE DEF E
<1>3. PoolStep(E, {})
  BY <1>1, <1>2, PushEffect DEF TypeInv
<1> QED
  BY <1>1, <1>2, <1>3, PoolOnlyKeeps

\* A session that is not open has no event and no context.
LEMMA NotOpened ==
  ASSUME TypeInv, NEW s \in Sessions, ~Opened(s)
  PROVE  /\ \A id : ~OnTheWay(id, s)
         /\ \A c \in Contexts : ctx[c].sess # s
         /\ Sound => bySession[s] = NULL
<1>1. \A id : ~OnTheWay(id, s)
  <2> SUFFICES ASSUME NEW e \in Events, e.session = s, UnderWay(e)
               PROVE  FALSE
    BY DEF OnTheWay
  <2>1. e \notin fresh
    BY DEF TypeInv, Apart, UnderWay
  <2> QED
    BY <2>1 DEF TypeInv, Known
<1>2. \A c \in Contexts : ctx[c].sess # s
  BY CacheAssumption DEF TypeInv, Known
<1>3. Sound => bySession[s] = NULL
  BY <1>2, AtHome DEF TypeInv, TypeOK
<1> QED
  BY <1>1, <1>2, <1>3

\* A context of the pool is taken into use.
LEMMA FiledOnLogin ==
  ASSUME TypeInv, Filed, NEW s \in Sessions, NEW c \in Contexts, bySession[s] = NULL,
         freeCnt[c] > 0,
         freeCnt' = [freeCnt EXCEPT ![c] = @ - 1], used' = used + 1,
         bySession' = [bySession EXCEPT ![s] = c],
         ctx'[c].sess = s, \A d \in Contexts : d # c => ctx'[d] = ctx[d],
         \A d \in Contexts : ctx[d].sess # s
  PROVE  /\ Filed' /\ ~Live(c) /\ ctx[c] = Blank
         /\ \A d \in Contexts : Live(d)' <=> Live(d) \/ d = c
<1>1. /\ freeCnt \in [Contexts -> Nat] /\ bySession \in [Sessions -> Contexts \cup {NULL}]
      /\ \A d \in Contexts : ctx[d].sess \in Sessions \cup {NULL}
      /\ s # NULL /\ c # NULL
  BY CacheAssumption DEF TypeInv, TypeOK, ContextRecords
<1>2. ~Live(c) /\ freeCnt[c] = 1 /\ ctx[c] = Blank
  BY <1>1 DEF Live, Filed
<1>3. \A d \in Contexts : Live(d)' <=> Live(d) \/ d = c
  BY <1>1, <1>2 DEF Live
<1>4. \A t \in Sessions : bySession[t] # c
  BY <1>1, <1>2, CacheAssumption DEF Filed, Blank
<1>5. \A t \in Sessions : bySession'[t] # NULL => ctx'[bySession'[t]].sess = t
  <2> TAKE t \in Sessions
  <2>1. CASE t = s
    BY <1>1, <2>1
  <2>2. CASE t # s
    BY <1>1, <1>4, <2>2 DEF Filed
  <2> QED
    BY <2>1, <2>2
<1>6. \A d \in Contexts :
        IF Live(d)' THEN ctx'[d].sess # NULL /\ bySession'[ctx'[d].sess] = d
        ELSE freeCnt'[d] = 1 /\ ctx'[d] = Blank
  <2> TAKE d \in Contexts
  <2>1. CASE d = c
    BY <1>1, <1>3, <2>1
  <2>2. CASE d # c
    <3>1. Live(d)' <=> Live(d)
      BY <1>3, <2>2
    <3>2. IF Live(d) THEN ctx[d].sess # NULL /\ bySession[ctx[d].sess] = d
          ELSE freeCnt[d] = 1 /\ ctx[d] = Blank
      BY DEF Filed
    <3>3. Live(d) => bySession'[ctx[d].sess] = bySession[ctx[d].sess]
      BY <1>1, <3>2
    <3>4. freeCnt'[d] = freeCnt[d] /\ ctx'[d] = ctx[d]
      BY <1>1, <2>2
    <3> QED
      BY <3>1, <3>2, <3>3, <3>4
  <2> QED
    BY <2>1, <2>2
<1>7. used' = Cardinality({d \in Contexts : Live(d)}')
  <2> DEFINE L == {d \in Contexts : Live(d)}
  <2>1. IsFiniteSet(L) /\ c \notin L
    BY <1>2, CacheAssumption, FS_Subset
  <2>2. L' = L \cup {c}
    BY <1>3
  <2>3. used = Cardinality(L)
    BY DEF Filed
  <2> HIDE DEF L
  <2>4. Cardinality(L \cup {c}) = Cardinality(L) + 1
    BY <2>1, FS_AddElement
  <2>5. Cardinality(L') = Cardinality(L \cup {c})
    BY <2>2, Zenon
  <2>6. used' = Cardinality(L')
    BY <2>3, <2>4, <2>5
  <2> QED
    BY <2>6 DEF L
<1>8. Filed'
  BY <1>5, <1>6, <1>7 DEF Filed, Blank
<1> QED
  BY <1>2, <1>3, <1>8

LEMMA OnLoginReqKeeps ==
  ASSUME TypeInv, NEW s \in Sessions, NEW a \in Accounts, OnLoginReq(s, a)
  PROVE  TypeInv' /\ (Sound => Sound')
<1>1. /\ dialogue[s] = "out" /\ dialogue' = [dialogue EXCEPT ![s] = "login"]
      /\ account' = [account EXCEPT ![s] = a] /\ NoPush
      /\ UNCHANGED <<byAvatar, loopVars, shown, entering>>
      /\ dialogue \in [Sessions -> DialogueStates] /\ account \in [Sessions -> Accounts \cup {NULL}]
  BY DEF OnLoginReq, MasterIs, TypeInv, TypeOK
<1>2. PoolStep({}, {}) /\ UNCHANGED <<dbVars, failed>> /\ UNCHANGED poolVars
  BY <1>1, PoolIdle DEF TypeInv, NoPush
<1>3. /\ dialogue' \in [Sessions -> DialogueStates] /\ account' \in [Sessions -> Accounts \cup {NULL}]
      /\ dialogue'[s] = "login" /\ account'[s] = a
      /\ \A t \in Sessions : t # s => dialogue'[t] = dialogue[t] /\ account'[t] = account[t]
  BY <1>1 DEF DialogueStates
<1>4. ~Opened(s) /\ Opened(s)' /\ \A t \in Sessions : Opened(t) => Opened(t)' /\ account'[t] = account[t]
  BY <1>1, <1>3 DEF Opened
<1>5. /\ \A id : ~OnTheWay(id, s)
      /\ \A c \in Contexts : ctx[c].sess # s
      /\ Sound => bySession[s] = NULL
  BY <1>4, NotOpened
<1>6. \A id : ~OnTheWay(id, s)'
  BY <1>2, <1>5 DEF poolVars, OnTheWay, UnderWay
<1>7. AtMostOne("GETAVATARLIST", s)' /\ AtMostOne("AVATARSELECTDATA", s)'
  BY <1>6 DEF AtMostOne, OnTheWay
<1>8. RowsKept /\ Entering({})
  BY <1>2 DEF RowsKept, Owns, dbVars, Entering
<1>9. \A e \in Events \ fresh' : e \notin fresh /\ data'[e] = data[e]
  BY <1>2 DEF dbVars, poolVars
<1>10. CASE UNCHANGED <<ctx, bySession, freeCnt, used>>
  <2>1. TypeOK'
    BY <1>1, <1>2, <1>3, <1>10 DEF TypeInv, TypeOK, PoolStep, PoolTyped, loopVars, dbVars
  <2>2. SessionsStay
    BY <1>4, <1>10 DEF SessionsStay
  <2>3. TypeInv'
    BY <1>2, <1>8, <2>1, <2>2, AlwaysKept DEF dbVars
  <2>4. ASSUME Sound PROVE Sound'
    <3>1. ContextsStay
      BY <1>10 DEF ContextsStay
    <3>2. ASSUME NEW t \in Sessions, t # s PROVE Unaffected(t, {}, {})
      BY <1>1, <1>2, <1>3, <1>10, <3>2 DEF Unaffected, Steady, ShowsNoMore
    <3>3. SessionSound(s)'
      BY <1>5, <1>6, <1>7, <1>10, <2>4, CacheAssumption DEF SessionSound
    <3> QED
      BY <1>1, <1>2, <1>4, <1>8, <1>9, <2>4, <3>1, <3>2, <3>3, SoundKept DEF loopVars
  <2> QED
    BY <2>3, <2>4
<1>11. ASSUME NEW c \in Contexts, freeCnt[c] > 0,
              freeCnt' = [freeCnt EXCEPT ![c] = @ - 1], used' = used + 1,
              bySession' = [bySession EXCEPT ![s] = c], ctx' = ContextOnLoginReq(c, s)
       PROVE  TypeInv' /\ (Sound => Sound')
  <2>1. ctx \in [Contexts -> ContextRecords] /\ freeCnt \in [Contexts -> Nat] /\ used \in Nat
    BY DEF TypeInv, TypeOK
  <2>2. /\ ctx' \in [Contexts -> ContextRecords]
        /\ \A d \in Contexts : d # c => ctx'[d] = ctx[d]
        /\ ctx'[c].sess = ctx[c].sess \/ ctx'[c].sess = s
    <3>1. After(ctx[c].st, "ONLOGINREQ") \in States
      BY <2>1, StateTypes DEF ContextRecords
    <3> QED
      BY <1>11, <2>1, <3>1 DEF ContextOnLoginReq, ContextRecords
  <2>3. freeCnt' \in [Contexts -> Nat] /\ used' \in Nat
    BY <1>11, <2>1
  <2>4. bySession' \in [Sessions -> Contexts \cup {NULL}]
    BY <1>11 DEF TypeInv, TypeOK
  <2>5. TypeOK'
    BY <1>1, <1>2, <1>3, <2>2, <2>3, <2>4 DEF TypeInv, TypeOK, PoolStep, PoolTyped, loopVars, dbVars
  <2>6. SessionsStay
    BY <1>4, <2>2 DEF SessionsStay
  <2>7. TypeInv'
    BY <1>2, <1>8, <2>5, <2>6, AlwaysKept DEF dbVars
  <2>8. ASSUME Sound PROVE Sound'
    <3>1. Filed /\ QueueLoggedOut /\ IndexBeyond /\ EventsOwned /\ bySession[s] = NULL
      BY <1>5, <2>8 DEF Sound
    <3>2. ctx[c] = Blank
      BY <1>11, <2>1, <3>1 DEF Filed, Live
    <3>3. Takes("NONE", "ONLOGINREQ") /\ After("NONE", "ONLOGINREQ") = "ONLOGINREQ"
      BY Machine, Rules
    <3>4. /\ ctx'[c].st = "ONLOGINREQ" /\ ctx'[c].sess = s
          /\ ctx'[c].avatars = <<>> /\ ctx'[c].avatar = NULL
      BY <1>11, <2>1, <3>2, <3>3 DEF ContextOnLoginReq, Blank
    <3>5. /\ Filed' /\ ~Live(c)
          /\ \A d \in Contexts : Live(d)' <=> Live(d) \/ d = c
      BY <1>5, <1>11, <2>2, <3>1, <3>4, FiledOnLogin
    <3>6. EventsOwned'
      BY <1>4, <1>8, <1>9, <3>1, EventsOwnedKept
    <3>7. \A i \in 1 .. Len(queue) : queue[i] \in Contexts
      BY ElementOfSeq DEF TypeInv, TypeOK
    <3>8. QueueLoggedOut'
      BY <1>1, <2>2, <3>1, <3>5, <3>7 DEF QueueLoggedOut, loopVars
    <3>9. IndexBeyond'
      BY <1>1, <2>2, <3>1, <3>5 DEF IndexBeyond
    <3>10. SessionSound(s)'
      <4>1. StateFits(c, s)'
        BY <1>6 DEF StateFits
      <4>2. ShownKnown(c, s)' /\ Awaited(c, s)'
        BY <1>3, <3>4 DEF ShownKnown, Awaited
      <4>3. Owner(c, s)'
        BY <3>4 DEF Owner, AllOwned
      <4>4. bySession'[s] = c
        BY <1>11 DEF TypeInv, TypeOK
      <4> QED
        BY <1>7, <4>1, <4>2, <4>3, <4>4, CacheAssumption DEF SessionSound
    <3>11. ASSUME NEW t \in Sessions, t # s PROVE SessionSound(t)'
      <4>1. \A d \in Contexts : bySession[t] = d => d # c
        BY <2>8, <3>5, AtHome
      <4>2. bySession'[t] = bySession[t]
        BY <1>11, <3>11 DEF TypeInv, TypeOK
      <4>3. Unaffected(t, {}, {})
        BY <1>1, <1>2, <1>3, <2>2, <3>11, <4>1, <4>2 DEF Unaffected, Steady, ShowsNoMore
      <4>4. SessionSound(t) /\ TypeOK
        BY <2>8 DEF Sound, TypeInv
      <4> QED
        BY <1>2, <1>8, <4>3, <4>4, UnaffectedKeeps
    <3> QED
      BY <3>5, <3>6, <3>8, <3>9, <3>10, <3>11 DEF Sound
  <2> QED
    BY <2>7, <2>8
<1> QED
  BY <1>10, <1>11 DEF OnLoginReq

-----------------------------------------------------------------------------
(* The threads of the pool *)

LEMMA FinishKeeps ==
  ASSUME TypeInv, NEW e \in pending, Finish(e)
  PROVE  TypeInv' /\ (Sound => Sound')
<1>1. PoolStep({}, {})
  BY FinishEffect DEF TypeInv
<1> QED
  BY <1>1, PoolOnlyKeeps DEF Finish

LEMMA DestroyKeeps ==
  ASSUME TypeInv, Destroy
  PROVE  TypeInv' /\ (Sound => Sound')
<1>1. PoolStep({}, {})
  BY CloseEffect DEF TypeInv, Destroy
<1> QED
  BY <1>1, PoolOnlyKeeps DEF Destroy

\* The rows of an account are its own.
LEMMA RowsOwned ==
  ASSUME TypeOK, NEW a \in Accounts \cup {NULL}
  PROVE  /\ Rows(a) \in Seq(AvatarRecords)
         /\ Len(Rows(a)) \in Nat
         /\ \A i \in 1 .. Len(Rows(a)) : Owns(a, Rows(a)[i].id)
<1>1. dbAvatars[a] \in Seq(Names)
  BY DEF TypeOK
<1> DEFINE n == Len(dbAvatars[a])
<1>2. n \in Nat /\ \A i \in 1 .. n : dbAvatars[a][i] \in Names
  BY <1>1
<1>3. \A i \in 1 .. n : /\ Rows(a)[i] \in AvatarRecords
                        /\ Rows(a)[i].id = dbAvatars[a][i]
  BY <1>2, AvatarType DEF Rows
<1>4. Rows(a) = [i \in 1 .. n |-> Rows(a)[i]]
  BY DEF Rows
<1>5. Rows(a) \in Seq(AvatarRecords) /\ Len(Rows(a)) = n
  <2>1. Rows(a) \in [1 .. n -> AvatarRecords]
    BY <1>3, <1>4
  <2> HIDE DEF n
  <2> QED
    BY <1>2, <2>1
<1>6. \A i \in 1 .. n : Owns(a, dbAvatars[a][i])
  BY DEF Owns
<1> HIDE DEF n
<1> QED
  BY <1>2, <1>3, <1>5, <1>6

\* What the event has read, whatever the outcome.
LEMMA ListRead ==
  ASSUME TypeOK, NEW a \in Accounts \cup {NULL}, NEW outcome, NEW r,
         r = CASE outcome = "done" -> Rows(a)
               [] outcome = "badrow" -> SubSeq(Rows(a), 1, Len(Rows(a)) - 1)
               [] OTHER -> <<>>
  PROVE  /\ r \in Seq(AvatarRecords)
         /\ \A i \in 1 .. Len(r) : Owns(a, r[i].id)
<1>1. /\ Rows(a) \in Seq(AvatarRecords)
      /\ Len(Rows(a)) \in Nat
      /\ \A i \in 1 .. Len(Rows(a)) : Owns(a, Rows(a)[i].id)
  BY RowsOwned
<1>2. CASE outcome = "done"
  BY <1>1, <1>2
<1>3. CASE outcome = "badrow"
  <2> DEFINE n == Len(Rows(a))
             q == SubSeq(Rows(a), 1, n - 1)
  <2>1. \A i \in 1 .. n - 1 : i \in 1 .. n /\ Rows(a)[i] \in AvatarRecords
    BY <1>1
  <2>2. /\ q \in Seq(AvatarRecords)
        /\ Len(q) = IF 1 <= n - 1 THEN n - 1 - 1 + 1 ELSE 0
        /\ \A i \in 1 .. n - 1 - 1 + 1 : q[i] = Rows(a)[1 + i - 1]
    <3>1. 1 \in Int /\ n - 1 \in Int /\ \A i \in 1 .. n - 1 : Rows(a)[i] \in AvatarRecords
      BY <1>1, <2>1
    <3> HIDE DEF n
    <3> QED
      BY <3>1, SubSeqProperties
  <2>3. \A i \in 1 .. Len(q) : i \in 1 .. n - 1 /\ q[i] = Rows(a)[i]
    <3>1. n \in Nat
      BY <1>1
    <3> HIDE DEF n, q
    <3>2. \A i \in 1 .. n - 1 : 1 + i - 1 = i /\ i \in 1 .. n - 1 - 1 + 1
      BY <3>1
    <3>3. \A i \in 1 .. Len(q) : i \in 1 .. n - 1
      BY <2>2, <3>1
    <3> QED
      BY <2>2, <3>2, <3>3
  <2>4. r = q
    BY <1>3
  <2> QED
    BY <1>1, <2>1, <2>2, <2>3, <2>4
<1>4. CASE outcome # "done" /\ outcome # "badrow"
  <2>1. r = <<>>
    BY <1>4
  <2>2. Len(r) = 0 /\ r \in Seq(AvatarRecords)
    <3>1. Len(<<>>) = 0 /\ <<>> \in Seq(AvatarRecords)
      BY EmptySeq
    <3> QED
      BY <2>1, <3>1, Zenon
  <2>3. \A i : i \notin 1 .. 0
    OBVIOUS
  <2> QED
    BY <2>2, <2>3
<1> QED
  BY <1>2, <1>3, <1>4

\* A statement has been executed: the event has what it read, the tables grow.
Executed(e) ==
  /\ data' \in [Events -> Seq(AvatarRecords)]
  /\ \A f \in Events : f # e => data'[f] = data[f]
  /\ dbAvatars' \in [Accounts \cup {NULL} -> Seq(Names)] /\ RowsKept
  /\ dbAccounts' \subseteq Accounts /\ bad' \subseteq Events /\ wild' \in BOOLEAN
  /\ EventOwned(e)'
  /\ e.id = "AVATARCREATE" => Len(data'[e]) = 1 /\ data'[e][1].name \in Names

LEMMA GetAvatarListExecuted ==
  ASSUME TypeInv, NEW e \in pending, NEW outcome, e.id = "GETAVATARLIST",
         GetAvatarList(e, outcome), account' = account
  PROVE  Executed(e)
<1>1. e \in Events /\ e \notin fresh /\ e.session \in Sessions
  BY EventType DEF TypeInv, TypeOK, Apart
<1>2. PICK a \in Accounts : a = account[e.session]
  BY <1>1 DEF TypeInv, Known, Opened
<1> DEFINE r == CASE outcome = "done" -> Rows(a)
                  [] outcome = "badrow" -> SubSeq(Rows(a), 1, Len(Rows(a)) - 1)
                  [] OTHER -> <<>>
<1>3. /\ dbAccounts' = IF outcome = "failed" THEN dbAccounts ELSE dbAccounts \cup {a}
      /\ data' = [data EXCEPT ![e] = r]
      /\ bad' = IF outcome = "badrow" THEN bad \cup {e} ELSE bad
      /\ wild' \in BOOLEAN
      /\ UNCHANGED dbAvatars
  BY <1>2 DEF GetAvatarList
<1>4. r \in Seq(AvatarRecords) /\ \A i \in 1 .. Len(r) : Owns(a, r[i].id)
  BY ListRead DEF TypeInv
<1> HIDE DEF r
<1>5. data \in [Events -> Seq(AvatarRecords)] /\ dbAccounts \subseteq Accounts /\ bad \subseteq Events
      /\ dbAvatars \in [Accounts \cup {NULL} -> Seq(Names)]
  BY DEF TypeInv, TypeOK
<1>6. data' \in [Events -> Seq(AvatarRecords)] /\ data'[e] = r /\ \A f \in Events : f # e => data'[f] = data[f]
  BY <1>1, <1>3, <1>4, <1>5
<1>7. RowsKept
  BY <1>3 DEF RowsKept, Owns
<1>8. EventOwned(e)'
  <2>1. AllOwned(r, a)
    BY <1>4 DEF AllOwned, Owned
  <2>2. AllOwned(data'[e], account'[e.session])
    BY <1>2, <1>6, <2>1
  <2> QED
    BY <1>3, <2>2 DEF EventOwned, AllOwned, Owned, Owns
<1> QED
  BY <1>1, <1>3, <1>5, <1>6, <1>7, <1>8 DEF Executed

LEMMA AvatarCreateExecuted ==
  ASSUME TypeInv, NEW e \in pending, NEW outcome, e.id = "AVATARCREATE",
         AvatarCreate(e, outcome), account' = account
  PROVE  Executed(e)
<1>1. e \in Events /\ e \notin fresh /\ e.session \in Sessions /\ UnderWay(e)
  BY EventType DEF TypeInv, TypeOK, Apart, UnderWay
<1>2. PICK a \in Accounts : a = account[e.session]
  BY <1>1 DEF TypeInv, Known, Opened
<1>3. PICK name \in Names : name = data[e][1].name
  BY <1>1 DEF TypeInv, Filled
<1>4. PICK owner \in {a, NULL}, id \in {name, NULL} :
        /\ data' = [data EXCEPT ![e] = <<Avatar(name, id)>>]
        /\ \/ dbAvatars' = dbAvatars /\ id = NULL
           \/ dbAvatars' = [dbAvatars EXCEPT ![owner] = Append(@, name)]
        /\ UNCHANGED <<bad, dbAccounts, wild>>
  <2> DEFINE executed == outcome # "failed" /\ ~Taken(name)
             owner == IF a \in dbAccounts THEN a ELSE NULL
             id == IF executed /\ outcome = "done" THEN name ELSE NULL
  <2>1. /\ dbAvatars' = IF executed THEN [dbAvatars EXCEPT ![owner] = Append(@, name)]
                        ELSE dbAvatars
        /\ data' = [data EXCEPT ![e] = <<Avatar(name, id)>>]
        /\ UNCHANGED <<bad, dbAccounts, wild>>
    BY <1>2, <1>3 DEF AvatarCreate
  <2>2. owner \in {a, NULL} /\ id \in {name, NULL} /\ (~executed => id = NULL)
    OBVIOUS
  <2> HIDE DEF executed, owner, id
  <2> QED
    BY <2>1, <2>2
<1>5. /\ data \in [Events -> Seq(AvatarRecords)] /\ dbAccounts \subseteq Accounts /\ bad \subseteq Events
      /\ dbAvatars \in [Accounts \cup {NULL} -> Seq(Names)] /\ wild \in BOOLEAN
  BY DEF TypeInv, TypeOK
<1>6. owner \in Accounts \cup {NULL} /\ id \in Names \cup {NULL}
  OBVIOUS
<1>7. /\ <<Avatar(name, id)>> \in Seq(AvatarRecords)
      /\ Len(<<Avatar(name, id)>>) = 1
      /\ <<Avatar(name, id)>>[1].name = name /\ <<Avatar(name, id)>>[1].id = id
  BY <1>6, AvatarType
<1>8. /\ data' \in [Events -> Seq(AvatarRecords)]
      /\ Len(data'[e]) = 1 /\ data'[e][1].name = name /\ data'[e][1].id = id
      /\ \A f \in Events : f # e => data'[f] = data[f]
  BY <1>1, <1>4, <1>5, <1>7
<1>9. /\ dbAvatars' \in [Accounts \cup {NULL} -> Seq(Names)] /\ RowsKept
      /\ id # NULL => Owns(owner, name)'
  <2>1. CASE dbAvatars' = dbAvatars /\ id = NULL
    BY <1>5, <2>1 DEF RowsKept, Owns
  <2>2. CASE dbAvatars' = [dbAvatars EXCEPT ![owner] = Append(@, name)]
    <3>1. owner \in Accounts \cup {NULL}
      BY <1>6
    <3> DEFINE old == dbAvatars[owner]
               new == Append(old, name)
    <3>2. /\ old \in Seq(Names) /\ new \in Seq(Names)
          /\ Len(old) \in Nat /\ Len(new) = Len(old) + 1
          /\ \A i \in 1 .. Len(old) : new[i] = old[i]
          /\ new[Len(old) + 1] = name
      BY <1>5, <3>1
    <3>3. /\ dbAvatars' \in [Accounts \cup {NULL} -> Seq(Names)]
          /\ dbAvatars'[owner] = new
          /\ \A b \in Accounts \cup {NULL} : b # owner => dbAvatars'[b] = dbAvatars[b]
      BY <1>5, <2>2, <3>1, <3>2
    <3> HIDE DEF new
    <3>4. Len(old) + 1 \in 1 .. Len(new) /\ \A i \in 1 .. Len(old) : i \in 1 .. Len(new)
      BY <3>2
    <3>5. RowsKept
      <4> SUFFICES ASSUME NEW b \in Accounts \cup {NULL}, NEW n \in Names, Owns(b, n)
                   PROVE  Owns(b, n)'
        BY DEF RowsKept
      <4>1. PICK i \in 1 .. Len(dbAvatars[b]) : dbAvatars[b][i] = n
        BY DEF Owns
      <4>2. CASE b = owner
        BY <3>2, <3>3, <3>4, <4>1, <4>2 DEF Owns
      <4>3. CASE b # owner
        BY <3>3, <4>1, <4>3 DEF Owns
      <4> QED
        BY <4>2, <4>3
    <3>6. Owns(owner, name)'
      <4>1. \E i \in 1 .. Len(dbAvatars'[owner]) : dbAvatars'[owner][i] = name
        BY <3>2, <3>3, <3>4
      <4> QED
        BY <4>1 DEF Owns
    <3> QED
      BY <3>3, <3>5, <3>6
  <2> QED
    BY <1>4, <2>1, <2>2
<1>10. EventOwned(e)'
  <2>1. id # NULL => Owned(a, id)'
    BY <1>9 DEF Owned
  <2>2. ASSUME NEW i \in 1 .. Len(data'[e]), data'[e][i].id # NULL
        PROVE  data'[e][i].id = id
    BY <1>8, <2>2
  <2>3. account'[e.session] = a
    BY <1>2
  <2> QED
    BY <2>1, <2>2, <2>3 DEF EventOwned, AllOwned
<1> QED
  BY <1>1, <1>4, <1>5, <1>8, <1>9, <1>10 DEF Executed

LEMMA FireKeeps ==
  ASSUME TypeInv, NEW e \in pending, NEW outcome, Fire(e, outcome)
  PROVE  TypeInv' /\ (Sound => Sound')
<1>1. /\ e.id \in {"GETAVATARLIST", "AVATARCREATE"} /\ fired' = fired \cup {e}
      /\ IF e.id = "GETAVATARLIST" THEN GetAvatarList(e, outcome) ELSE AvatarCreate(e, outcome)
      /\ UNCHANGED <<ctx, mapVars, loopVars, masterVars, failed>> /\ UNCHANGED poolVars
  BY DEF Fire, Queries
<1>2. UNCHANGED <<account, dialogue, shown, entering>>
  BY <1>1 DEF masterVars
<1>3. Executed(e)
  BY <1>1, <1>2, GetAvatarListExecuted, AvatarCreateExecuted
<1>4. e \in Events /\ e \notin fresh
  BY DEF TypeInv, TypeOK, Apart
<1>5. PoolStep({}, {})
  BY <1>1, PoolIdle DEF TypeInv
<1>6. TypeOK'
  BY <1>1, <1>2, <1>3, <1>4, <1>5
  DEF TypeInv, TypeOK, PoolStep, PoolTyped, mapVars, loopVars, Executed
<1>7. Filled'
  <2>1. \A f \in Events : UnderWay(f)' => UnderWay(f)
    BY <1>5 DEF PoolStep
  <2>2. \A f \in fresh' : f \in fresh /\ f \in Events /\ f # e
    BY <1>1, <1>4 DEF poolVars, TypeInv, TypeOK
  <2>3. \A f \in fresh' : data'[f] = <<>>
    BY <1>3, <2>2 DEF Executed, TypeInv, Filled
  <2>4. ASSUME NEW f \in Events, UnderWay(f)'
        PROVE  /\ f.id \in {"AVATARCREATE", "AVATARSELECTDATA"} => Len(data'[f]) = 1
               /\ f.id = "AVATARCREATE" => data'[f][1].name \in Names
    <3>1. CASE f = e
      BY <1>1, <1>3, <3>1 DEF Executed
    <3>2. CASE f # e
      BY <1>3, <2>1, <2>4, <3>2 DEF Executed, TypeInv, Filled
    <3> QED
      BY <3>1, <3>2
  <2> QED
    BY <2>3, <2>4 DEF Filled
<1>8. Known'
  BY <1>1, <1>2 DEF TypeInv, Known, Opened, poolVars
<1>9. TypeInv'
  BY <1>5, <1>6, <1>7, <1>8 DEF TypeInv, PoolStep
<1>10. RowsKept /\ ContextsStay
  BY <1>1, <1>3 DEF Executed, mapVars, ContextsStay
<1>11. \A s \in Sessions : Unaffected(s, {}, {})
  BY <1>1, <1>2 DEF Unaffected, Steady, ShowsNoMore, mapVars
<1>12. \A f \in Events \ fresh' : (f \notin fresh /\ data'[f] = data[f]) \/ EventOwned(f)'
  BY <1>1, <1>3 DEF Executed, poolVars
<1>13. Sound => Sound'
  BY <1>1, <1>2, <1>5, <1>10, <1>11, <1>12, SoundKept DEF mapVars, loopVars
<1> QED
  BY <1>9, <1>13

-----------------------------------------------------------------------------
(* The end of a pass of _Loop *)

LEMMA DeleteTyped ==
  ASSUME TypeInv, NEW c \in Contexts, NEW n \in Nat, DeletePlayer(c, n)
  PROVE  /\ ctx' = [ctx EXCEPT ![c] = Blank] /\ ctx' \in [Contexts -> ContextRecords]
         /\ bySession' \in [Sessions -> Contexts \cup {NULL}]
         /\ byAvatar' \in [Names \cup {NULL} -> Contexts \cup {NULL}]
         /\ freeCnt' \in [Contexts -> Nat] /\ used' \in Nat
<1>1. /\ ctx \in [Contexts -> ContextRecords]
      /\ bySession \in [Sessions -> Contexts \cup {NULL}]
      /\ byAvatar \in [Names \cup {NULL} -> Contexts \cup {NULL}]
      /\ freeCnt \in [Contexts -> Nat] /\ used \in Nat
  BY DEF TypeInv, TypeOK
<1>2. ctx' = [ctx EXCEPT ![c] = Blank] /\ ctx' \in [Contexts -> ContextRecords]
  BY <1>1, BlankType DEF DeletePlayer
<1>3. bySession' \in [Sessions -> Contexts \cup {NULL}]
  BY <1>1 DEF DeletePlayer, WithoutSession
<1>4. byAvatar' \in [Names \cup {NULL} -> Contexts \cup {NULL}]
  BY <1>1 DEF DeletePlayer, WithoutAvatar
<1>5. freeCnt' = [freeCnt EXCEPT ![c] = @ + n] /\ used' = (used - n) % 65536
  BY DEF DeletePlayer, Free
<1>6. freeCnt' \in [Contexts -> Nat]
  BY <1>1, <1>5
<1>7. used' \in Nat
  BY <1>1, <1>5
<1> QED
  BY <1>2, <1>3, <1>4, <1>6, <1>7

LEMMA NoWrap ==
  ASSUME NEW k \in Nat, 0 < k, k < 65536
  PROVE  (k - 1) % 65536 = k - 1
  OBVIOUS

\* One player in use is given back.
LEMMA FiledOnDelete ==
  ASSUME TypeInv, Filed, NEW c \in Contexts, Live(c), DeletePlayer(c, 1)
  PROVE  /\ Filed' /\ ctx[c].sess \in Sessions
         /\ \A t \in Sessions : bySession'[t] = IF t = ctx[c].sess THEN NULL ELSE bySession[t]
         /\ \A d \in Contexts : Live(d)' <=> Live(d) /\ d # c
<1>1. /\ ctx' = [ctx EXCEPT ![c] = Blank] /\ ctx \in [Contexts -> ContextRecords]
      /\ bySession \in [Sessions -> Contexts \cup {NULL}]
      /\ freeCnt \in [Contexts -> Nat] /\ used \in Nat
      /\ \A d \in Contexts : ctx[d].sess \in Sessions \cup {NULL}
  BY DEF TypeInv, TypeOK, ContextRecords, DeletePlayer
<1>2. ctx[c].sess \in Sessions /\ bySession[ctx[c].sess] = c /\ freeCnt[c] = 0
  BY <1>1 DEF Filed, Live
<1>3. \A t \in Sessions : bySession'[t] = IF t = ctx[c].sess THEN NULL ELSE bySession[t]
  BY DEF DeletePlayer, WithoutSession
<1>4. freeCnt' = [freeCnt EXCEPT ![c] = @ + 1] /\ used' = (used - 1) % 65536
  BY DEF DeletePlayer, Free
<1>5. freeCnt'[c] = 1 /\ \A d \in Contexts : d # c => freeCnt'[d] = freeCnt[d] /\ ctx'[d] = ctx[d]
  BY <1>1, <1>2, <1>4
<1>6. \A d \in Contexts : Live(d)' <=> Live(d) /\ d # c
  BY <1>5 DEF Live
<1>7. \A t \in Sessions : bySession'[t] # NULL => ctx'[bySession'[t]].sess = t
  <2> SUFFICES ASSUME NEW t \in Sessions, bySession'[t] # NULL
               PROVE  ctx'[bySession'[t]].sess = t
    OBVIOUS
  <2>1. bySession'[t] = bySession[t] /\ t # ctx[c].sess
    BY <1>3
  <2>2. bySession[t] \in Contexts /\ ctx[bySession[t]].sess = t
    BY <1>1, <2>1 DEF Filed
  <2>3. bySession[t] # c
    BY <2>1, <2>2
  <2> QED
    BY <1>5, <2>1, <2>2, <2>3
<1>8. \A d \in Contexts :
        IF Live(d)' THEN ctx'[d].sess # NULL /\ bySession'[ctx'[d].sess] = d
        ELSE freeCnt'[d] = 1 /\ ctx'[d] = Blank
  <2> TAKE d \in Contexts
  <2>1. CASE d = c
    BY <1>1, <1>5, <1>6, <2>1
  <2>2. CASE d # c
    <3>1. IF Live(d) THEN ctx[d].sess # NULL /\ bySession[ctx[d].sess] = d
          ELSE freeCnt[d] = 1 /\ ctx[d] = Blank
      BY DEF Filed
    <3>2. Live(d) => bySession'[ctx[d].sess] = bySession[ctx[d].sess]
      BY <1>1, <1>2, <1>3, <2>2, <3>1
    <3> QED
      BY <1>5, <1>6, <2>2, <3>1, <3>2
  <2> QED
    BY <2>1, <2>2
<1>9. used' = Cardinality({d \in Contexts : Live(d)}')
  <2> DEFINE L == {d \in Contexts : Live(d)}
  <2>1. IsFiniteSet(L) /\ c \in L /\ Cardinality(L) <= Cardinality(Contexts)
    BY CacheAssumption, FS_Subset
  <2>2. L' = L \ {c}
    BY <1>6
  <2>3. used = Cardinality(L)
    BY DEF Filed
  <2> HIDE DEF L
  <2>4. Cardinality(L \ {c}) = Cardinality(L) - 1 /\ Cardinality(L) \in Nat /\ Cardinality(L) # 0
    BY <2>1, FS_RemoveElement, FS_CardinalityType, FS_EmptySet
  <2>5. Cardinality(Contexts) \in Nat /\ Cardinality(Contexts) < 65536
    BY CacheAssumption, FS_CardinalityType
  <2>6. 0 < used /\ used < 65536
    BY <1>1, <2>1, <2>3, <2>4, <2>5
  <2>7. used' = used - 1
    BY <1>1, <1>4, <2>6, NoWrap
  <2>8. Cardinality(L') = Cardinality(L \ {c})
    BY <2>2, Zenon
  <2>9. used' = Cardinality(L')
    BY <2>3, <2>4, <2>7, <2>8
  <2> QED
    BY <2>9 DEF L
<1>10. Filed'
  BY <1>7, <1>8, <1>9 DEF Filed, Blank
<1> QED
  BY <1>2, <1>3, <1>6, <1>10

LEMMA EndLoopKeeps ==
  ASSUME TypeInv, EndLoop
  PROVE  TypeInv' /\ (overrun => overrun') /\ (Sound /\ ~overrun' => Sound')
<1> DEFINE n == Len(queue)
<1>1. /\ queue' = <<>> /\ inLoop' = FALSE /\ NoPush /\ UNCHANGED masterVars
      /\ status' = IF status = "START_SHUTDOWN" THEN "READY_FOR_SHUTDOWN" ELSE status
      /\ IF n = 0 THEN UNCHANGED <<ctx, mapVars>> ELSE DeletePlayer(queue[n], n)
  BY DEF EndLoop
<1>2. overrun' = (overrun \/ n > 1)
  BY DEF EndLoop
<1>3. (overrun => overrun') /\ overrun' \in BOOLEAN /\ (n > 1 => overrun')
  BY <1>2
<1>4. n \in Nat /\ \A i \in 1 .. n : queue[i] \in Contexts
  BY ElementOfSeq DEF TypeInv, TypeOK
<1> HIDE DEF n
<1>5. PoolStep({}, {}) /\ UNCHANGED <<dbVars, failed>> /\ UNCHANGED poolVars
  BY <1>1, PoolIdle DEF TypeInv, NoPush
<1>6. UNCHANGED <<account, dialogue, shown, entering>> /\ dbAvatars' = dbAvatars /\ data' = data
  BY <1>1, <1>5 DEF masterVars, dbVars
<1>7. /\ ctx' \in [Contexts -> ContextRecords]
      /\ bySession' \in [Sessions -> Contexts \cup {NULL}]
      /\ byAvatar' \in [Names \cup {NULL} -> Contexts \cup {NULL}]
      /\ freeCnt' \in [Contexts -> Nat] /\ used' \in Nat
      /\ \A c \in Contexts : ctx'[c].sess = ctx[c].sess \/ ctx'[c].sess = NULL
  <2>1. CASE n = 0
    BY <1>1, <2>1 DEF mapVars, TypeInv, TypeOK
  <2>2. CASE n # 0
    <3>1. PICK c \in Contexts : c = queue[n]
      BY <1>4, <2>2
    <3>2. DeletePlayer(c, n)
      BY <1>1, <2>2, <3>1
    <3>3. /\ ctx' = [ctx EXCEPT ![c] = Blank] /\ ctx' \in [Contexts -> ContextRecords]
          /\ bySession' \in [Sessions -> Contexts \cup {NULL}]
          /\ byAvatar' \in [Names \cup {NULL} -> Contexts \cup {NULL}]
          /\ freeCnt' \in [Contexts -> Nat] /\ used' \in Nat
      BY <1>4, <3>2, DeleteTyped
    <3> QED
      BY <3>3 DEF Blank, TypeInv, TypeOK
  <2> QED
    BY <2>1, <2>2
<1>8. TypeOK'
  BY <1>1, <1>3, <1>5, <1>6, <1>7, EmptySeq DEF TypeInv, TypeOK, PoolStep, PoolTyped, dbVars
<1>9. Entering({}) /\ SessionsStay /\ RowsKept
  BY <1>6, <1>7 DEF Entering, SessionsStay, Opened, RowsKept, Owns
<1>10. TypeInv'
  BY <1>5, <1>6, <1>8, <1>9, AlwaysKept
<1>11. ASSUME Sound, ~overrun' PROVE Sound'
  <2>1. Filed /\ QueueLoggedOut /\ IndexBeyond /\ EventsOwned /\ TypeOK
    BY <1>11 DEF Sound, TypeInv
  <2>2. QueueLoggedOut'
    BY <1>1 DEF QueueLoggedOut
  <2>3. \A e \in Events \ fresh' : e \notin fresh /\ data'[e] = data[e]
    BY <1>5, <1>6 DEF poolVars
  <2>4. CASE n = 0
    <3>1. UNCHANGED <<ctx, mapVars>>
      BY <1>1, <2>4
    <3>2. ContextsStay /\ \A s \in Sessions : Unaffected(s, {}, {})
      BY <1>5, <1>6, <3>1 DEF ContextsStay, Unaffected, Steady, ShowsNoMore, mapVars
    <3> QED
      BY <1>5, <1>6, <1>9, <1>11, <2>2, <2>3, <3>1, <3>2, SoundKept DEF mapVars
  <2>5. CASE n # 0
    <3>1. n = 1
      BY <1>3, <1>4, <1>11, <2>5
    <3>2. PICK c \in Contexts : c = queue[1]
      BY <1>4, <3>1
    <3>3. DeletePlayer(c, 1) /\ Live(c) /\ ctx[c].st = "ONLOGOUTREQ"
      BY <1>1, <2>1, <3>1, <3>2 DEF QueueLoggedOut, n
    <3>4. /\ Filed' /\ ctx[c].sess \in Sessions
          /\ \A t \in Sessions : bySession'[t] = IF t = ctx[c].sess THEN NULL ELSE bySession[t]
          /\ \A d \in Contexts : Live(d)' <=> Live(d) /\ d # c
      BY <2>1, <3>3, FiledOnDelete
    <3>5. \A d \in Contexts : d # c => ctx'[d] = ctx[d]
      BY <3>3 DEF DeletePlayer, TypeInv, TypeOK
    <3>6. IndexBeyond'
      <4>1. \A a \in Names \cup {NULL} : byAvatar'[a] = IF a = ctx[c].avatar THEN NULL ELSE byAvatar[a]
        BY <3>3 DEF DeletePlayer, WithoutAvatar, TypeInv, TypeOK
      <4>2. \A a \in Names \cup {NULL} : byAvatar[a] = c => a = ctx[c].avatar
        BY <2>1 DEF IndexBeyond
      <4> QED
        BY <2>1, <3>4, <3>5, <4>1, <4>2, CacheAssumption DEF IndexBeyond
    <3>7. EventsOwned'
      BY <1>6, <1>9, <2>1, <2>3, EventsOwnedKept
    <3>8. PICK s \in Sessions : s = ctx[c].sess
      BY <3>4
    <3>9. bySession[s] = c
      BY <2>1, <3>3, <3>8 DEF Filed
    <3>10. SessionSound(s)'
      <4>1. SessionSound(s)
        BY <1>11 DEF Sound
      <4>2. \A id : OnTheWay(id, s)' => OnTheWay(id, s)
        BY <1>5 DEF poolVars, OnTheWay, UnderWay
      <4>3. ~OnTheWay("GETAVATARLIST", s) /\ ~OnTheWay("AVATARSELECTDATA", s)
        BY <3>3, <3>9, <4>1 DEF SessionSound, StateFits
      <4>4. AtMostOne("GETAVATARLIST", s)' /\ AtMostOne("AVATARSELECTDATA", s)'
        BY <1>5, <4>1 DEF SessionSound, AtMostOne, UnderWay, poolVars
      <4>5. bySession'[s] = NULL
        BY <3>4, <3>8
      <4> QED
        BY <4>2, <4>3, <4>4, <4>5, CacheAssumption DEF SessionSound
    <3>11. ASSUME NEW t \in Sessions, t # s PROVE SessionSound(t)'
      <4>1. \A d \in Contexts : bySession[t] = d => d # c
        BY <1>11, <3>8, <3>11, AtHome
      <4>2. bySession'[t] = bySession[t]
        BY <3>4, <3>8, <3>11
      <4>3. Unaffected(t, {}, {})
        BY <1>5, <1>6, <3>5, <4>1, <4>2 DEF Unaffected, Steady, ShowsNoMore
      <4>4. SessionSound(t)
        BY <1>11 DEF Sound
      <4> QED
        BY <1>5, <1>9, <2>1, <4>3, <4>4, UnaffectedKeeps
    <3> QED
      BY <2>2, <3>4, <3>6, <3>7, <3>10, <3>11 DEF Sound
  <2> QED
    BY <2>4, <2>5
<1> QED
  BY <1>3, <1>10, <1>11

-----------------------------------------------------------------------------
(* Results *)

\* What every handler of a result leaves in its place.
ResultTyped ==
  /\ ctx' \in [Contexts -> ContextRecords] /\ queue' \in Seq(Contexts)
  /\ \A b \in Contexts : ctx'[b].sess = ctx[b].sess
  /\ byAvatar' \in [Names \cup {NULL} -> Contexts \cup {NULL}]
  /\ dialogue' \in [Sessions -> DialogueStates]
  /\ \A t \in Sessions : dialogue[t] # "out" => dialogue'[t] # "out"
  /\ shown' \in [Sessions -> Seq(Names \cup {NULL})]
  /\ failed' \subseteq Sessions \cup {NULL}
  /\ UNCHANGED <<account, entering>>

LEMMA NamesOf ==
  ASSUME NEW r \in Seq(AvatarRecords)
  PROVE  /\ [i \in 1 .. Len(r) |-> r[i].name] \in Seq(Names \cup {NULL})
         /\ Len([i \in 1 .. Len(r) |-> r[i].name]) = Len(r)
         /\ \A i \in 1 .. Len(r) : r[i].name \in Names \cup {NULL} /\ r[i].id \in Names \cup {NULL}
<1>1. Len(r) \in Nat /\ \A i \in 1 .. Len(r) : r[i] \in AvatarRecords
  OBVIOUS
<1>2. \A i \in 1 .. Len(r) : r[i].name \in Names \cup {NULL} /\ r[i].id \in Names \cup {NULL}
  BY <1>1 DEF AvatarRecords
<1>3. [i \in 1 .. Len(r) |-> r[i].name] \in [1 .. Len(r) -> Names \cup {NULL}]
  BY <1>2
<1> QED
  BY <1>1, <1>2, <1>3

LEMMA ResultTypes ==
  ASSUME TypeInv, NEW c \in Contexts, NEW e \in Events, UnderWay(e), NEW ok \in BOOLEAN,
         NEW converted \in BOOLEAN, PlayerEventResult(c, e, ok, converted)
  PROVE  ResultTyped
<1>1. /\ ctx \in [Contexts -> ContextRecords] /\ queue \in Seq(Contexts)
      /\ byAvatar \in [Names \cup {NULL} -> Contexts \cup {NULL}]
      /\ dialogue \in [Sessions -> DialogueStates]
      /\ shown \in [Sessions -> Seq(Names \cup {NULL})]
      /\ failed \subseteq Sessions \cup {NULL} /\ data[e] \in Seq(AvatarRecords)
  BY DEF TypeInv, TypeOK
<1>2. /\ ctx[c].sess \in Sessions \cup {NULL} /\ ctx[c].st \in States
      /\ ctx[c].avatars \in Seq(AvatarRecords) /\ ctx[c].fin \in BOOLEAN
      /\ ctx[c].avatar \in Names \cup {NULL}
  BY <1>1 DEF ContextRecords
<1>3. /\ \A x : After(ctx[c].st, x) \in States
      /\ {"list", "leaving", "channel"} \subseteq DialogueStates \ {"out"}
  BY <1>2, StateTypes DEF DialogueStates
<1>4. \A told \in BOOLEAN : Noted(c, told) => failed' \subseteq Sessions \cup {NULL}
  BY <1>1, <1>2 DEF Noted
<1>5. ASSUME NEW told \in BOOLEAN, e.id = "GETAVATARLIST", GetAvatarListResult(c, e, told),
             UNCHANGED <<queue, byAvatar>>
      PROVE  ResultTyped
  <2>1. CASE ~Takes(ctx[c].st, "AVATARLISTACK")
    BY <1>1, <1>5, <2>1 DEF GetAvatarListResult, ResultTyped, masterVars
  <2>2. CASE Takes(ctx[c].st, "AVATARLISTACK")
    <3> DEFINE names == [i \in 1 .. Len(data[e]) |-> data[e][i].name]
               ret == IF e \in bad THEN -1 ELSE 0
               s == ctx[c].sess
               heard == told /\ dialogue[s] = "listwait"
    <3>1. /\ ctx' = [ctx EXCEPT ![c].st = After(@, "AVATARLISTACK"),
                                ![c].avatars = IF e \in bad THEN @ ELSE data[e]]
          /\ dialogue' = [dialogue EXCEPT ![s] =
                            IF ~heard THEN @ ELSE IF ret = 0 THEN "list" ELSE "leaving"]
          /\ shown' = [shown EXCEPT ![s] = IF heard /\ ret = 0 THEN names ELSE @]
          /\ UNCHANGED <<account, entering>> /\ Noted(c, told)
      BY <1>5, <2>2 DEF GetAvatarListResult, MasterListAck, Listed
    <3>2. names \in Seq(Names \cup {NULL})
      BY <1>1, NamesOf
    <3> HIDE DEF names, ret, heard
    <3>3. ctx' \in [Contexts -> ContextRecords] /\ \A b \in Contexts : ctx'[b].sess = ctx[b].sess
      <4> DEFINE st == After(ctx[c].st, "AVATARLISTACK")
                 avatars == IF e \in bad THEN ctx[c].avatars ELSE data[e]
      <4>1. st \in States /\ avatars \in Seq(AvatarRecords)
        BY <1>1, <1>2, <1>3
      <4>2. ctx' = [ctx EXCEPT ![c] = [ctx[c] EXCEPT !.st = st, !.avatars = avatars]]
        BY <1>1, <3>1
      <4> HIDE DEF st, avatars
      <4> QED
        BY <1>1, <4>1, <4>2 DEF ContextRecords
    <3>4. /\ dialogue' \in [Sessions -> DialogueStates]
          /\ \A t \in Sessions : dialogue[t] # "out" => dialogue'[t] # "out"
      BY <1>1, <1>3, <3>1
    <3>5. shown' \in [Sessions -> Seq(Names \cup {NULL})]
      BY <1>1, <3>1, <3>2
    <3> QED
      BY <1>1, <1>4, <1>5, <3>1, <3>3, <3>4, <3>5 DEF ResultTyped
  <2> QED
    BY <2>1, <2>2
<1>6. CASE e.id = "AVATARCREATE" /\ AvatarCreateResult(c, e, ok, converted) /\ UNCHANGED <<queue, byAvatar>>
  <2>1. CASE ~converted \/ Len(ctx[c].avatars) >= AvatarCountMax
    BY <1>1, <1>4, <1>6, <2>1 DEF AvatarCreateResult, ResultTyped, masterVars
  <2>2. CASE ~(~converted \/ Len(ctx[c].avatars) >= AvatarCountMax)
    <3> DEFINE s == ctx[c].sess
               heard == ok /\ dialogue[s] = "createwait" /\ Len(shown[s]) < AvatarCountMax
    <3>1. /\ ctx' = [ctx EXCEPT ![c].avatars = @ \o data[e]]
          /\ dialogue' = [dialogue EXCEPT ![s] = IF heard THEN "list" ELSE @]
          /\ shown' = [shown EXCEPT ![s] = IF heard THEN Append(@, data[e][1].name) ELSE @]
          /\ Noted(c, ok) /\ UNCHANGED <<account, entering>>
      BY <1>6, <2>2 DEF AvatarCreateResult
    <3>2. data[e][1].name \in Names /\ ctx[c].avatars \o data[e] \in Seq(AvatarRecords)
      BY <1>1, <1>2, <1>6 DEF TypeInv, Filled
    <3> HIDE DEF heard
    <3>3. ctx' \in [Contexts -> ContextRecords] /\ \A b \in Contexts : ctx'[b].sess = ctx[b].sess
      BY <1>1, <3>1, <3>2 DEF ContextRecords
    <3>4. /\ dialogue' \in [Sessions -> DialogueStates]
          /\ \A t \in Sessions : dialogue[t] # "out" => dialogue'[t] # "out"
      BY <1>1, <1>3, <3>1
    <3>5. shown' \in [Sessions -> Seq(Names \cup {NULL})]
      <4>1. s \in Sessions => Append(shown[s], data[e][1].name) \in Seq(Names \cup {NULL})
        BY <1>1, <3>2
      <4> QED
        BY <1>1, <3>1, <4>1
    <3> QED
      BY <1>1, <1>4, <1>6, <3>1, <3>3, <3>4, <3>5 DEF ResultTyped
  <2> QED
    BY <2>1, <2>2
<1>7. ASSUME NEW told \in BOOLEAN, e.id = "AVATARSELECTDATA", AvatarSelectResult(c, e, told),
             UNCHANGED byAvatar
      PROVE  ResultTyped
  <2> DEFINE s == ctx[c].sess
             out == SelectRefused(c, told) /\ ctx[c].st \in NothingToSave
  <2>1. /\ ctx' = [ctx EXCEPT ![c].avatar = data[e][1].id,
                              ![c].entered = IF ctx[c].avatar = NULL THEN @ ELSE FALSE,
                              ![c].st = IF told THEN After(@, "AVATARSELECTACK") ELSE @,
                              ![c].fin = @ \/ out]
        /\ queue' = IF out THEN Append(queue, c) ELSE queue
        /\ dialogue' = [dialogue EXCEPT ![s] = IF told /\ @ = "selectwait" THEN "channel" ELSE @]
        /\ Noted(c, told)
        /\ UNCHANGED <<account, shown, entering>>
    BY <1>7 DEF AvatarSelectResult
  <2>2. data[e][1].id \in Names \cup {NULL}
    <3>1. Len(data[e]) = 1
      BY <1>7 DEF TypeInv, Filled
    <3> QED
      BY <1>1, <3>1, NamesOf
  <2> HIDE DEF out
  <2>3. ctx' \in [Contexts -> ContextRecords] /\ \A b \in Contexts : ctx'[b].sess = ctx[b].sess
    <3> DEFINE st == IF told THEN After(ctx[c].st, "AVATARSELECTACK") ELSE ctx[c].st
               entered == IF ctx[c].avatar = NULL THEN ctx[c].entered ELSE FALSE
               fin == ctx[c].fin \/ out
               avatar == data[e][1].id
    <3>1. st \in States /\ entered \in BOOLEAN /\ fin \in BOOLEAN /\ avatar \in Names \cup {NULL}
      BY <1>1, <1>2, <1>3, <2>2 DEF ContextRecords
    <3>2. ctx' = [ctx EXCEPT ![c] = [ctx[c] EXCEPT !.avatar = avatar, !.entered = entered,
                                                   !.st = st, !.fin = fin]]
      BY <1>1, <2>1
    <3> HIDE DEF st, entered, fin, avatar
    <3> QED
      BY <1>1, <3>1, <3>2 DEF ContextRecords
  <2>4. queue' \in Seq(Contexts)
    BY <1>1, <2>1
  <2>5. /\ dialogue' \in [Sessions -> DialogueStates]
        /\ \A t \in Sessions : dialogue[t] # "out" => dialogue'[t] # "out"
    BY <1>1, <1>3, <2>1
  <2> QED
    BY <1>1, <1>4, <1>7, <2>1, <2>3, <2>4, <2>5 DEF ResultTyped
<1>8. CASE e.id = "AVATARENTERREGION" /\ AvatarEnterRegionResult(c, ok) /\ UNCHANGED <<queue, masterVars>>
  <2>1. /\ ctx' = [ctx EXCEPT ![c].entered = TRUE,
                              ![c].st = IF ok THEN After(@, "REGIONENTERACK") ELSE @]
        /\ byAvatar' = [byAvatar EXCEPT ![ctx[c].avatar] = IF @ = NULL THEN c ELSE @]
        /\ Noted(c, ok)
    BY <1>8 DEF AvatarEnterRegionResult
  <2>2. ctx' \in [Contexts -> ContextRecords] /\ \A b \in Contexts : ctx'[b].sess = ctx[b].sess
    <3> DEFINE st == IF ok THEN After(ctx[c].st, "REGIONENTERACK") ELSE ctx[c].st
    <3>1. st \in States
      BY <1>2, <1>3
    <3>2. ctx' = [ctx EXCEPT ![c] = [ctx[c] EXCEPT !.entered = TRUE, !.st = st]]
      BY <1>1, <2>1
    <3> HIDE DEF st
    <3> QED
      BY <1>1, <3>1, <3>2 DEF ContextRecords
  <2>3. byAvatar' \in [Names \cup {NULL} -> Contexts \cup {NULL}]
    BY <1>1, <1>2, <2>1
  <2> QED
    BY <1>1, <1>4, <1>8, <2>1, <2>2, <2>3 DEF ResultTyped, masterVars
<1>9. CASE e.id = "AVATARFINALIZE" /\ AvatarFinalizeResult(c) /\ UNCHANGED <<byAvatar, masterVars, failed>>
  <2>1. ctx' = [ctx EXCEPT ![c].fin = TRUE] /\ queue' = Append(queue, c)
    BY <1>9 DEF AvatarFinalizeResult
  <2>2. ctx' \in [Contexts -> ContextRecords] /\ \A b \in Contexts : ctx'[b].sess = ctx[b].sess
    BY <1>1, <2>1 DEF ContextRecords
  <2>3. queue' \in Seq(Contexts)
    BY <1>1, <2>1
  <2> QED
    BY <1>1, <1>9, <2>2, <2>3 DEF ResultTyped, masterVars
<1>10. CASE e.id = "AVATARLOGOUT" /\ AvatarLogoutResult(c) /\ UNCHANGED <<queue, byAvatar, masterVars, failed>>
  <2>1. ctx' = [ctx EXCEPT ![c].entered = FALSE]
    BY <1>10 DEF AvatarLogoutResult
  <2>2. ctx' \in [Contexts -> ContextRecords] /\ \A b \in Contexts : ctx'[b].sess = ctx[b].sess
    BY <1>1, <2>1 DEF ContextRecords
  <2> QED
    BY <1>1, <1>10, <2>2 DEF ResultTyped, masterVars
<1> QED
  <2>1. (ok /\ converted) \in BOOLEAN /\ (ok /\ (converted \/ Listed(c, e) = <<>>)) \in BOOLEAN
    OBVIOUS
  <2> QED
    BY <1>5, <1>6, <1>7, <1>8, <1>9, <1>10, <2>1 DEF PlayerEventResult

\* The answer e for session s has been taken off, and reaches context c.
Collected(c, e, s) ==
  /\ UnderWay(e) /\ e.session = s /\ bySession[s] = c /\ ctx[c].sess = s /\ Live(c)
  /\ PoolStep({}, {e}) /\ data' = [data EXCEPT ![e] = <<>>]
  /\ UNCHANGED <<bySession, freeCnt, used, dbAvatars>>
  /\ ResultTyped

\* A handler touches its own context and its own session only.
OwnOnly(c, s) ==
  /\ \A b \in Contexts : b # c => ctx'[b] = ctx[b]
  /\ \A t \in Sessions : t # s =>
       dialogue'[t] = dialogue[t] /\ shown'[t] = shown[t] /\ (t \in failed' <=> t \in failed)

LEMMA ResultSound ==
  ASSUME TypeInv, Sound, NEW c \in Contexts, NEW e \in Events, NEW s \in Sessions,
         Collected(c, e, s), OwnOnly(c, s), ContextsStay,
         QueueLoggedOut' \/ UNCHANGED queue, IndexBeyond' \/ UNCHANGED byAvatar,
         Unaffected(s, {}, {e}) \/ SessionSound(s)'
  PROVE  Sound'
<1>1. RowsKept /\ PoolStep({}, {e}) /\ account' = account
  BY DEF Collected, RowsKept, Owns, ResultTyped
<1>2. ASSUME NEW t \in Sessions, t # s PROVE Unaffected(t, {}, {e})
  <2>1. \A b \in Contexts : bySession[t] = b => b # c
    BY <1>2, AtHome DEF Collected
  <2> QED
    BY <1>1, <1>2, <2>1 DEF Unaffected, Steady, ShowsNoMore, OwnOnly, Collected
<1>3. \A f \in Events \ fresh' : (f \notin fresh /\ data'[f] = data[f]) \/ EventOwned(f)'
  <2>1. data'[e] = <<>> /\ \A f \in Events : f # e => data'[f] = data[f]
    BY DEF Collected, TypeInv, TypeOK
  <2>2. EventOwned(e)'
    BY <2>1 DEF EventOwned, AllOwned
  <2> QED
    BY <1>1, <2>1, <2>2 DEF PoolStep
<1> QED
  BY <1>1, <1>2, <1>3, SoundKept

\* What is known of a context when an answer reaches it.
LEMMA AnswerMeets ==
  ASSUME TypeInv, Sound, NEW c \in Contexts, NEW e \in Events, NEW s \in Sessions,
         Collected(c, e, s)
  PROVE  /\ SessionSound(s) /\ StateFits(c, s) /\ ShownKnown(c, s) /\ Awaited(c, s) /\ Owner(c, s)
         /\ OnTheWay(e.id, s) /\ EventOwned(e) /\ data[e] \in Seq(AvatarRecords)
         /\ \A id : OnTheWay(id, s)' => OnTheWay(id, s)
         /\ \A id : AtMostOne(id, s) => AtMostOne(id, s)'
         /\ AtMostOne(e.id, s) => ~OnTheWay(e.id, s)'
<1>1. SessionSound(s) /\ bySession[s] = c
  BY DEF Sound, Collected
<1>2. StateFits(c, s) /\ ShownKnown(c, s) /\ Awaited(c, s) /\ Owner(c, s)
  BY <1>1 DEF SessionSound
<1>3. OnTheWay(e.id, s)
  BY DEF Collected, OnTheWay
<1>4. EventOwned(e)
  <2>1. e \notin fresh
    BY DEF Collected, UnderWay, TypeInv, Apart
  <2> QED
    BY <2>1 DEF Sound, EventsOwned
<1>5. \A f \in Events : UnderWay(f)' => UnderWay(f) /\ f # e
  BY DEF Collected, PoolStep
<1>6. \A id : OnTheWay(id, s)' => OnTheWay(id, s)
  BY <1>5 DEF OnTheWay
<1>7. \A id : AtMostOne(id, s) => AtMostOne(id, s)'
  BY <1>5 DEF AtMostOne
<1>8. AtMostOne(e.id, s) => ~OnTheWay(e.id, s)'
  BY <1>5 DEF AtMostOne, OnTheWay, Collected
<1> QED
  BY <1>1, <1>2, <1>3, <1>4, <1>6, <1>7, <1>8 DEF TypeInv, TypeOK

LEMMA GetAvatarListKeeps ==
  ASSUME TypeInv, Sound, NEW c \in Contexts, NEW e \in Events, NEW s \in Sessions, NEW ok \in BOOLEAN,
         Collected(c, e, s), e.id = "GETAVATARLIST", GetAvatarListResult(c, e, ok),
         UNCHANGED <<queue, byAvatar>>
  PROVE  Sound'
<1>1. /\ SessionSound(s) /\ StateFits(c, s) /\ ShownKnown(c, s) /\ Awaited(c, s) /\ Owner(c, s)
      /\ OnTheWay("GETAVATARLIST", s) /\ EventOwned(e) /\ data[e] \in Seq(AvatarRecords)
      /\ \A id : OnTheWay(id, s)' => OnTheWay(id, s)
      /\ \A id : AtMostOne(id, s) => AtMostOne(id, s)'
      /\ AtMostOne("GETAVATARLIST", s) => ~OnTheWay("GETAVATARLIST", s)'
  BY AnswerMeets
<1>2. ctx[c].st = "ONAVATARLISTREQ" /\ dialogue[s] \in {"listwait", "bye"}
  BY <1>1 DEF StateFits
<1>3. Takes(ctx[c].st, "AVATARLISTACK") /\ After(ctx[c].st, "AVATARLISTACK") = "AVATARLISTACK"
  BY <1>2, Machine, Rules
<1> DEFINE names == [i \in 1 .. Len(data[e]) |-> data[e][i].name]
           heard == ok /\ dialogue[s] = "listwait"
<1>4. /\ ctx' = [ctx EXCEPT ![c].st = After(@, "AVATARLISTACK"),
                            ![c].avatars = IF e \in bad THEN @ ELSE data[e]]
      /\ dialogue' = [dialogue EXCEPT ![s] =
           IF ~heard THEN @ ELSE IF (IF e \in bad THEN -1 ELSE 0) = 0 THEN "list" ELSE "leaving"]
      /\ shown' = [shown EXCEPT ![s] =
           IF heard /\ (IF e \in bad THEN -1 ELSE 0) = 0 THEN names ELSE @]
      /\ Noted(c, ok) /\ ctx[c].sess = s
  BY <1>3 DEF GetAvatarListResult, MasterListAck, Listed, Collected
<1>5. /\ ctx \in [Contexts -> ContextRecords] /\ dialogue \in [Sessions -> DialogueStates]
      /\ shown \in [Sessions -> Seq(Names \cup {NULL})]
  BY DEF TypeInv, TypeOK
<1>6. /\ Len(names) = Len(data[e]) /\ \A i \in 1 .. Len(data[e]) : names[i] = data[e][i].name
  BY <1>1, NamesOf
<1> HIDE DEF names
<1>7. /\ ctx'[c].st = "AVATARLISTACK" /\ ctx'[c].avatar = ctx[c].avatar
      /\ ctx'[c].avatars = IF e \in bad THEN ctx[c].avatars ELSE data[e]
      /\ ctx'[c].sess = ctx[c].sess
      /\ \A b \in Contexts : b # c => ctx'[b] = ctx[b]
  BY <1>3, <1>4, <1>5 DEF ContextRecords
<1>8. /\ dialogue'[s] \in {"list", "createwait"} => e \notin bad /\ shown'[s] = names
      /\ \A t \in Sessions : t # s => dialogue'[t] = dialogue[t] /\ shown'[t] = shown[t]
  BY <1>2, <1>4, <1>5
<1>9. OwnOnly(c, s)
  BY <1>4, <1>7, <1>8 DEF OwnOnly, Noted
<1>10. ContextsStay
  BY <1>2, <1>7 DEF ContextsStay, Collected, Beyond
<1>11. StateFits(c, s)'
  BY <1>1, <1>2 DEF StateFits, Beyond, SessionSound
<1>12. ShownKnown(c, s)'
  <2> SUFFICES ASSUME dialogue'[s] \in {"list", "createwait"}, NEW i \in 1 .. Len(shown'[s])
               PROVE  \E j \in 1 .. Len(ctx'[c].avatars) : ctx'[c].avatars[j].name = shown'[s][i]
    BY DEF ShownKnown
  <2>1. shown'[s] = names /\ ctx'[c].avatars = data[e]
    BY <1>7, <1>8
  <2> QED
    BY <1>6, <2>1
<1>13. Awaited(c, s)'
  BY <1>7 DEF Awaited
<1>14. Owner(c, s)'
  <2>1. account'[s] = account[s] /\ dbAvatars' = dbAvatars /\ e.session = s
    BY DEF Collected, ResultTyped
  <2>2. AllOwned(ctx'[c].avatars, account[s]) /\ (ctx[c].avatar # NULL => Owned(account[s], ctx[c].avatar))
    BY <1>1, <1>7, <2>1 DEF Owner, EventOwned
  <2> QED
    BY <1>7, <2>1, <2>2 DEF Owner, AllOwned, Owned, Owns
<1>15. AtMostOne("GETAVATARLIST", s)' /\ AtMostOne("AVATARSELECTDATA", s)'
  BY <1>1 DEF SessionSound
<1>16. bySession'[s] = c
  BY DEF Collected
<1>17. SessionSound(s)'
  BY <1>11, <1>12, <1>13, <1>14, <1>15, <1>16, CacheAssumption DEF SessionSound
<1> QED
  BY <1>9, <1>10, <1>17, ResultSound

LEMMA AvatarCreateKeeps ==
  ASSUME TypeInv, Sound, NEW c \in Contexts, NEW e \in Events, NEW s \in Sessions, NEW ok \in BOOLEAN,
         NEW converted \in BOOLEAN,
         Collected(c, e, s), e.id = "AVATARCREATE", AvatarCreateResult(c, e, ok, converted),
         UNCHANGED <<queue, byAvatar>>
  PROVE  Sound'
<1>1. /\ SessionSound(s) /\ ShownKnown(c, s) /\ Owner(c, s)
      /\ EventOwned(e) /\ data[e] \in Seq(AvatarRecords)
  BY AnswerMeets
<1>2. /\ UNCHANGED <<bySession, freeCnt, used, account, dbAvatars>> /\ e.session = s
      /\ ctx[c].sess = s /\ Live(c) /\ PoolStep({}, {e}) /\ bySession[s] = c
  BY DEF Collected, ResultTyped
<1>3. CASE ~converted \/ Len(ctx[c].avatars) >= AvatarCountMax
  <2>1. UNCHANGED <<ctx, dialogue, shown>> /\ Noted(c, converted)
    BY <1>3 DEF AvatarCreateResult, masterVars
  <2>2. OwnOnly(c, s) /\ ContextsStay
    BY <1>2, <2>1 DEF OwnOnly, ContextsStay, Noted
  <2>3. Unaffected(s, {}, {e})
    BY <1>2, <2>1 DEF Noted, Unaffected, Steady, ShowsNoMore, Side
  <2> QED
    BY <2>2, <2>3, ResultSound
<1>4. CASE ~(~converted \/ Len(ctx[c].avatars) >= AvatarCountMax)
  <2> DEFINE heard == ok /\ dialogue[s] = "createwait" /\ Len(shown[s]) < AvatarCountMax
  <2>1. /\ ctx' = [ctx EXCEPT ![c].avatars = @ \o data[e]]
        /\ dialogue' = [dialogue EXCEPT ![s] = IF heard THEN "list" ELSE @]
        /\ shown' = [shown EXCEPT ![s] = IF heard THEN Append(@, data[e][1].name) ELSE @]
        /\ Noted(c, ok)
    BY <1>2, <1>4 DEF AvatarCreateResult
  <2>2. /\ ctx \in [Contexts -> ContextRecords] /\ dialogue \in [Sessions -> DialogueStates]
        /\ shown \in [Sessions -> Seq(Names \cup {NULL})] /\ ctx[c].avatars \in Seq(AvatarRecords)
    BY DEF TypeInv, TypeOK, ContextRecords
  <2>3. Len(data[e]) = 1 /\ data[e][1].name \in Names
    BY DEF Collected, TypeInv, Filled
  <2> DEFINE k == Len(ctx[c].avatars)
             r == ctx[c].avatars \o data[e]
  <2>4. /\ ctx'[c].avatars = r /\ ctx'[c].st = ctx[c].st /\ ctx'[c].avatar = ctx[c].avatar
        /\ ctx'[c].sess = ctx[c].sess /\ ctx'[c].fin = ctx[c].fin
        /\ \A b \in Contexts : b # c => ctx'[b] = ctx[b]
    BY <2>1, <2>2 DEF ContextRecords
  <2>5. /\ k \in Nat /\ Len(r) = k + 1 /\ r[k + 1] = data[e][1]
        /\ \A i \in 1 .. k : r[i] = ctx[c].avatars[i]
    <3>1. PICK a \in Seq(AvatarRecords) : a = ctx[c].avatars
      BY <2>2
    <3>2. PICK d \in Seq(AvatarRecords) : d = data[e]
      BY <1>1
    <3>3. Len(d) = 1 /\ Len(a) \in Nat
      BY <2>3, <3>1, <3>2
    <3>4. /\ Len(a \o d) = Len(a) + Len(d)
          /\ \A i \in 1 .. Len(a) + Len(d) : (a \o d)[i] = IF i <= Len(a) THEN a[i] ELSE d[i - Len(a)]
      BY ConcatProperties
    <3>5. PICK q : q = a \o d
      OBVIOUS
    <3>6. /\ Len(q) = Len(a) + 1 /\ q[Len(a) + 1] = d[1]
          /\ \A i \in 1 .. Len(a) : q[i] = a[i]
      BY <3>3, <3>4, <3>5
    <3> QED
      BY <3>1, <3>2, <3>3, <3>5, <3>6, Zenon
  <2> HIDE DEF r
  <2>6. \A i \in 1 .. Len(r) : i \in 1 .. k \/ i = k + 1
    BY <2>5
  <2>7. k + 1 \in 1 .. Len(r) /\ \A i \in 1 .. k : i \in 1 .. Len(r)
    BY <2>5
  <2>8. \A t \in Sessions : t # s => dialogue'[t] = dialogue[t] /\ shown'[t] = shown[t]
    BY <2>1, <2>2
  <2>9. /\ dialogue'[s] = IF heard THEN "list" ELSE dialogue[s]
        /\ shown'[s] = IF heard THEN Append(shown[s], data[e][1].name) ELSE shown[s]
    BY <2>1, <2>2
  <2>10. OwnOnly(c, s) /\ ContextsStay
    BY <1>2, <2>1, <2>4, <2>8 DEF OwnOnly, ContextsStay, Noted
  <2>11. Steady(s, {}, {e})
    BY <1>2, <2>1, <2>4, <2>9 DEF Steady, Side, Noted
  <2>12. ShownKnown(c, s)'
    <3> SUFFICES ASSUME dialogue'[s] \in {"list", "createwait"}, s \notin failed',
                        NEW i \in 1 .. Len(shown'[s])
                 PROVE  \E j \in 1 .. Len(r) : r[j].name = shown'[s][i]
      BY <2>4 DEF ShownKnown
    <3>1. s \notin failed /\ dialogue[s] \in {"list", "createwait"}
      BY <2>1, <2>9 DEF Noted
    <3>2. \A x \in 1 .. Len(shown[s]) : \E j \in 1 .. Len(r) : r[j].name = shown[s][x]
      BY <1>1, <2>5, <2>7, <3>1 DEF ShownKnown
    <3>3. CASE ~heard
      BY <2>9, <3>2, <3>3
    <3>4. CASE heard
      <4>1. shown'[s] = Append(shown[s], data[e][1].name) /\ shown[s] \in Seq(Names \cup {NULL})
        BY <2>2, <2>9, <3>4
      <4>2. /\ Len(shown[s]) \in Nat /\ Len(shown'[s]) = Len(shown[s]) + 1
            /\ \A x \in 1 .. Len(shown[s]) : shown'[s][x] = shown[s][x]
            /\ shown'[s][Len(shown[s]) + 1] = data[e][1].name
        BY <2>3, <4>1
      <4>3. i \in 1 .. Len(shown[s]) \/ i = Len(shown[s]) + 1
        BY <4>2
      <4> QED
        BY <2>5, <2>7, <3>2, <4>2, <4>3
    <3> QED
      BY <3>3, <3>4
  <2>13. Owner(c, s)'
    <3>1. AllOwned(ctx[c].avatars, account[s]) /\ AllOwned(data[e], account[s])
      BY <1>1, <1>2 DEF Owner, EventOwned
    <3>2. AllOwned(r, account[s])
      BY <2>3, <2>5, <2>6, <3>1 DEF AllOwned
    <3>3. ctx[c].avatar # NULL => Owned(account[s], ctx[c].avatar)
      BY <1>1 DEF Owner
    <3>4. AllOwned(ctx'[c].avatars, account'[s])
      BY <1>2, <2>4, <3>2
    <3> QED
      BY <1>2, <2>4, <3>3, <3>4 DEF Owner, AllOwned, Owned, Owns
  <2>14. SessionSound(s)'
    BY <1>1, <1>2, <2>11, <2>12, <2>13, SteadyKeeps, CacheAssumption DEF TypeInv
  <2> QED
    BY <2>10, <2>14, ResultSound
<1> QED
  BY <1>3, <1>4

\* What the others wait for is still coming.
LEMMA WaitsKept ==
  ASSUME NEW c \in Contexts, NEW e \in Events, NEW s \in Sessions, NEW id,
         Collected(c, e, s), id # e.id, id # "AVATARSAVEDATA", s \in failed => s \in failed',
         Waits(id, s)
  PROVE  Waits(id, s)'
<1> SUFFICES ASSUME s \notin failed', open' PROVE OnTheWay(id, s)' \/ LostFor(id, s)'
  BY DEF Waits
<1>1. PoolStep({}, {e}) /\ open
  BY DEF Collected, PoolStep
<1>2. CASE LostFor(id, s)
  BY <1>1, <1>2 DEF LostFor, PoolStep
<1>3. CASE OnTheWay(id, s)
  <2>1. PICK f \in Events : f.id = id /\ f.session = s /\ UnderWay(f)
    BY <1>3 DEF OnTheWay
  <2>2. f # e /\ f \in Answered
    BY <2>1 DEF Answered
  <2>3. UnderWay(f)' \/ f \in lost'
    BY <1>1, <2>1, <2>2 DEF PoolStep
  <2> QED
    BY <2>1, <2>3 DEF OnTheWay, LostFor
<1> QED
  BY <1>1, <1>2, <1>3 DEF Waits

LEMMA AvatarSelectKeeps ==
  ASSUME TypeInv, Sound, NEW c \in Contexts, NEW e \in Events, NEW s \in Sessions, NEW ok \in BOOLEAN,
         Collected(c, e, s), e.id = "AVATARSELECTDATA", AvatarSelectResult(c, e, ok),
         UNCHANGED byAvatar
  PROVE  Sound'
<1>1. /\ SessionSound(s) /\ StateFits(c, s) /\ ShownKnown(c, s) /\ Owner(c, s)
      /\ OnTheWay("AVATARSELECTDATA", s) /\ EventOwned(e) /\ data[e] \in Seq(AvatarRecords)
      /\ \A id : OnTheWay(id, s)' => OnTheWay(id, s)
      /\ \A id : AtMostOne(id, s) => AtMostOne(id, s)'
      /\ AtMostOne("AVATARSELECTDATA", s) => ~OnTheWay("AVATARSELECTDATA", s)'
  BY AnswerMeets
<1>2. ctx[c].st = "ONAVATARSELECTREQ"
  BY <1>1 DEF StateFits
<1>3. Takes(ctx[c].st, "AVATARSELECTACK") /\ After(ctx[c].st, "AVATARSELECTACK") = "AVATARSELECTACK"
  BY <1>2, Machine, Rules
<1>4. ~SelectRefused(c, ok)
  BY <1>3 DEF SelectRefused
<1> DEFINE out == SelectRefused(c, ok) /\ ctx[c].st \in NothingToSave
<1>5. /\ ctx' = [ctx EXCEPT ![c].avatar = data[e][1].id,
                            ![c].entered = IF ctx[c].avatar = NULL THEN @ ELSE FALSE,
                            ![c].st = IF ok THEN After(@, "AVATARSELECTACK") ELSE @,
                            ![c].fin = @ \/ out]
      /\ queue' = IF out THEN Append(queue, c) ELSE queue
      /\ dialogue' = [dialogue EXCEPT ![s] = IF ok /\ @ = "selectwait" THEN "channel" ELSE @]
      /\ Noted(c, ok) /\ shown' = shown /\ ctx[c].sess = s
  BY DEF AvatarSelectResult, Collected
<1>6. ctx \in [Contexts -> ContextRecords] /\ dialogue \in [Sessions -> DialogueStates]
  BY DEF TypeInv, TypeOK
<1>7. queue' = queue
  BY <1>4, <1>5
<1>8. /\ ctx'[c].st = (IF ok THEN "AVATARSELECTACK" ELSE "ONAVATARSELECTREQ")
      /\ ctx'[c].avatar = data[e][1].id
      /\ ctx'[c].avatars = ctx[c].avatars /\ ctx'[c].sess = ctx[c].sess
      /\ \A b \in Contexts : b # c => ctx'[b] = ctx[b]
  <2> DEFINE st == IF ok THEN After(ctx[c].st, "AVATARSELECTACK") ELSE ctx[c].st
             entered == IF ctx[c].avatar = NULL THEN ctx[c].entered ELSE FALSE
             fin == ctx[c].fin \/ out
             avatar == data[e][1].id
  <2>1. ctx' = [ctx EXCEPT ![c] = [ctx[c] EXCEPT !.avatar = avatar, !.entered = entered,
                                                 !.st = st, !.fin = fin]]
    BY <1>5, <1>6
  <2>2. st = IF ok THEN "AVATARSELECTACK" ELSE "ONAVATARSELECTREQ"
    BY <1>2, <1>3
  <2> HIDE DEF st, entered, fin, avatar
  <2>3. /\ ctx'[c].st = st /\ ctx'[c].avatar = avatar
        /\ ctx'[c].avatars = ctx[c].avatars /\ ctx'[c].sess = ctx[c].sess
        /\ \A b \in Contexts : b # c => ctx'[b] = ctx[b]
    BY <1>6, <2>1 DEF ContextRecords
  <2> QED
    BY <2>2, <2>3 DEF avatar
<1> HIDE DEF out
<1>9. /\ dialogue'[s] \in {"list", "createwait"} => dialogue[s] = dialogue'[s]
      /\ \A t \in Sessions : t # s => dialogue'[t] = dialogue[t]
      /\ s \in failed => s \in failed'
      /\ ~ok => s \in failed'
  BY <1>5, <1>6 DEF Noted
<1>10. OwnOnly(c, s)
  BY <1>5, <1>8, <1>9 DEF OwnOnly, Noted
<1>11. ContextsStay
  BY <1>2, <1>8 DEF ContextsStay, Collected, Beyond
<1>12. StateFits(c, s)'
  BY <1>1, <1>2 DEF StateFits, Beyond, SessionSound
<1>13. ShownKnown(c, s)'
  <2>1. dialogue'[s] \in {"list", "createwait"} /\ s \notin failed' =>
          dialogue[s] \in {"list", "createwait"} /\ s \notin failed
    BY <1>9
  <2>2. shown'[s] = shown[s] /\ ctx'[c].avatars = ctx[c].avatars
    BY <1>5, <1>8
  <2> QED
    BY <1>1, <2>1, <2>2 DEF ShownKnown
<1>14. Awaited(c, s)'
  BY <1>8, <1>9 DEF Awaited, Waits
<1>15. Owner(c, s)'
  <2>1. account'[s] = account[s] /\ dbAvatars' = dbAvatars /\ e.session = s
    BY DEF Collected, ResultTyped
  <2>2. Len(data[e]) = 1
    BY DEF Collected, TypeInv, Filled
  <2>3. AllOwned(ctx[c].avatars, account[s]) /\ (data[e][1].id # NULL => Owned(account[s], data[e][1].id))
    BY <1>1, <2>1, <2>2 DEF Owner, EventOwned, AllOwned
  <2> QED
    BY <1>8, <2>1, <2>3 DEF Owner, AllOwned, Owned, Owns
<1>16. AtMostOne("GETAVATARLIST", s)' /\ AtMostOne("AVATARSELECTDATA", s)'
  BY <1>1 DEF SessionSound
<1>17. bySession'[s] = c
  BY DEF Collected
<1>18. SessionSound(s)'
  BY <1>12, <1>13, <1>14, <1>15, <1>16, <1>17, CacheAssumption DEF SessionSound
<1> QED
  BY <1>7, <1>10, <1>11, <1>18, ResultSound

LEMMA AvatarEnterRegionKeeps ==
  ASSUME TypeInv, Sound, NEW c \in Contexts, NEW e \in Events, NEW s \in Sessions, NEW ok \in BOOLEAN,
         Collected(c, e, s), e.id = "AVATARENTERREGION", AvatarEnterRegionResult(c, ok),
         UNCHANGED <<queue, masterVars>>
  PROVE  Sound'
<1>1. /\ SessionSound(s) /\ StateFits(c, s) /\ ShownKnown(c, s) /\ Awaited(c, s) /\ Owner(c, s)
      /\ OnTheWay("AVATARENTERREGION", s)
      /\ \A id : OnTheWay(id, s)' => OnTheWay(id, s)
      /\ \A id : AtMostOne(id, s) => AtMostOne(id, s)'
  BY AnswerMeets
<1>2. ctx[c].st \in Beyond
  BY <1>1 DEF StateFits
<1> DEFINE st == IF ok THEN After(ctx[c].st, "REGIONENTERACK") ELSE ctx[c].st
<1>3. /\ st \in Beyond /\ (st = "ONLOGOUTREQ" <=> ctx[c].st = "ONLOGOUTREQ")
      /\ st = "ONREGIONENTERREQ" => ~ok
  BY <1>2, Machine, Rules DEF Beyond
<1>4. ctx \in [Contexts -> ContextRecords]
  BY DEF TypeInv, TypeOK
<1>5. /\ ctx' = [ctx EXCEPT ![c] = [ctx[c] EXCEPT !.entered = TRUE, !.st = st]]
      /\ byAvatar' = [byAvatar EXCEPT ![ctx[c].avatar] = IF @ = NULL THEN c ELSE @]
      /\ Noted(c, ok) /\ ctx[c].sess = s
  BY <1>4 DEF AvatarEnterRegionResult, Collected
<1> HIDE DEF st
<1>6. /\ ctx'[c].st = st /\ ctx'[c].avatar = ctx[c].avatar
      /\ ctx'[c].avatars = ctx[c].avatars /\ ctx'[c].sess = ctx[c].sess /\ ctx'[c].fin = ctx[c].fin
      /\ \A b \in Contexts : b # c => ctx'[b] = ctx[b]
  BY <1>4, <1>5 DEF ContextRecords
<1>7. /\ UNCHANGED <<account, dialogue, shown, freeCnt, used, bySession, dbAvatars>>
      /\ s \in failed => s \in failed'
      /\ ~ok => s \in failed'
  BY <1>5 DEF masterVars, Noted, Collected
<1>8. OwnOnly(c, s)
  BY <1>5, <1>6, <1>7 DEF OwnOnly, Noted
<1>9. ContextsStay
  BY <1>3, <1>6, <1>7 DEF ContextsStay, Collected
<1>10. IndexBeyond'
  <2>1. IndexBeyond /\ Live(c) /\ byAvatar \in [Names \cup {NULL} -> Contexts \cup {NULL}]
    BY DEF Sound, Collected, TypeInv, TypeOK
  <2>2. \A b \in Contexts : Live(b) => Live(b)'
    BY <1>7 DEF Live
  <2> SUFFICES ASSUME NEW a \in Names \cup {NULL}, NEW b \in Contexts, byAvatar'[a] = b
               PROVE  Live(b)' /\ ctx'[b].avatar = a /\ ctx'[b].st \in Beyond
    BY DEF IndexBeyond
  <2>3. byAvatar[a] = b \/ (a = ctx[c].avatar /\ b = c)
    BY <1>5, <2>1
  <2> QED
    BY <1>3, <1>6, <2>1, <2>2, <2>3 DEF IndexBeyond
<1>11. StateFits(c, s)'
  BY <1>1, <1>2, <1>3, <1>6 DEF StateFits, Beyond
<1>12. ShownKnown(c, s)'
  BY <1>1, <1>6, <1>7 DEF ShownKnown
<1>13. Awaited(c, s)'
  <2>1. ctx[c].st = "ONLOGOUTREQ" => Waits("AVATARFINALIZE", s)' \/ ctx[c].fin
    BY <1>1, <1>7, WaitsKept DEF Awaited
  <2> QED
    BY <1>3, <1>6, <1>7, <2>1 DEF Awaited, Waits, Beyond
<1>14. Owner(c, s)'
  BY <1>1, <1>6, <1>7 DEF Owner, AllOwned, Owned, Owns
<1>15. AtMostOne("GETAVATARLIST", s)' /\ AtMostOne("AVATARSELECTDATA", s)'
  BY <1>1 DEF SessionSound
<1>16. bySession'[s] = c
  BY DEF Collected
<1>17. SessionSound(s)'
  BY <1>11, <1>12, <1>13, <1>14, <1>15, <1>16, CacheAssumption DEF SessionSound
<1> QED
  BY <1>8, <1>9, <1>10, <1>17, ResultSound

LEMMA AvatarFinalizeKeeps ==
  ASSUME TypeInv, Sound, NEW c \in Contexts, NEW e \in Events, NEW s \in Sessions,
         Collected(c, e, s), e.id = "AVATARFINALIZE", AvatarFinalizeResult(c),
         UNCHANGED <<byAvatar, masterVars, failed>>
  PROVE  Sound'
<1>1. StateFits(c, s) /\ OnTheWay("AVATARFINALIZE", s)
  BY AnswerMeets
<1>2. ctx[c].st = "ONLOGOUTREQ" /\ Live(c)
  BY <1>1 DEF StateFits, Collected
<1>3. ctx \in [Contexts -> ContextRecords] /\ queue \in Seq(Contexts)
  BY DEF TypeInv, TypeOK
<1>4. /\ ctx'[c] = [ctx[c] EXCEPT !.fin = TRUE] /\ ctx'[c].fin
      /\ ctx'[c].st = ctx[c].st /\ ctx'[c].sess = ctx[c].sess
      /\ ctx'[c].avatar = ctx[c].avatar /\ ctx'[c].avatars = ctx[c].avatars
      /\ \A b \in Contexts : b # c => ctx'[b] = ctx[b]
  BY <1>3 DEF AvatarFinalizeResult, ContextRecords
<1>5. UNCHANGED <<account, dialogue, shown, freeCnt, used, bySession>>
  BY DEF masterVars, Collected
<1>6. OwnOnly(c, s) /\ ContextsStay
  BY <1>2, <1>4, <1>5 DEF OwnOnly, ContextsStay
<1>7. QueueLoggedOut'
  <2>1. QueueLoggedOut /\ queue' = Append(queue, c)
    BY DEF Sound, AvatarFinalizeResult
  <2>2. \A b \in Contexts : Live(b) /\ ctx[b].st = "ONLOGOUTREQ" => Live(b)' /\ ctx'[b].st = "ONLOGOUTREQ"
    BY <1>4, <1>5 DEF Live
  <2>3. \A i \in 1 .. Len(queue') :
          (i \in 1 .. Len(queue) /\ queue'[i] = queue[i] /\ queue[i] \in Contexts) \/ queue'[i] = c
    BY <1>3, <2>1
  <2> QED
    BY <1>2, <2>1, <2>2, <2>3 DEF QueueLoggedOut
<1>8. Unaffected(s, {}, {e})
  BY <1>4, <1>5 DEF Unaffected, Steady, ShowsNoMore, Collected
<1> QED
  BY <1>6, <1>7, <1>8, ResultSound

LEMMA AvatarLogoutKeeps ==
  ASSUME TypeInv, Sound, NEW c \in Contexts, NEW e \in Events, NEW s \in Sessions,
         Collected(c, e, s), e.id = "AVATARLOGOUT", AvatarLogoutResult(c),
         UNCHANGED <<queue, byAvatar, masterVars, failed>>
  PROVE  Sound'
<1>1. ctx \in [Contexts -> ContextRecords]
  BY DEF TypeInv, TypeOK
<1>2. /\ ctx'[c].fin = ctx[c].fin /\ ctx'[c].st = ctx[c].st /\ ctx'[c].sess = ctx[c].sess
      /\ ctx'[c].avatar = ctx[c].avatar /\ ctx'[c].avatars = ctx[c].avatars
      /\ \A b \in Contexts : b # c => ctx'[b] = ctx[b]
  BY <1>1 DEF AvatarLogoutResult, ContextRecords
<1>3. UNCHANGED <<account, dialogue, shown, freeCnt, used, bySession>>
  BY DEF masterVars, Collected
<1>4. OwnOnly(c, s) /\ ContextsStay
  BY <1>2, <1>3 DEF OwnOnly, ContextsStay, Collected
<1>5. Unaffected(s, {}, {e})
  BY <1>2, <1>3 DEF Unaffected, Steady, ShowsNoMore, Collected, Side
<1> QED
  BY <1>4, <1>5, ResultSound

LEMMA DBEventResultKeeps ==
  ASSUME TypeInv, NEW ok \in BOOLEAN, NEW converted \in BOOLEAN, DBEventResult(ok, converted)
  PROVE  TypeInv' /\ (Sound => Sound')
<1>a. PICK e : e = Head(returned)
  OBVIOUS
<1>b. PICK c : c = bySession[e.session]
  OBVIOUS
<1>c. PICK E : E = IF c = NULL THEN {} ELSE SavedFirst(c, e, ok /\ converted)
  OBVIOUS
<1>1. /\ inLoop' = TRUE /\ data' = [data EXCEPT ![e] = <<>>]
      /\ returned # <<>> /\ CollectAndPush(E)
      /\ UNCHANGED <<bySession, freeCnt, used, status, overrun, fired, bad, dbAccounts, dbAvatars, wild>>
      /\ IF c = NULL THEN UNCHANGED <<ctx, byAvatar, queue, masterVars, failed>>
         ELSE PlayerEventResult(c, e, ok, converted)
  BY <1>a, <1>b, <1>c DEF DBEventResult
<1>2. e \in Events /\ UnderWay(e) /\ e \notin fresh \cup pending
  BY <1>a, <1>1, TailOfReturned DEF TypeInv, CollectAndPush
<1>3. e.session \in Sessions /\ c \in Contexts \cup {NULL}
  BY <1>b, <1>2, EventType DEF TypeInv, TypeOK
<1>4. /\ \A f \in E : f \in fresh /\ f.id = "AVATARFINALIZE" /\ f.session = ctx[c].sess
      /\ E # {} => c # NULL /\ e.id = "AVATARSELECTDATA" /\ SelectRefused(c, ok /\ converted)
  BY <1>c DEF SavedFirst, NextOf, FreshOf
<1>5. c = NULL => E = {}
  BY <1>c
<1>6. PoolStep(E, {e})
  BY <1>a, <1>1, <1>4, CollectEffect DEF TypeInv
<1>7. ResultTyped
  <2>1. CASE c = NULL
    BY <1>1, <2>1 DEF ResultTyped, TypeInv, TypeOK, masterVars
  <2>2. CASE c # NULL
    <3>1. c \in Contexts /\ PlayerEventResult(c, e, ok, converted)
      BY <1>1, <1>3, <2>2
    <3> QED
      BY <1>2, <3>1, ResultTypes
  <2> QED
    BY <2>1, <2>2
<1>8. TypeInv'
  <2>1. data \in [Events -> Seq(AvatarRecords)]
    BY DEF TypeInv, TypeOK
  <2>2. data' \in [Events -> Seq(AvatarRecords)]
    BY <1>1, <2>1, EmptySeq
  <2>3. TypeOK'
    BY <1>1, <1>6, <1>7, <2>2 DEF TypeInv, TypeOK, PoolStep, PoolTyped, ResultTyped
  <2>4. \A f \in E : f.session \in Sessions /\ Opened(f.session)
    <3>1. \A f \in E : f \in Events /\ c \in Contexts /\ f.session = ctx[c].sess
      BY <1>3, <1>4, <1>5 DEF TypeInv, TypeOK
    <3>2. \A f \in E : f.session \in Sessions
      BY <3>1, EventType
    <3> QED
      BY <3>1, <3>2, CacheAssumption DEF TypeInv, Known
  <2>5. Entering(E)
    BY <1>4, <2>4 DEF Entering
  <2>6. SessionsStay
    BY <1>7 DEF ResultTyped, SessionsStay, Opened
  <2>7. \A f \in Events : f \notin E \cup {e} => data'[f] = data[f]
    BY <1>1, <2>1
  <2> QED
    BY <1>6, <2>3, <2>5, <2>6, <2>7, AlwaysKept
<1>9. ASSUME Sound, c = NULL PROVE Sound'
  <2>1. E = {} /\ UNCHANGED <<ctx, byAvatar, queue, masterVars, failed>> /\ bySession[e.session] = NULL
    BY <1>b, <1>1, <1>5, <1>9
  <2>2. RowsKept /\ ContextsStay /\ PoolStep({}, {e})
    BY <1>1, <1>6, <2>1 DEF RowsKept, Owns, ContextsStay
  <2>3. \A s \in Sessions : Unaffected(s, {}, {e})
    BY <1>1, <2>1 DEF Unaffected, Steady, ShowsNoMore, masterVars
  <2>4. \A f \in Events \ fresh' : (f \notin fresh /\ data'[f] = data[f]) \/ EventOwned(f)'
    <3>1. data'[e] = <<>> /\ \A f \in Events : f # e => data'[f] = data[f]
      BY <1>1, <1>2 DEF TypeInv, TypeOK
    <3>2. EventOwned(e)'
      BY <3>1 DEF EventOwned, AllOwned
    <3> QED
      BY <3>1, <3>2, <2>2 DEF PoolStep
  <2>5. \A s \in Sessions : Opened(s) => account'[s] = account[s]
    BY <2>1 DEF masterVars
  <2> QED
    BY <1>9, <2>1, <2>2, <2>3, <2>4, <2>5, SoundKept
<1>10. ASSUME Sound, c # NULL PROVE Sound'
  <2>1. c \in Contexts /\ PlayerEventResult(c, e, ok, converted)
    BY <1>1, <1>3, <1>10
  <2>2. PICK s \in Sessions : s = e.session
    BY <1>3
  <2>3. bySession[s] = c
    BY <1>b, <2>2
  <2>4. ctx[c].sess = s /\ Live(c)
    <3>1. ctx[c].sess = s
      BY <1>10, <2>1, <2>3 DEF Sound, Filed
    <3>2. ~Live(c) => ctx[c] = Blank
      BY <1>10, <2>1 DEF Sound, Filed
    <3> QED
      BY <3>1, <3>2, CacheAssumption DEF Blank
  <2>5. E = {}
    <3> SUFFICES ASSUME E # {} PROVE FALSE
      OBVIOUS
    <3>1. e.id = "AVATARSELECTDATA" /\ ~Takes(ctx[c].st, "AVATARSELECTACK")
      BY <1>4 DEF SelectRefused
    <3>2. OnTheWay("AVATARSELECTDATA", s)
      BY <1>2, <2>2, <3>1 DEF OnTheWay
    <3>3. SessionSound(s)
      BY <1>10 DEF Sound
    <3>4. ctx[c].st = "ONAVATARSELECTREQ"
      BY <2>1, <2>3, <3>2, <3>3 DEF SessionSound, StateFits
    <3> QED
      BY <3>1, <3>4, Machine
  <2>6. Collected(c, e, s)
    BY <1>1, <1>2, <1>6, <1>7, <2>2, <2>3, <2>4, <2>5 DEF Collected
  <2>7. ASSUME NEW told \in BOOLEAN, e.id = "GETAVATARLIST", GetAvatarListResult(c, e, told),
               UNCHANGED <<queue, byAvatar>>
        PROVE  Sound'
    BY <1>2, <1>10, <2>1, <2>6, <2>7, GetAvatarListKeeps
  <2>8. CASE e.id = "AVATARCREATE" /\ AvatarCreateResult(c, e, ok, converted) /\ UNCHANGED <<queue, byAvatar>>
    BY <1>2, <1>10, <2>1, <2>6, <2>8, AvatarCreateKeeps
  <2>9. ASSUME NEW told \in BOOLEAN, e.id = "AVATARSELECTDATA", AvatarSelectResult(c, e, told),
               UNCHANGED byAvatar
        PROVE  Sound'
    BY <1>2, <1>10, <2>1, <2>6, <2>9, AvatarSelectKeeps
  <2>10. CASE e.id = "AVATARENTERREGION" /\ AvatarEnterRegionResult(c, ok) /\ UNCHANGED <<queue, masterVars>>
    BY <1>2, <1>10, <2>1, <2>6, <2>10, AvatarEnterRegionKeeps
  <2>11. CASE e.id = "AVATARFINALIZE" /\ AvatarFinalizeResult(c) /\ UNCHANGED <<byAvatar, masterVars, failed>>
    BY <1>2, <1>10, <2>1, <2>6, <2>11, AvatarFinalizeKeeps
  <2>12. CASE e.id = "AVATARLOGOUT" /\ AvatarLogoutResult(c) /\ UNCHANGED <<queue, byAvatar, masterVars, failed>>
    BY <1>2, <1>10, <2>1, <2>6, <2>12, AvatarLogoutKeeps
  <2>13. (ok /\ converted) \in BOOLEAN /\ (ok /\ (converted \/ Listed(c, e) = <<>>)) \in BOOLEAN
    OBVIOUS
  <2> QED
    BY <2>1, <2>7, <2>8, <2>9, <2>10, <2>11, <2>12, <2>13 DEF PlayerEventResult
<1> QED
  BY <1>8, <1>9, <1>10

-----------------------------------------------------------------------------
(* The theorems *)

LEMMA SoundInit == Init => Sound
<1> SUFFICES ASSUME Init PROVE Sound
  OBVIOUS
<1>1. /\ ctx = [c \in Contexts |-> Blank] /\ bySession = [s \in Sessions |-> NULL]
      /\ byAvatar = [a \in Names \cup {NULL} |-> NULL] /\ queue = <<>>
      /\ freeCnt = [c \in Contexts |-> 1] /\ used = 0
      /\ pending = {} /\ returned = <<>> /\ data = [e \in Events |-> <<>>]
  BY DEF Init, Pool!PoolInit
<1>2. \A c \in Contexts : ~Live(c) /\ freeCnt[c] = 1 /\ ctx[c] = Blank
  BY <1>1 DEF Live
<1>3. Filed
  <2>1. { c \in Contexts : Live(c) } = {}
    BY <1>2
  <2>2. Cardinality({ c \in Contexts : Live(c) }) = 0
    BY <2>1, FS_EmptySet, Zenon
  <2> QED
    BY <1>1, <1>2, <2>2 DEF Filed
<1>4. EventsOwned
  BY <1>1 DEF EventsOwned, EventOwned, AllOwned
<1>5. QueueLoggedOut /\ IndexBeyond
  BY <1>1, CacheAssumption DEF QueueLoggedOut, IndexBeyond
<1>6. \A e : ~UnderWay(e)
  BY <1>1 DEF UnderWay
<1>7. \A s \in Sessions : SessionSound(s)
  BY <1>1, <1>6, CacheAssumption DEF SessionSound, AtMostOne, OnTheWay
<1> QED
  BY <1>3, <1>4, <1>5, <1>7 DEF Sound

\* The steps of the server and of the database, one by one.
LEMMA CacheStep ==
  ASSUME CacheInv, [Next]_vars
  PROVE  CacheInv'
<1>1. TypeInv /\ (~overrun => Sound)
  BY DEF CacheInv
<1>2. SUFFICES TypeInv' /\ (overrun => overrun') /\ (Sound /\ ~overrun' => Sound')
  BY <1>1 DEF CacheInv
<1>3. CASE UNCHANGED vars
  <2>1. /\ UNCHANGED <<ctx, mapVars, loopVars, dbVars, masterVars, failed>> /\ UNCHANGED poolVars
        /\ overrun' = overrun
    BY <1>3 DEF vars, loopVars
  <2>2. PoolStep({}, {})
    BY <1>1, <2>1, PoolIdle DEF TypeInv
  <2> QED
    BY <1>1, <2>1, <2>2, PoolOnlyKeeps
<1>4. ASSUME NEW s \in Sessions, Command(s)
      PROVE  TypeInv' /\ (overrun => overrun') /\ (Sound /\ ~overrun' => Sound')
  <2>1. ASSUME NEW a \in Accounts, OnLoginReq(s, a)
        PROVE  TypeInv' /\ overrun' = overrun /\ (Sound => Sound')
    BY <1>1, <2>1, OnLoginReqKeeps DEF OnLoginReq, loopVars
  <2>2. ASSUME NEW alloc \in {NULL, "GETAVATARLIST"}, NEW ok \in BOOLEAN, OnAvatarListReq(s, alloc, ok)
        PROVE  TypeInv' /\ overrun' = overrun /\ (Sound => Sound')
    BY <1>1, <2>2, OnAvatarListReqKeeps DEF OnAvatarListReq, loopVars
  <2>3. ASSUME NEW name \in Names, NEW alloc \in {NULL, "AVATARCREATE"}, NEW ok \in BOOLEAN,
               OnAvatarCreateReq(s, name, alloc, ok)
        PROVE  TypeInv' /\ overrun' = overrun /\ (Sound => Sound')
    BY <1>1, <2>3, OnAvatarCreateReqKeeps DEF OnAvatarCreateReq, loopVars
  <2>4. ASSUME NEW name \in Names, NEW alloc \in {NULL, "AVATARSELECTDATA"}, NEW ok \in BOOLEAN,
               OnAvatarSelectReq(s, name, alloc, ok)
        PROVE  TypeInv' /\ overrun' = overrun /\ (Sound => Sound')
    BY <1>1, <2>4, OnAvatarSelectReqKeeps DEF OnAvatarSelectReq, loopVars
  <2>5. ASSUME ChannelSelected(s)
        PROVE  TypeInv' /\ overrun' = overrun /\ (Sound => Sound')
    BY <1>1, <2>5, ChannelSelectedKeeps DEF ChannelSelected, loopVars
  <2>6. ASSUME NEW alloc \in {NULL, "AVATARENTERREGION"}, OnRegionEnterReq(s, alloc)
        PROVE  TypeInv' /\ overrun' = overrun /\ (Sound => Sound')
    BY <1>1, <2>6, OnRegionEnterReqKeeps DEF OnRegionEnterReq, loopVars
  <2>7. ASSUME NEW alloc \in {NULL, "AVATARLOGOUT", "AVATARFINALIZE"}, OnLogoutReq(s, alloc)
        PROVE  TypeInv' /\ overrun' = overrun /\ (Sound => Sound')
    BY <1>1, <2>7, OnLogoutReqKeeps DEF OnLogoutReq, loopVars
  <2> QED
    BY <1>4, <2>1, <2>2, <2>3, <2>4, <2>5, <2>6, <2>7, CacheAssumption DEF Command
<1>5. ASSUME NEW due \in SUBSET Contexts, SaveDataToDB(due)
      PROVE  TypeInv' /\ overrun' = overrun /\ (Sound => Sound')
  BY <1>1, <1>5, SaveDataToDBKeeps DEF SaveDataToDB, loopVars
<1>6. ASSUME Shutdown PROVE TypeInv' /\ overrun' = overrun /\ (Sound => Sound')
  BY <1>1, <1>6, ShutdownKeeps DEF Shutdown
<1>7. ASSUME PoolWork PROVE TypeInv' /\ overrun' = overrun /\ (Sound => Sound')
  <2>1. ASSUME NEW e \in pending, NEW outcome \in Outcomes, Fire(e, outcome)
        PROVE  TypeInv' /\ overrun' = overrun /\ (Sound => Sound')
    BY <1>1, <2>1, FireKeeps DEF Fire, loopVars
  <2>2. ASSUME NEW e \in pending, Finish(e)
        PROVE  TypeInv' /\ overrun' = overrun /\ (Sound => Sound')
    BY <1>1, <2>2, FinishKeeps DEF Finish, loopVars
  <2> QED
    BY <1>7, <2>1, <2>2 DEF PoolWork
<1>8. ASSUME Results PROVE TypeInv' /\ overrun' = overrun /\ (Sound => Sound')
  <2>1. PICK ok \in SendResults, converted \in Conversions : DBEventResult(ok, converted)
    BY <1>8 DEF Results
  <2>2. ok \in BOOLEAN /\ converted \in BOOLEAN /\ overrun' = overrun
    BY <2>1, CacheAssumption DEF DBEventResult
  <2> QED
    BY <1>1, <2>1, <2>2, DBEventResultKeeps
<1>9. CASE EndLoop
  BY <1>1, <1>9, EndLoopKeeps
<1>10. ASSUME Destroy PROVE TypeInv' /\ overrun' = overrun /\ (Sound => Sound')
  BY <1>1, <1>10, DestroyKeeps DEF Destroy, loopVars
<1> QED
  BY <1>3, <1>4, <1>5, <1>6, <1>7, <1>8, <1>9, <1>10 DEF Next, Ended

LEMMA CacheInductive == Spec => []CacheInv
<1>1. Init => CacheInv
  BY TypeInit, SoundInit DEF CacheInv
<1>2. CacheInv /\ [Next]_vars => CacheInv'
  BY CacheStep
<1> QED
  BY <1>1, <1>2, PTL DEF Spec

\* The context of a session that is filed, and the contexts in the pool.
LEMMA ContextHome ==
  ASSUME TypeInv, Sound, NEW c \in Contexts
  PROVE  \/ ctx[c] = Blank
         \/ \E s \in Sessions : /\ ctx[c].sess = s /\ bySession[s] = c
                                /\ Awaited(c, s) /\ Owner(c, s)
<1>1. ctx[c].sess \in Sessions \cup {NULL}
  BY DEF TypeInv, TypeOK, ContextRecords
<1>2. ctx[c] = Blank \/ (ctx[c].sess # NULL /\ bySession[ctx[c].sess] = c)
  BY DEF Sound, Filed
<1> QED
  BY <1>1, <1>2 DEF Sound, SessionSound

\* The variables of the cache server keep their C++ types, whatever the
\* database, the allocations, the conversions, the sends and the master do, even after one pass
\* of _Loop has met two players.
THEOREM CacheTypeCorrect == Spec => []TypeOK
<1>1. CacheInv => TypeOK
  BY DEF CacheInv, TypeInv
<1> QED
  BY <1>1, CacheInductive, PTL

\* CacheServerLoop's session map and m_PlayerContextPool agree on the contexts
\* in use, until one pass of _Loop has met two players.
THEOREM ContextsExactAlways == Spec => []ContextsExact
<1>1. CacheInv => ContextsExact
  BY DEF CacheInv, Sound, Filed, ContextsExact
<1> QED
  BY <1>1, CacheInductive, PTL

\* An answer of the database to the list or the selection of a session finds
\* the context of that session waiting for it in _OnPlayerEventResult.
THEOREM CacheAnswersExpectedAlways == Spec => []AnswersExpected
<1>1. CacheInv => AnswersExpected
  <2> SUFFICES ASSUME CacheInv, ~overrun, NEW s \in Sessions
               PROVE  /\ OnTheWay("GETAVATARLIST", s) =>
                           bySession[s] # NULL /\ ctx[bySession[s]].st = "ONAVATARLISTREQ"
                      /\ OnTheWay("AVATARSELECTDATA", s) =>
                           bySession[s] # NULL /\ ctx[bySession[s]].st = "ONAVATARSELECTREQ"
    BY DEF AnswersExpected
  <2>1. SessionSound(s) /\ bySession[s] \in Contexts \cup {NULL}
    BY DEF CacheInv, TypeInv, TypeOK, Sound
  <2> QED
    BY <2>1 DEF SessionSound, StateFits
<1> QED
  BY <1>1, CacheInductive, PTL

\* No player context waits in vain: what it waits for is on the way, unless the
\* pool lost it, an allocation, a conversion or a send failed, or the pool is
\* closed.
THEOREM CacheWaitingIsAnsweredAlways == Spec => []WaitingIsAnswered
<1>1. CacheInv => WaitingIsAnswered
  <2> SUFFICES ASSUME CacheInv, ~overrun, NEW c \in Contexts
               PROVE  Awaited(c, ctx[c].sess)
    BY DEF WaitingIsAnswered, Awaited, Waits
  <2>1. TypeInv /\ Sound
    BY DEF CacheInv
  <2>2. ctx[c] = Blank => Awaited(c, ctx[c].sess)
    BY DEF Awaited, Blank
  <2> QED
    BY <2>1, <2>2, ContextHome
<1> QED
  BY <1>1, CacheInductive, PTL

\* m_mPlayerContextByAvatarId points to contexts in use that play the avatar
\* they are filed under: DeletePlayer takes out what AddPlayerContextByAvatarId
\* has put in.
THEOREM AvatarIndexSoundAlways == Spec => []AvatarIndexSound
<1>1. CacheInv => AvatarIndexSound
  <2> SUFFICES ASSUME CacheInv, ~overrun, NEW a \in Names \cup {NULL}, byAvatar[a] # NULL
               PROVE  Live(byAvatar[a]) /\ ctx[byAvatar[a]].avatar = a
    BY DEF AvatarIndexSound
  <2>1. byAvatar[a] \in Contexts /\ IndexBeyond
    BY DEF CacheInv, TypeInv, TypeOK, Sound
  <2> QED
    BY <2>1 DEF IndexBeyond
<1> QED
  BY <1>1, CacheInductive, PTL

\* A player context plays an avatar that the tables give to the account of its
\* session, or to no account, however the lists, creations and selections of
\* the sessions interleave and whoever had the context before.
THEOREM PlaysOwnAvatarAlways == Spec => []PlaysOwnAvatar
<1>1. CacheInv => PlaysOwnAvatar
  <2> SUFFICES ASSUME CacheInv, ~overrun, NEW c \in Contexts, ctx[c].avatar # NULL
               PROVE  Owns(account[ctx[c].sess], ctx[c].avatar) \/ Owns(NULL, ctx[c].avatar)
    BY DEF PlaysOwnAvatar
  <2>1. TypeInv /\ Sound
    BY DEF CacheInv
  <2>2. ctx[c] # Blank
    BY DEF Blank
  <2>3. PICK s \in Sessions : ctx[c].sess = s /\ Owner(c, s)
    BY <2>1, <2>2, ContextHome
  <2> QED
    BY <2>3 DEF Owner, Owned
<1> QED
  BY <1>1, CacheInductive, PTL
=============================================================================
