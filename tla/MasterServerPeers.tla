------------------------- MODULE MasterServerPeers -------------------------
(***************************************************************************)
(* Proofs about what the master server keeps with the other servers: its   *)
(* lists of their players, the answers they owe and what they are told.    *)
(* The argument is per session: what the peers know of a session fits the  *)
(* state of the player filed under it.                                     *)
(***************************************************************************)
EXTENDS MasterServerProofs

-----------------------------------------------------------------------------
(* The invariant *)

\* What the peers have of session s.
View(p, s) ==
  [ owed  |-> { a \in p.owed : a.sid = s },
    login |-> s \in p.loginWait,
    cache |-> s \in p.cacheOn,
    gate  |-> IF s \in GateSids THEN p.gateOwner[s] ELSE NULL,
    here  |-> s \in p.gateIn,
    lost  |-> { m \in Notices : <<s, m>> \in p.untold } ]

Apart == {"FINALIZING_REGIONLEAVEACK", "FINALIZING_ONREGIONLEAVEREQ"}
AskedGate == {"ONLOGINREQ", "GATEALLOCREQ"}
Waiting == { "GATEALLOCREQ", "AVATARLISTREQ", "AVATARCREATEREQ", "AVATARSELECTREQ",
             "REGIONALLOCREQ", "FINALIZING_REGIONLEAVEACK" }
Awaited(x) == IF x = "FINALIZING_REGIONLEAVEACK" THEN "RegionLeave" ELSE AwaitedAnswer[x]

\* The peers think of a session as its account's.
Common(w, n) ==
  /\ \A a \in w.owed : a.kind = "GateAlloc" => a.acct = n
  /\ w.gate \in {NULL, n}

\* A player of account n in state x, with v avatars: exactly the answer it
\* waits for is owed, and the peers know its session as far as x says.
AtRest(w, s, n, x, v) ==
  /\ x \in DeadEnds \cup ClientsTurn \cup Waiting \cup Apart
  /\ x \in Waiting => \E a \in w.owed : w.owed = {a} /\ a.kind = Awaited(x) /\ ~a.void
  /\ x \notin Waiting => w.owed = {}
  /\ w.login <=> x \in AskedGate
  /\ w.cache => x \in CacheLogoutStates \cup {"FINALIZING_REGIONLEAVEACK"}
  /\ s \in GateSids /\ x \notin Apart => w.gate = n
  /\ x \in AskedGate => s \in LoginSids
  /\ x \notin AskedGate \cup Apart \cup {"GATEALLOCNTF"} => w.here
  /\ x = "AVATARCREATEREQ" => v < AVATARCOUNT_MAX

\* The client nobody is at work for was refused, as far as it could be told.
Refused(w) == w.login => "OnLoginFailedAck" \in w.lost

\* A player about to be deleted: the peers have forgotten its session, but for
\* what they could not be told.
Leaving(w, x) ==
  /\ Refused(w)
  /\ (\A a \in w.owed : a.kind = "GateAlloc" => a.void) \/ "GateReleaseReq" \in w.lost
  /\ x \notin Apart => /\ w.cache => "OnLogoutReq" \in w.lost
                       /\ w.gate = NULL \/ "GateReleaseReq" \in w.lost \/ "Disconnect" \in w.lost

PlayerFits(w, s, n, x, f, v) ==
  Common(w, n) /\ IF f THEN Leaving(w, x) ELSE AtRest(w, s, n, x, v)

\* A session that leads to no player is one nobody waits on.
SessionFits(s) ==
  IF bySid[s] = NULL THEN Refused(View(peers, s))
  ELSE LET c == bySid[s]
       IN  PlayerFits(View(peers, s), s, acct[c], st[c], fin[c], avatars[c])

\* The states of a player that is in the list of a region.
InRegion == {"REGIONENTERREQ", "FINALIZING", "FINALIZING_REGIONLEAVEACK"}

\* Where context c is listed.  Only when its login notification cannot be sent
\* does a player stay in the login server's list once it is deleted.
Listed(c) ==
  /\ \A k \in DOMAIN gateMap : gateMap[k] = c =>
       Live(c) /\ k = <<gateId[c], sess[c]>> /\ st[c] \in GateMapStates
  /\ \A k \in DOMAIN regionMap : regionMap[k] = c =>
       Live(c) /\ k = <<chan[c], regionId[c], sess[c]>> /\ st[c] \in InRegion
  /\ \A s \in Sids : loginMap[s] = c =>
       \/ <<s, "LoginNtf">> \in peers.untold
       \/ Live(c) /\ s = sess[c] /\ st[c] \in LoginMapStates

RegionsKnow(p) == \A k \in p.regionOn : k[2] \in GateSids

Good ==
  /\ \A s \in Sids : SessionFits(s)
  /\ \A c \in Ctx : Listed(c)
  /\ RegionsKnow(peers)

PeersInv == Inv /\ (~overrun => Good)

-----------------------------------------------------------------------------
(* The state machine *)

\* Where event e leads from state s, if it has a row.
Target(s, e) ==
  CASE e = "AVATARCREATEACK" -> "AVATARLISTACK"
    [] e = "CHANNELSELECTACK" /\ s = "ONREGIONALLOCFAILACK" -> "CHANNELSELECTFAILACK"
    [] e = "FINALIZE" -> "FINALIZING"
    [] e = "REGIONLEAVEACK" /\ s = "ONCHANNELLEAVEREQ" -> "ONCHANNELLEAVE_REGIONLEAVEACK"
    [] e = "REGIONLEAVEACK" /\ s # "ONCHANNELLEAVEREQ" -> "FINALIZING_REGIONLEAVEACK"
    [] e = "ONREGIONLEAVEREQ" /\ s = "ONCHANNELLEAVE_REGIONLEAVEACK" -> "ONCHANNELLEAVE_ONREGIONLEAVEREQ"
    [] e = "ONREGIONLEAVEREQ" /\ s # "ONCHANNELLEAVE_REGIONLEAVEACK" -> "FINALIZING_ONREGIONLEAVEREQ"
    [] OTHER -> e

\* The transition table is a function, and StateTransition looks it up.
LEMMA Lookup ==
  \A s, e : Result(s, e) = IF <<s, e, Target(s, e)>> \in Transitions THEN Target(s, e) ELSE INVALID
<1>1. \A t \in Transitions : t = <<t[1], t[2], Target(t[1], t[2])>> /\ t[3] = Target(t[1], t[2])
  <2>1. \A t \in LoginTransitions :
          t = <<t[1], t[2], Target(t[1], t[2])>> /\ t[3] = Target(t[1], t[2])
    BY DEF LoginTransitions, Target
  <2>2. \A t \in AvatarTransitions :
          t = <<t[1], t[2], Target(t[1], t[2])>> /\ t[3] = Target(t[1], t[2])
    BY DEF AvatarTransitions, Target
  <2>3. \A t \in ChannelTransitions :
          t = <<t[1], t[2], Target(t[1], t[2])>> /\ t[3] = Target(t[1], t[2])
    BY DEF ChannelTransitions, Target
  <2>4. \A t \in LeaveTransitions :
          t = <<t[1], t[2], Target(t[1], t[2])>> /\ t[3] = Target(t[1], t[2])
    BY DEF LeaveTransitions, Target
  <2> QED
    BY <2>1, <2>2, <2>3, <2>4 DEF Transitions
<1> SUFFICES ASSUME NEW s, NEW e
             PROVE  Result(s, e) =
                      IF <<s, e, Target(s, e)>> \in Transitions THEN Target(s, e) ELSE INVALID
  OBVIOUS
<1>2. CASE \E t \in Transitions : <<t[1], t[2]>> = <<s, e>>
  <2> DEFINE ch == CHOOSE t \in Transitions : <<t[1], t[2]>> = <<s, e>>
  <2>1. ch \in Transitions /\ <<ch[1], ch[2]>> = <<s, e>>
    BY <1>2
  <2>2. <<s, e>> \in DOMAIN Table /\ Table[<<s, e>>] = ch[3]
    BY <1>2 DEF Table
  <2> HIDE DEF ch
  <2>3. ch[1] = s /\ ch[2] = e
    BY <2>1
  <2>4. ch = <<s, e, Target(s, e)>> /\ ch[3] = Target(s, e)
    BY <1>1, <2>1, <2>3
  <2> QED
    BY <2>1, <2>2, <2>4 DEF Result
<1>3. CASE ~\E t \in Transitions : <<t[1], t[2]>> = <<s, e>>
  <2>1. <<s, e>> \notin DOMAIN Table
    BY <1>3 DEF Table
  <2>2. <<s, e, Target(s, e)>> \notin Transitions
    BY <1>3
  <2> QED
    BY <2>1, <2>2 DEF Result
<1> QED
  BY <1>2, <1>3

\* The rows for the events the handlers fire in a state of their own.
LEMMA Fired ==
  /\ After("ONAVATARLISTREQ", "AVATARLISTREQ") = "AVATARLISTREQ"
  /\ After("ONAVATARCREATEREQ", "AVATARCREATEREQ") = "AVATARCREATEREQ"
  /\ After("ONAVATARSELECTREQ", "AVATARSELECTREQ") = "AVATARSELECTREQ"
  /\ After("ONAVATARLISTACK", "AVATARLISTACK") = "AVATARLISTACK"
  /\ After("ONAVATARCREATEACK", "AVATARCREATEACK") = "AVATARLISTACK"
  /\ After("ONAVATARSELECTACK", "AVATARSELECTACK") = "AVATARSELECTACK"
  /\ After("AVATARSELECTACK", "CHANNELLISTNTF") = "CHANNELLISTNTF"
  /\ After("ONREGIONALLOCACK", "ONREGIONALLOCFAILACK") = "ONREGIONALLOCACK"
  /\ After("ONREGIONALLOCACK", "CHANNELSELECTACK") = "CHANNELSELECTACK"
  /\ After("CHANNELSELECTACK", "CHANNELLISTNTF") = "CHANNELSELECTACK"
  /\ After("FINALIZING_ONREGIONLEAVEREQ", "CHANNELLISTNTF") = "FINALIZING_ONREGIONLEAVEREQ"
  /\ After("REGIONENTERREQ", "FINALIZE") = "FINALIZING"
  /\ After("FINALIZING", "REGIONLEAVEACK") = "FINALIZING_REGIONLEAVEACK"
<1> USE Lookup DEF After, Target, INVALID
<1>1. /\ After("ONAVATARLISTREQ", "AVATARLISTREQ") = "AVATARLISTREQ"
      /\ After("ONAVATARCREATEREQ", "AVATARCREATEREQ") = "AVATARCREATEREQ"
      /\ After("ONAVATARSELECTREQ", "AVATARSELECTREQ") = "AVATARSELECTREQ"
      /\ After("ONAVATARLISTACK", "AVATARLISTACK") = "AVATARLISTACK"
      /\ After("ONAVATARCREATEACK", "AVATARCREATEACK") = "AVATARLISTACK"
      /\ After("ONAVATARSELECTACK", "AVATARSELECTACK") = "AVATARSELECTACK"
      /\ After("AVATARSELECTACK", "CHANNELLISTNTF") = "CHANNELLISTNTF"
  BY DEF Transitions, AvatarTransitions
<1>2. /\ After("ONREGIONALLOCACK", "CHANNELSELECTACK") = "CHANNELSELECTACK"
      /\ After("REGIONENTERREQ", "FINALIZE") = "FINALIZING"
      /\ After("FINALIZING", "REGIONLEAVEACK") = "FINALIZING_REGIONLEAVEACK"
  BY DEF Transitions, ChannelTransitions, LeaveTransitions
<1> USE DEF Transitions, LoginTransitions, AvatarTransitions, ChannelTransitions, LeaveTransitions
<1>3. After("ONREGIONALLOCACK", "ONREGIONALLOCFAILACK") = "ONREGIONALLOCACK"
  OBVIOUS
<1>4. After("CHANNELSELECTACK", "CHANNELLISTNTF") = "CHANNELSELECTACK"
  OBVIOUS
<1>5. After("FINALIZING_ONREGIONLEAVEREQ", "CHANNELLISTNTF") = "FINALIZING_ONREGIONLEAVEREQ"
  OBVIOUS
<1> QED
  BY <1>1, <1>2, <1>3, <1>4, <1>5

\* The states in which the events of the clients and the peers are expected.
LEMMA Expected ==
  /\ \A s : Result(s, "GATEALLOCACK") # INVALID <=> s = "GATEALLOCREQ"
  /\ \A s : Result(s, "ONGATELOGINREQ") # INVALID <=> s = "GATEALLOCNTF"
  /\ \A s : Result(s, "ONAVATARLISTREQ") # INVALID <=> s \in {"CACHELOGINREQ", "CHANNELLISTNTF"}
  /\ \A s : Result(s, "ONAVATARLISTACK") # INVALID <=> s = "AVATARLISTREQ"
  /\ \A s : Result(s, "ONAVATARCREATEREQ") # INVALID <=> s = "AVATARLISTACK"
  /\ \A s : Result(s, "ONAVATARCREATEACK") # INVALID <=> s = "AVATARCREATEREQ"
  /\ \A s : Result(s, "ONAVATARSELECTREQ") # INVALID <=> s = "AVATARLISTACK"
  /\ \A s : Result(s, "ONAVATARSELECTACK") # INVALID <=> s = "AVATARSELECTREQ"
  /\ \A s : Result(s, "ONCHANNELSELECTREQ") # INVALID <=> s = "CHANNELLISTNTF"
  /\ \A s : Result(s, "ONREGIONALLOCACK") # INVALID <=> s = "REGIONALLOCREQ"
<1> USE Lookup DEF Target, INVALID, Transitions, LoginTransitions, AvatarTransitions,
                   ChannelTransitions, LeaveTransitions
<1>1. \A s : Result(s, "GATEALLOCACK") # INVALID <=> s = "GATEALLOCREQ"
  OBVIOUS
<1>2. \A s : Result(s, "ONGATELOGINREQ") # INVALID <=> s = "GATEALLOCNTF"
  OBVIOUS
<1>3. \A s : Result(s, "ONAVATARLISTREQ") # INVALID <=> s \in {"CACHELOGINREQ", "CHANNELLISTNTF"}
  OBVIOUS
<1>4. \A s : Result(s, "ONAVATARLISTACK") # INVALID <=> s = "AVATARLISTREQ"
  OBVIOUS
<1>5. \A s : Result(s, "ONAVATARCREATEREQ") # INVALID <=> s = "AVATARLISTACK"
  OBVIOUS
<1>6. \A s : Result(s, "ONAVATARCREATEACK") # INVALID <=> s = "AVATARCREATEREQ"
  OBVIOUS
<1>7. \A s : Result(s, "ONAVATARSELECTREQ") # INVALID <=> s = "AVATARLISTACK"
  OBVIOUS
<1>8. \A s : Result(s, "ONAVATARSELECTACK") # INVALID <=> s = "AVATARSELECTREQ"
  OBVIOUS
<1>9. \A s : Result(s, "ONCHANNELSELECTREQ") # INVALID <=> s = "CHANNELLISTNTF"
  OBVIOUS
<1>10. \A s : Result(s, "ONREGIONALLOCACK") # INVALID <=> s = "REGIONALLOCREQ"
  OBVIOUS
<1> QED
  BY <1>1, <1>2, <1>3, <1>4, <1>5, <1>6, <1>7, <1>8, <1>9, <1>10

\* A region's leave request, and the gate's refusal.
LEMMA Leaves ==
  /\ \A s : Result(s, "ONREGIONLEAVEREQ") =
       IF s = "FINALIZING_REGIONLEAVEACK" THEN "FINALIZING_ONREGIONLEAVEREQ"
       ELSE IF s = "ONCHANNELLEAVE_REGIONLEAVEACK" THEN "ONCHANNELLEAVE_ONREGIONLEAVEREQ" ELSE INVALID
  /\ \A s : After(s, "GATEALLOCFAILACK") = IF s = "GATEALLOCREQ" THEN "GATEALLOCFAILACK" ELSE s
<1> USE Lookup DEF Target, INVALID, Transitions, LoginTransitions, AvatarTransitions,
                   ChannelTransitions, LeaveTransitions
<1>1. \A s : Result(s, "ONREGIONLEAVEREQ") =
       IF s = "FINALIZING_REGIONLEAVEACK" THEN "FINALIZING_ONREGIONLEAVEREQ"
       ELSE IF s = "ONCHANNELLEAVE_REGIONLEAVEACK" THEN "ONCHANNELLEAVE_ONREGIONLEAVEREQ" ELSE INVALID
  OBVIOUS
<1>2. \A s : After(s, "GATEALLOCFAILACK") = IF s = "GATEALLOCREQ" THEN "GATEALLOCFAILACK" ELSE s
  BY DEF After
<1> QED
  BY <1>1, <1>2

-----------------------------------------------------------------------------
(* What ShutdownPlayer does to the view of a session *)

Voided(a, names) == IF a.kind = "GateAlloc" /\ a.acct \in names THEN [a EXCEPT !.void = TRUE] ELSE a

\* The accounts and sessions of the players in C that notice m is due about in
\* the states S, and is not lost.
NamesIn(C, lost, m, sv, S) == { acct[c] : c \in { d \in C : sv[d] \in S /\ <<d, m>> \notin lost } }
SessionsIn(C, lost, m, sv, S) == { sess[c] : c \in { d \in C : sv[d] \in S /\ <<d, m>> \notin lost } }
LeaveAnswers(C, rid) == { Answer("RegionLeave", sess[c], NULL, rid[c]) : c \in C }
LostAbout(lost) == { <<sess[m[1]], m[2]>> : m \in lost }

\* What becomes of p, part by part.
Told(p, q, sv, rid, leave, gone, lost) ==
  /\ \A a : a \in q.owed <=> \E b \in p.owed \cup LeaveAnswers(leave, rid) :
         a = Voided(b, NamesIn(gone, lost, "GateReleaseReq", sv, GateReleaseStates))
  /\ q.loginWait = p.loginWait \ SessionsIn(gone, lost, "OnLoginFailedAck", sv, FailedAckStates)
  /\ q.cacheOn = p.cacheOn \ SessionsIn(gone, lost, "OnLogoutReq", sv, CacheLogoutStates)
  /\ q.regionOn \subseteq p.regionOn
  /\ \A g \in GateSids : q.gateOwner[g] =
       IF \/ g \in SessionsIn(gone, lost, "Disconnect", sv, DisconnectStates)
          \/ p.gateOwner[g] \in NamesIn(gone, lost, "GateReleaseReq", sv, GateReleaseStates)
       THEN NULL ELSE p.gateOwner[g]
  /\ q.gateIn = p.gateIn
  /\ q.untold = p.untold \cup LostAbout(lost)

\* TellPeers does that.
LEMMA TellParts ==
  ASSUME TypeOK, NEW p \in PeersType, NEW sv, NEW rid \in [Ctx -> RegionIds],
         NEW leave \in SUBSET Ctx, NEW gone \in SUBSET Ctx, NEW lost \in SUBSET (gone \X Notices)
  PROVE  Told(p, TellPeers(p, sv, rid, leave, gone, lost), sv, rid, leave, gone, lost)
<1> DEFINE new == LeaveAnswers(leave, rid)
           names == NamesIn(gone, lost, "GateReleaseReq", sv, GateReleaseStates)
           ended == SessionsIn(gone, lost, "Disconnect", sv, DisconnectStates)
           told == SessionsIn(gone, lost, "OnLoginFailedAck", sv, FailedAckStates)
           off == SessionsIn(gone, lost, "OnLogoutReq", sv, CacheLogoutStates)
           out == { <<rid[c], sess[c]>> :
                      c \in { d \in gone : sv[d] \in RegionReleaseStates /\ <<d, "RegionReleaseReq">> \notin lost } }
           o1 == p.owed \cup new
           o2 == p.regionOn \ out
           o3 == p.loginWait \ told
           o4 == p.cacheOn \ off
           o5 == p.untold \cup LostAbout(lost)
           p1 == [p EXCEPT !.owed = o1, !.regionOn = o2, !.loginWait = o3, !.cacheOn = o4, !.untold = o5]
           p2 == GateReleased(p1, names)
           q == TellPeers(p, sv, rid, leave, gone, lost)
<1>1. q = GateDropped(p2, ended)
  BY DEF TellPeers, LeaveAnswers, NamesIn, SessionsIn, LostAbout
<1>2. new \subseteq Answers
  BY AnswerType DEF TypeOK, RegionKinds, LeaveAnswers
<1>11. LostAbout(lost) \subseteq Sids \X Notices
  BY DEF TypeOK, LostAbout
<1>3. p1 \in PeersType
  <2> HIDE DEF new, names, ended, told, off, out
  <2> QED
    BY <1>2, <1>11 DEF PeersType
<1> HIDE DEF o1, o2, o3, o4, o5, new, names, ended, told, off
<1>4. /\ p1.owed = o1 /\ p1.regionOn = o2 /\ p1.loginWait = o3 /\ p1.cacheOn = o4 /\ p1.untold = o5
      /\ p1.gateOwner = p.gateOwner /\ p1.gateIn = p.gateIn
  BY DEF PeersType
<1> HIDE DEF p1
<1> DEFINE owed2 == { Voided(a, names) : a \in o1 }
           own2 == [g \in GateSids |-> IF p.gateOwner[g] \in names THEN NULL ELSE p.gateOwner[g]]
           own3 == [g \in GateSids |-> IF g \in ended THEN NULL ELSE own2[g]]
<1>5. p2 = [p1 EXCEPT !.owed = owed2, !.gateOwner = own2]
  BY <1>4, Zenon DEF GateReleased, Voided
<1>6. p2 \in PeersType
  BY <1>3, GateReleasedType
<1> HIDE DEF p2
<1>7. /\ p2.owed = owed2 /\ p2.gateOwner = own2 /\ p2.regionOn = o2 /\ p2.loginWait = o3
      /\ p2.cacheOn = o4 /\ p2.untold = o5 /\ p2.gateIn = p.gateIn
  <2> HIDE DEF own2, owed2
  <2> QED
    BY <1>3, <1>4, <1>5 DEF PeersType
<1> HIDE DEF q
<1>10. q = [p2 EXCEPT !.gateOwner = own3]
  BY <1>1, <1>7, Zenon DEF GateDropped
<1>8. /\ q.owed = owed2 /\ q.gateOwner = own3 /\ q.regionOn = o2 /\ q.loginWait = o3 /\ q.cacheOn = o4
      /\ q.untold = o5 /\ q.gateIn = p.gateIn
  <2> HIDE DEF own3, owed2, own2
  <2> QED
    BY <1>6, <1>7, <1>10 DEF PeersType
<1>9. \A g \in GateSids : q.gateOwner[g] =
        IF g \in ended \/ p.gateOwner[g] \in names THEN NULL ELSE p.gateOwner[g]
  <2>1. \A g \in GateSids : own3[g] =
          IF g \in ended \/ p.gateOwner[g] \in names THEN NULL ELSE p.gateOwner[g]
    OBVIOUS
  <2> QED
    BY <1>8, <2>1
<1> QED
  BY <1>8, <1>9 DEF o1, o2, o3, o4, o5, new, names, ended, told, off, q, Told

\* A session leads to one player, and one player only has its account.
LEMMA OwnSession ==
  ASSUME TypeOK, NamesAndSessions, NEW s \in Sids, bySid[s] # NULL
  PROVE  /\ bySid[s] \in Ctx /\ Live(bySid[s]) /\ sess[bySid[s]] = s
         /\ \A c \in Ctx : Live(c) /\ sess[c] = s => c = bySid[s]
         /\ \A c \in Ctx : Live(c) /\ acct[c] = acct[bySid[s]] => c = bySid[s]
  BY DEF NamesAndSessions, TypeOK, Ptr

\* Notice m is sent about player d, who is met in one of the states S.
Sent(d, m, S, sv, gone, lost) == d \in gone /\ sv[d] \in S /\ <<d, m>> \notin lost

\* How the view w of the session s of player d becomes u.
Effect(w, u, s, d, sv, rid, leave, gone, lost) ==
  /\ u.login <=> w.login /\ ~Sent(d, "OnLoginFailedAck", FailedAckStates, sv, gone, lost)
  /\ u.cache <=> w.cache /\ ~Sent(d, "OnLogoutReq", CacheLogoutStates, sv, gone, lost)
  /\ u.gate = IF \/ Sent(d, "Disconnect", DisconnectStates, sv, gone, lost)
                 \/ Sent(d, "GateReleaseReq", GateReleaseStates, sv, gone, lost)
              THEN NULL ELSE w.gate
  /\ d \in leave => u.owed = w.owed \cup {Answer("RegionLeave", s, NULL, rid[d])}
  /\ d \notin leave /\ ~Sent(d, "GateReleaseReq", GateReleaseStates, sv, gone, lost) => u.owed = w.owed
  /\ Sent(d, "GateReleaseReq", GateReleaseStates, sv, gone, lost) =>
       \A a \in u.owed : a.kind = "GateAlloc" => a.void /\ a.acct = acct[d]
  /\ u.here <=> w.here
  /\ w.lost \subseteq u.lost
  /\ \A m \in Notices : <<d, m>> \in lost => m \in u.lost

\* TellPeers changes the view of the session of player d like that.
LEMMA TellView ==
  ASSUME TypeOK, NamesAndSessions, NEW p \in PeersType, NEW sv, NEW rid \in [Ctx -> RegionIds],
         NEW leave \in SUBSET Ctx, NEW gone \in SUBSET Ctx, leave \cap gone = {},
         NEW lost \in SUBSET (gone \X Notices),
         \A c \in leave \cup gone : Live(c), NEW s \in Sids, NEW d \in Ctx, bySid[s] = d,
         Common(View(p, s), acct[d])
  PROVE  Effect(View(p, s), View(TellPeers(p, sv, rid, leave, gone, lost), s), s, d, sv, rid, leave, gone, lost)
<1> DEFINE q == TellPeers(p, sv, rid, leave, gone, lost)
<1> DEFINE w == View(p, s)
           u == View(q, s)
           new == LeaveAnswers(leave, rid)
           names == NamesIn(gone, lost, "GateReleaseReq", sv, GateReleaseStates)
           ended == SessionsIn(gone, lost, "Disconnect", sv, DisconnectStates)
           told == SessionsIn(gone, lost, "OnLoginFailedAck", sv, FailedAckStates)
           off == SessionsIn(gone, lost, "OnLogoutReq", sv, CacheLogoutStates)
<1>0. Told(p, q, sv, rid, leave, gone, lost)
  BY TellParts
<1> HIDE DEF q
<1>1. /\ \A a : a \in q.owed <=> \E b \in p.owed \cup new : a = Voided(b, names)
      /\ q.loginWait = p.loginWait \ told
      /\ q.cacheOn = p.cacheOn \ off
      /\ \A g \in GateSids : q.gateOwner[g] =
           IF g \in ended \/ p.gateOwner[g] \in names THEN NULL ELSE p.gateOwner[g]
      /\ q.gateIn = p.gateIn /\ q.untold = p.untold \cup LostAbout(lost)
  BY <1>0 DEF Told
<1>2. /\ sess[d] = s /\ Live(d)
      /\ \A c \in leave \cup gone : (sess[c] = s <=> c = d) /\ (acct[c] = acct[d] <=> c = d)
  BY OwnSession, ConstantAssumption
<1>3. /\ s \in told <=> Sent(d, "OnLoginFailedAck", FailedAckStates, sv, gone, lost)
      /\ s \in off <=> Sent(d, "OnLogoutReq", CacheLogoutStates, sv, gone, lost)
      /\ s \in ended <=> Sent(d, "Disconnect", DisconnectStates, sv, gone, lost)
      /\ acct[d] \in names <=> Sent(d, "GateReleaseReq", GateReleaseStates, sv, gone, lost)
  BY <1>2 DEF NamesIn, SessionsIn, Sent
<1>4. \A a \in new : a.sid = s <=> d \in leave /\ a = Answer("RegionLeave", s, NULL, rid[d])
  BY <1>2 DEF Answer, LeaveAnswers
<1>5. d \in leave => Answer("RegionLeave", s, NULL, rid[d]) \in new
  BY <1>2 DEF LeaveAnswers
<1>6. \A a \in new : a.kind = "RegionLeave"
  BY DEF Answer, LeaveAnswers
<1>7. /\ \A a \in p.owed : a.kind = "GateAlloc" /\ a.sid = s => a.acct = acct[d]
      /\ s \in GateSids => p.gateOwner[s] \in {NULL, acct[d]}
  BY DEF Common, View
<1> HIDE DEF new, names, ended, told, off
<1>8. \A a \in Answers : /\ Voided(a, names).sid = a.sid /\ Voided(a, names).kind = a.kind
                         /\ Voided(a, names).acct = a.acct
  BY DEF Voided, Answers
<1>9. p.owed \subseteq Answers /\ new \subseteq Answers
  BY AnswerType DEF PeersType, RegionKinds, TypeOK, new, LeaveAnswers
<1>10. u.login <=> w.login /\ ~Sent(d, "OnLoginFailedAck", FailedAckStates, sv, gone, lost)
  BY <1>1, <1>3 DEF View
<1>11. u.cache <=> w.cache /\ ~Sent(d, "OnLogoutReq", CacheLogoutStates, sv, gone, lost)
  BY <1>1, <1>3 DEF View
<1>12. u.gate = IF \/ Sent(d, "Disconnect", DisconnectStates, sv, gone, lost)
                   \/ Sent(d, "GateReleaseReq", GateReleaseStates, sv, gone, lost)
                THEN NULL ELSE w.gate
  <2>1. CASE s \notin GateSids
    BY <2>1 DEF View
  <2>2. CASE s \in GateSids
    <3>1. u.gate = q.gateOwner[s] /\ w.gate = p.gateOwner[s]
      BY <2>2 DEF View
    <3> QED
      BY <1>1, <1>3, <1>7, <2>2, <3>1
  <2> QED
    BY <2>1, <2>2
<1>18. /\ u.here <=> w.here
       /\ w.lost \subseteq u.lost
       /\ \A m \in Notices : <<d, m>> \in lost => m \in u.lost
  BY <1>1, <1>2 DEF View, LostAbout
<1>13. u.owed = { a \in q.owed : a.sid = s } /\ w.owed = { a \in p.owed : a.sid = s }
  BY DEF View
<1> HIDE DEF u, w
<1>14. ASSUME acct[d] \notin names
       PROVE  \A a \in p.owed \cup new : a.sid = s => Voided(a, names) = a
  BY <1>6, <1>7, <1>14 DEF Voided
<1>15. ASSUME d \in leave
       PROVE  u.owed = w.owed \cup {Answer("RegionLeave", s, NULL, rid[d])}
  <2>1. acct[d] \notin names
    BY <1>3, <1>15 DEF Sent
  <2> QED
    BY <1>1, <1>4, <1>5, <1>8, <1>9, <1>13, <1>14, <1>15, <2>1
<1>16. ASSUME d \notin leave, ~Sent(d, "GateReleaseReq", GateReleaseStates, sv, gone, lost)
       PROVE  u.owed = w.owed
  <2>1. acct[d] \notin names
    BY <1>3, <1>16
  <2> QED
    BY <1>1, <1>4, <1>8, <1>9, <1>13, <1>14, <1>16, <2>1
<1>17. ASSUME Sent(d, "GateReleaseReq", GateReleaseStates, sv, gone, lost), NEW a \in u.owed, a.kind = "GateAlloc"
       PROVE  a.void /\ a.acct = acct[d]
  <2>1. PICK b \in p.owed \cup new : a = Voided(b, names)
    BY <1>1, <1>13, <1>17
  <2>2. b.kind = "GateAlloc" /\ b.sid = s /\ b \in Answers /\ a.acct = b.acct
    BY <1>8, <1>9, <1>13, <1>17, <2>1
  <2>3. b.acct = acct[d] /\ b.acct \in names
    BY <1>3, <1>6, <1>7, <1>17, <2>1, <2>2
  <2> QED
    BY <2>1, <2>2, <2>3 DEF Voided, Answers
<1> QED
  BY <1>10, <1>11, <1>12, <1>15, <1>16, <1>17, <1>18 DEF u, w, q, Effect

\* A player may be shut down in state x, to be left in state t, if what the
\* peers know of its session is what ShutdownPlayer's case x undoes.
Fit(w, x, t) ==
  /\ x \in RegionLeaveStates => x = "REGIONENTERREQ" /\ w.owed = {} /\ ~w.login
  /\ w.login => x \in FailedAckStates
  /\ \A a \in w.owed : a.kind = "GateAlloc" => a.void \/ x \in GateReleaseStates
  /\ t \notin Apart => /\ w.cache => x \in CacheLogoutStates
                       /\ w.gate = NULL \/ x \in DisconnectStates \cup GateReleaseStates

\* Session s before a call of ShutdownPlayer for the players in C.
Ready(s, C, sv, tv, p) ==
  IF bySid[s] = NULL THEN Refused(View(p, s))
  ELSE LET d == bySid[s]
           w == View(p, s)
       IN  /\ Common(w, acct[d])
           /\ IF d \in C /\ ~fin[d] THEN Fit(w, sv[d], tv[d])
              ELSE IF fin[d] THEN Leaving(w, tv[d]) ELSE AtRest(w, s, acct[d], tv[d], avatars'[d])

\* What the peers know when it returns fits.
LEMMA ShutdownSessions ==
  ASSUME TypeOK, NamesAndSessions, regionId' \in [Ctx -> RegionIds],
         NEW C \in SUBSET Ctx, \A c \in C : Live(c), NEW sv, NEW tv, NEW p \in PeersType,
         NEW reached, NEW left, ShutdownSet(C, sv, tv, p, reached, left), UNCHANGED <<acct, bySid>>,
         NEW s \in Sids, Ready(s, C, sv, tv, p)
  PROVE  SessionFits(s)'
<1> DEFINE leave == { c \in NotFinalizing(C) : sv[c] \in RegionLeaveStates /\ c \in reached }
           gone == NotFinalizing(C) \ leave
           rid == regionId'
<1>0. PICK lost \in Lossy(Due(sv, gone)) : peers' = TellPeers(p, sv, rid, leave, gone, lost)
  BY DEF ShutdownSet
<1> DEFINE q == TellPeers(p, sv, rid, leave, gone, lost)
<1>1. /\ peers' = q
      /\ \A c \in Ctx : /\ fin'[c] <=> fin[c] \/ c \in gone
                        /\ c \in leave => st'[c] = After(After(sv[c], "FINALIZE"), "REGIONLEAVEACK")
                        /\ c \in gone /\ sv[c] \in RegionLeaveStates => st'[c] = After(sv[c], "FINALIZE")
                        /\ c \in gone /\ sv[c] \notin RegionLeaveStates => st'[c] = tv[c]
                        /\ c \notin leave \cup gone => st'[c] = tv[c]
  BY <1>0 DEF ShutdownSet
<1>5. lost \in SUBSET (gone \X Notices)
  BY LostNotices
<1>2. /\ leave \in SUBSET Ctx /\ gone \in SUBSET Ctx /\ leave \cap gone = {}
      /\ \A c \in leave \cup gone : Live(c) /\ c \in C /\ ~fin[c]
      /\ \A c \in C : ~fin[c] => c \in leave \cup gone
      /\ \A c \in leave : sv[c] \in RegionLeaveStates
  BY DEF NotFinalizing
<1> HIDE DEF leave, gone
<1>3. CASE bySid[s] = NULL
  <2>1. Told(p, q, sv, rid, leave, gone, lost)
    BY <1>2, <1>5, TellParts
  <2>2. q.loginWait \subseteq p.loginWait /\ p.untold \subseteq q.untold
    BY <2>1 DEF Told
  <2> HIDE DEF q
  <2> QED
    BY <1>1, <1>3, <2>2 DEF SessionFits, Ready, View, Refused
<1>4. CASE bySid[s] # NULL
  <2> DEFINE d == bySid[s]
             w == View(p, s)
             u == View(q, s)
  <2>1. /\ d \in Ctx /\ Common(w, acct[d])
        /\ d \in C /\ ~fin[d] => Fit(w, sv[d], tv[d])
        /\ ~(d \in C /\ ~fin[d]) =>
             IF fin[d] THEN Leaving(w, tv[d]) ELSE AtRest(w, s, acct[d], tv[d], avatars'[d])
    BY <1>4 DEF Ready, TypeOK, Ptr
  <2>2. SessionFits(s)' <=> PlayerFits(u, s, acct[d], st'[d], fin'[d], avatars'[d])
    BY <1>1, <1>4 DEF SessionFits
  <2> HIDE DEF q
  <2>3. Effect(w, u, s, d, sv, rid, leave, gone, lost)
    BY <1>2, <1>5, <2>1, TellView DEF q
  <2> HIDE DEF d, w, u, rid
  <2>5. CASE d \in leave
    <3>1. sv[d] = "REGIONENTERREQ" /\ w.owed = {} /\ ~w.login /\ ~fin'[d]
      BY <1>1, <1>2, <2>1, <2>5 DEF Fit
    <3>2. st'[d] = "FINALIZING_REGIONLEAVEACK"
      BY <1>1, <2>1, <2>5, <3>1, Fired
    <3>3. u.owed = {Answer("RegionLeave", s, NULL, rid[d])}
      BY <2>3, <2>5, <3>1 DEF Effect
    <3>4. d \notin gone
      BY <1>2, <2>5
    <3>7. u.gate = w.gate /\ ~u.login
      BY <2>3, <3>1, <3>4 DEF Effect, Sent
    <3>5. Common(u, acct[d])
      BY <2>1, <3>3, <3>7 DEF Common, Answer
    <3>6. AtRest(u, s, acct[d], "FINALIZING_REGIONLEAVEACK", avatars'[d])
      BY <3>3, <3>7 DEF AtRest, Answer, Waiting, Apart, AskedGate, Awaited
    <3> QED
      BY <2>2, <3>1, <3>2, <3>5, <3>6 DEF PlayerFits
  <2>6. CASE d \in gone
    <3>1. d \notin leave /\ fin'[d] /\ Fit(w, sv[d], tv[d])
      BY <1>1, <1>2, <2>1, <2>6
    <3>2. Common(u, acct[d])
      BY <2>1, <2>3, <3>1 DEF Common, Effect
    <3>3. /\ sv[d] \in FailedAckStates => ~u.login \/ "OnLoginFailedAck" \in u.lost
          /\ sv[d] \in CacheLogoutStates => ~u.cache \/ "OnLogoutReq" \in u.lost
          /\ sv[d] \in GateReleaseStates =>
               \/ u.gate = NULL /\ (\A a \in u.owed : a.kind = "GateAlloc" => a.void)
               \/ "GateReleaseReq" \in u.lost
          /\ sv[d] \in DisconnectStates => u.gate = NULL \/ "Disconnect" \in u.lost
          /\ sv[d] \notin GateReleaseStates => u.owed = w.owed
          /\ u.login => w.login
          /\ u.cache => w.cache
          /\ u.gate \in {w.gate, NULL}
      BY <2>3, <2>6, <3>1 DEF Effect, Sent, Notices
    <3>4. Refused(u) /\ ((\A a \in u.owed : a.kind = "GateAlloc" => a.void) \/ "GateReleaseReq" \in u.lost)
      BY <3>1, <3>3 DEF Fit, Refused
    <3>5. CASE sv[d] \in RegionLeaveStates
      <4>1. sv[d] \in CacheLogoutStates /\ sv[d] \in DisconnectStates
        BY <3>5 DEF CacheLogoutStates, DisconnectStates
      <4> QED
        BY <2>2, <3>1, <3>2, <3>3, <3>4, <4>1 DEF PlayerFits, Leaving
    <3>6. CASE sv[d] \notin RegionLeaveStates
      <4>1. st'[d] = tv[d]
        BY <1>1, <2>1, <2>6, <3>6
      <4>2. st'[d] \notin Apart => /\ u.cache => "OnLogoutReq" \in u.lost
                                   /\ u.gate = NULL \/ "GateReleaseReq" \in u.lost \/ "Disconnect" \in u.lost
        BY <3>1, <3>3, <4>1 DEF Fit
      <4> QED
        BY <2>2, <3>1, <3>2, <3>4, <4>2 DEF PlayerFits, Leaving
    <3> QED
      BY <3>5, <3>6
  <2>7. CASE d \notin leave \cup gone
    <3>1. st'[d] = tv[d] /\ (fin'[d] <=> fin[d])
      BY <1>1, <2>1, <2>7
    <3>2. /\ u.owed = w.owed /\ (u.login <=> w.login) /\ (u.cache <=> w.cache) /\ u.gate = w.gate
          /\ (u.here <=> w.here) /\ w.lost \subseteq u.lost
      BY <2>3, <2>7 DEF Effect, Sent
    <3>3. ~(d \in C /\ ~fin[d])
      BY <1>2, <2>7
    <3> QED
      BY <2>1, <2>2, <3>1, <3>2, <3>3 DEF PlayerFits, Common, Leaving, AtRest, Refused
  <2> QED
    BY <2>5, <2>6, <2>7
<1> QED
  BY <1>3, <1>4

-----------------------------------------------------------------------------
(* The lists *)

\* The states of a player that has its gate session.
LEMMA GateSideStates ==
  { "GATEALLOCACK", "GATEALLOCNTF", "ONGATELOGINREQ", "CACHELOGINREQ", "ONAVATARLISTREQ", "AVATARLISTREQ",
    "ONAVATARLISTACK", "AVATARLISTACK", "ONAVATARCREATEREQ", "AVATARCREATEREQ",
    "ONAVATARCREATEACK", "ONAVATARSELECTREQ", "AVATARSELECTREQ", "ONAVATARSELECTACK",
    "AVATARSELECTACK", "CHANNELLISTNTF", "ONCHANNELSELECTREQ", "REGIONALLOCREQ",
    "ONREGIONALLOCACK", "CHANNELSELECTACK", "REGIONENTERREQ", "FINALIZING",
    "FINALIZING_REGIONLEAVEACK", "FINALIZING_ONREGIONLEAVEREQ" } \subseteq GateMapStates
<1>1. /\ "AVATARLISTREQ" \in States /\ "AVATARCREATEREQ" \in States /\ "AVATARSELECTREQ" \in States
      /\ "AVATARLISTACK" \in States /\ "AVATARSELECTACK" \in States /\ "FINALIZING" \in States
  BY StateNames, AfterType, Fired
<1>2. "CHANNELLISTNTF" \in States /\ "FINALIZING_REGIONLEAVEACK" \in States
  BY <1>1, AfterType, Fired
<1>3. "FINALIZING_ONREGIONLEAVEREQ" \in States
  <2>1. Result("FINALIZING_REGIONLEAVEACK", "ONREGIONLEAVEREQ") = "FINALIZING_ONREGIONLEAVEREQ"
    BY Leaves
  <2> QED
    BY <2>1, ResultType DEF INVALID
<1> QED
  BY <1>1, <1>2, <1>3, StateNames DEF GateMapStates, LoginMapStates

\* A login notification that could not be sent is not forgotten as long as the
\* login server's context lists the session.
UntoldStays(p) ==
  \A k \in Sids : loginMap[k] # NULL /\ <<k, "LoginNtf">> \in peers.untold => <<k, "LoginNtf">> \in p.untold

\* A context stays properly listed if it stays on its side of the login and,
\* where it is in a region's list, in its channel and region.
LEMMA ListsKeepGeneral ==
  ASSUME NEW c \in Ctx, Listed(c), Live(c) => Live(c)', gateId'[c] = gateId[c], sess'[c] = sess[c],
         DOMAIN gateMap' = DOMAIN gateMap, DOMAIN regionMap' = DOMAIN regionMap, UntoldStays(peers'),
         \A k \in DOMAIN gateMap : gateMap'[k] = c => gateMap[k] = c,
         \A k \in Sids : loginMap'[k] = c => loginMap[k] = c,
         st[c] \in GateMapStates => st'[c] \in GateMapStates,
         st[c] \in LoginMapStates => st'[c] \in LoginMapStates,
         \A k \in DOMAIN regionMap : regionMap'[k] = c =>
           regionMap[k] = c /\ chan'[c] = chan[c] /\ regionId'[c] = regionId[c] /\ st'[c] \in InRegion
  PROVE  Listed(c)'
<1>1. \A k \in DOMAIN gateMap' : gateMap'[k] = c =>
        Live(c)' /\ k = <<gateId'[c], sess'[c]>> /\ st'[c] \in GateMapStates
  BY DEF Listed
<1>2. \A k \in DOMAIN regionMap' : regionMap'[k] = c =>
        Live(c)' /\ k = <<chan'[c], regionId'[c], sess'[c]>> /\ st'[c] \in InRegion
  BY DEF Listed
<1>3. ASSUME NEW s \in Sids, loginMap'[s] = c
      PROVE  \/ <<s, "LoginNtf">> \in peers'.untold
             \/ Live(c)' /\ s = sess'[c] /\ st'[c] \in LoginMapStates
  <2>1. loginMap[s] = c /\ c # NULL
    BY <1>3, ConstantAssumption
  <2> QED
    BY <2>1 DEF Listed, UntoldStays
<1> QED
  BY <1>1, <1>2, <1>3 DEF Listed

\* ... where no other index is touched.
LEMMA ListsKeep ==
  ASSUME NEW c \in Ctx, Listed(c), UNCHANGED <<gateMap, loginMap, created, freeCnt>>,
         gateId'[c] = gateId[c], sess'[c] = sess[c],
         DOMAIN regionMap' = DOMAIN regionMap, UntoldStays(peers'),
         st[c] \in GateMapStates => st'[c] \in GateMapStates,
         st[c] \in LoginMapStates => st'[c] \in LoginMapStates,
         \A k \in DOMAIN regionMap : regionMap'[k] = c =>
           regionMap[k] = c /\ chan'[c] = chan[c] /\ regionId'[c] = regionId[c] /\ st'[c] \in InRegion
  PROVE  Listed(c)'
<1>1. Live(c)' <=> Live(c)
  BY DEF Live
<1> QED
  BY <1>1, ListsKeepGeneral

\* A player may be met in state x and left in state t without being lost.
Advance(c, x, t, left) ==
  /\ st[c] \in GateMapStates => t \in GateMapStates
  /\ st[c] \in LoginMapStates => t \in LoginMapStates /\ x \notin RegionLeaveStates
  /\ st[c] \in InRegion => /\ chan'[c] = chan[c] /\ regionId'[c] = regionId[c]
                           /\ c \in left \/ (x = st[c] /\ t = st[c])
  /\ x \in RegionLeaveStates => fin[c] \/ x = "REGIONENTERREQ"

\* ShutdownPlayer keeps the lists.
LEMMA ShutdownLists ==
  ASSUME NEW C \in SUBSET Ctx, NEW sv, NEW tv, NEW p, NEW reached,
         NEW left, ShutdownSet(C, sv, tv, p, reached, left), NEW c \in Ctx, Listed(c),
         Advance(c, sv[c], tv[c], left), UntoldStays(peers'),
         UNCHANGED <<gateMap, loginMap, created, freeCnt>>, gateId'[c] = gateId[c], sess'[c] = sess[c]
  PROVE  Listed(c)'
<1> DEFINE leave == { d \in NotFinalizing(C) : sv[d] \in RegionLeaveStates /\ d \in reached }
           gone == NotFinalizing(C) \ leave
           keys == RegionKeys({ d \in gone : sv[d] \in RegionReleaseStates } \cup left, regionId')
<1>1. /\ c \in leave => st'[c] = After(After(sv[c], "FINALIZE"), "REGIONLEAVEACK")
      /\ c \in gone /\ sv[c] \in RegionLeaveStates => st'[c] = After(sv[c], "FINALIZE")
      /\ ~(c \in leave) /\ ~(c \in gone /\ sv[c] \in RegionLeaveStates) => st'[c] = tv[c]
  BY DEF ShutdownSet
<1>2. /\ c \in leave \cup gone => ~fin[c]
      /\ c \in leave => sv[c] \in RegionLeaveStates
  BY DEF NotFinalizing
<1>3. regionMap' = [k \in DOMAIN regionMap |-> IF k \in keys THEN NULL ELSE regionMap[k]]
  BY DEF ShutdownSet, DeleteFromRegion
<1>4. c \in left => <<chan[c], regionId'[c], sess[c]>> \in keys
  BY DEF RegionKeys
<1> HIDE DEF leave, gone, keys
<1>5. \/ st'[c] = tv[c]
      \/ sv[c] = "REGIONENTERREQ" /\ st'[c] \in {"FINALIZING", "FINALIZING_REGIONLEAVEACK"}
  BY <1>1, <1>2, Fired DEF Advance
<1>6. st[c] \in GateMapStates => st'[c] \in GateMapStates
  BY <1>5, GateSideStates DEF Advance
<1>7. st[c] \in LoginMapStates => st'[c] \in LoginMapStates
  BY <1>5 DEF Advance, RegionLeaveStates
<1>8. ASSUME NEW k \in DOMAIN regionMap, regionMap'[k] = c
      PROVE  regionMap[k] = c /\ chan'[c] = chan[c] /\ regionId'[c] = regionId[c] /\ st'[c] \in InRegion
  <2>1. regionMap[k] = c /\ k \notin keys
    BY <1>3, <1>8, ConstantAssumption
  <2>2. k = <<chan[c], regionId[c], sess[c]>> /\ st[c] \in InRegion
    BY <2>1 DEF Listed
  <2>3. c \notin left
    BY <1>4, <2>1, <2>2 DEF Advance
  <2> QED
    BY <1>5, <2>1, <2>2, <2>3 DEF Advance, InRegion
<1>9. DOMAIN regionMap' = DOMAIN regionMap
  BY <1>3
<1> QED
  BY <1>6, <1>7, <1>8, <1>9, ListsKeep

\* ShutdownPlayer takes players out of the regions, only, and adds to what
\* could not be said.
LEMMA ShutdownRegions ==
  ASSUME TypeOK, regionId' \in [Ctx -> RegionIds], NEW C \in SUBSET Ctx, NEW sv, NEW tv,
         NEW p \in PeersType, RegionsKnow(p), UntoldStays(p), NEW reached, NEW left,
         ShutdownSet(C, sv, tv, p, reached, left)
  PROVE  RegionsKnow(peers)' /\ UntoldStays(peers') /\ p.untold \subseteq peers'.untold
<1> DEFINE leave == { c \in NotFinalizing(C) : sv[c] \in RegionLeaveStates /\ c \in reached }
           gone == NotFinalizing(C) \ leave
<1>0. PICK lost \in Lossy(Due(sv, gone)) : peers' = TellPeers(p, sv, regionId', leave, gone, lost)
  BY DEF ShutdownSet
<1> DEFINE q == TellPeers(p, sv, regionId', leave, gone, lost)
<1>1. peers' = q /\ leave \in SUBSET Ctx /\ gone \in SUBSET Ctx
  BY <1>0 DEF NotFinalizing
<1>4. lost \in SUBSET (gone \X Notices)
  BY LostNotices
<1> HIDE DEF leave, gone
<1>2. Told(p, q, sv, regionId', leave, gone, lost)
  BY <1>1, <1>4, TellParts
<1>3. q.regionOn \subseteq p.regionOn /\ p.untold \subseteq q.untold
  BY <1>2 DEF Told
<1> HIDE DEF q
<1> QED
  BY <1>1, <1>3 DEF RegionsKnow, UntoldStays

-----------------------------------------------------------------------------
(* Handlers for one player *)

Sound == TypeOK /\ NamesAndSessions /\ QueueExact /\ PoolSound /\ Good

\* p differs from what the peers have at most in session s, and in sessions
\* of nobody.
Elsewhere(s, p) ==
  /\ p \in PeersType /\ RegionsKnow(p) /\ UntoldStays(p)
  /\ \A r \in Sids \ {s} : View(p, r) = View(peers, r) \/ (bySid[r] = NULL /\ Refused(View(p, r)))

\* The contexts other than c stay in their region and channel.
OthersStay(c) ==
  /\ regionId' \in [Ctx -> RegionIds]
  /\ \A d \in Ctx \ {c} : regionId'[d] = regionId[d] /\ chan'[d] = chan[d] /\ avatars'[d] = avatars[d]

Filed == UNCHANGED <<acct, bySid, gateMap, loginMap, created, freeCnt, gateId, sess>>

\* Players that are not about to be deleted are at rest.
LEMMA PlayersAtRest ==
  ASSUME Sound, NEW d \in Ctx, st[d] # "NONE"
  PROVE  /\ sess[d] \in Sids /\ bySid[sess[d]] = d /\ Live(d)
         /\ PlayerFits(View(peers, sess[d]), sess[d], acct[d], st[d], fin[d], avatars[d])
<1>1. Live(d)
  BY DEF Sound, PoolSound
<1>2. sess[d] \in Sids /\ bySid[sess[d]] = d
  BY <1>1 DEF Sound, NamesAndSessions, TypeOK
<1>3. SessionFits(sess[d]) /\ d # NULL
  BY <1>2, ConstantAssumption DEF Sound, Good
<1> QED
  BY <1>1, <1>2, <1>3 DEF SessionFits

\* A player that stays as it is is not lost.
LEMMA OthersAdvance ==
  ASSUME Sound, NEW d \in Ctx, chan'[d] = chan[d], regionId'[d] = regionId[d], NEW left
  PROVE  Advance(d, st[d], st[d], left)
<1>1. ASSUME st[d] \in RegionLeaveStates, ~fin[d] PROVE st[d] = "REGIONENTERREQ"
  <2>1. st[d] # "NONE"
    BY <1>1 DEF RegionLeaveStates
  <2>2. AtRest(View(peers, sess[d]), sess[d], acct[d], st[d], avatars[d])
    BY <1>1, <2>1, PlayersAtRest DEF PlayerFits
  <2>3. st[d] \in DeadEnds \cup ClientsTurn \cup Waiting \cup Apart
    BY <2>2 DEF AtRest
  <2> QED
    BY <1>1, <2>3 DEF DeadEnds, ClientsTurn, Waiting, Apart, RegionLeaveStates
<1>2. st[d] \in LoginMapStates => st[d] \notin RegionLeaveStates
  BY DEF LoginMapStates, RegionLeaveStates
<1> QED
  BY <1>1, <1>2 DEF Advance

\* The session of player c is ready for its shutdown in state x.
ReadyFor(w, c, x, t) ==
  /\ Common(w, acct[c])
  /\ IF fin[c] THEN Leaving(w, t) ELSE Fit(w, x, t)

\* ShutdownPlayer, in a handler for the player of session s: the sessions
LEMMA OneShutdownFits ==
  ASSUME Sound, NEW s \in Sids, NEW c \in Ctx, bySid[s] = c, OthersStay(c), UNCHANGED <<acct, bySid>>,
         NEW x, NEW t, NEW p, Elsewhere(s, p), NEW reached, NEW left,
         ShutdownSet({c}, [st EXCEPT ![c] = x], [st EXCEPT ![c] = t], p, reached, left),
         ReadyFor(View(p, s), c, x, t)
  PROVE  /\ \A r \in Sids : SessionFits(r)'
         /\ RegionsKnow(peers)' /\ UntoldStays(peers')
         /\ p.untold \subseteq peers'.untold
<1> DEFINE sv == [st EXCEPT ![c] = x]
           tv == [st EXCEPT ![c] = t]
<1>1. sv[c] = x /\ tv[c] = t /\ \A d \in Ctx \ {c} : sv[d] = st[d] /\ tv[d] = st[d]
  BY DEF Sound, TypeOK
<1>2. ShutdownSet({c}, sv, tv, p, reached, left)
  OBVIOUS
<1> HIDE DEF sv, tv
<1>3. Live(c) /\ sess[c] = s /\ c # NULL
  BY ConstantAssumption DEF Sound, NamesAndSessions
<1>5. \A r \in Sids : Ready(r, {c}, sv, tv, p)
  <2> TAKE r \in Sids
  <2>1. CASE r = s
    BY <1>1, <1>3, <2>1 DEF Ready, ReadyFor
  <2>2. CASE r # s
    <3>1. /\ View(p, r) = View(peers, r) \/ (bySid[r] = NULL /\ Refused(View(p, r)))
          /\ SessionFits(r)
      BY <2>2 DEF Elsewhere, Sound, Good
    <3>2. CASE bySid[r] = NULL
      BY <3>1, <3>2 DEF Ready, SessionFits
    <3>3. CASE bySid[r] # NULL
      <4>1. bySid[r] \in Ctx \ {c}
        BY <1>3, <2>2, <3>3, OwnSession DEF Sound
      <4>2. avatars'[bySid[r]] = avatars[bySid[r]] /\ tv[bySid[r]] = st[bySid[r]]
        BY <1>1, <4>1 DEF OthersStay
      <4> QED
        BY <3>1, <3>3, <4>1, <4>2 DEF Ready, SessionFits, PlayerFits
    <3> QED
      BY <3>2, <3>3
  <2> QED
    BY <2>1, <2>2
<1>6. p \in PeersType /\ RegionsKnow(p) /\ UntoldStays(p)
  BY DEF Elsewhere
<1>7. regionId' \in [Ctx -> RegionIds] /\ {c} \in SUBSET Ctx /\ \A d \in {c} : Live(d)
  BY <1>3 DEF OthersStay
<1>8. \A r \in Sids : SessionFits(r)'
  BY <1>2, <1>5, <1>6, <1>7, ShutdownSessions DEF Sound
<1>9. RegionsKnow(peers)' /\ UntoldStays(peers') /\ p.untold \subseteq peers'.untold
  BY <1>2, <1>6, <1>7, ShutdownRegions DEF Sound
<1> QED
  BY <1>8, <1>9

\* and everything.
LEMMA OneShutdown ==
  ASSUME Sound, NEW s \in Sids, NEW c \in Ctx, bySid[s] = c, OthersStay(c), Filed,
         NEW x, NEW t, NEW p, Elsewhere(s, p), NEW reached, NEW left,
         ShutdownSet({c}, [st EXCEPT ![c] = x], [st EXCEPT ![c] = t], p, reached, left),
         ReadyFor(View(p, s), c, x, t), Advance(c, x, t, left)
  PROVE  Good'
<1> DEFINE sv == [st EXCEPT ![c] = x]
           tv == [st EXCEPT ![c] = t]
<1>1. sv[c] = x /\ tv[c] = t /\ \A d \in Ctx \ {c} : sv[d] = st[d] /\ tv[d] = st[d]
  BY DEF Sound, TypeOK
<1>2. ShutdownSet({c}, sv, tv, p, reached, left)
  OBVIOUS
<1>3. (\A r \in Sids : SessionFits(r)') /\ RegionsKnow(peers)' /\ UntoldStays(peers')
  BY OneShutdownFits DEF Filed
<1> HIDE DEF sv, tv
<1>4. \A d \in Ctx : Advance(d, sv[d], tv[d], left)
  <2> TAKE d \in Ctx
  <2>1. CASE d = c
    BY <1>1, <2>1
  <2>2. CASE d # c
    <3>1. Advance(d, st[d], st[d], left)
      BY <2>2, OthersAdvance DEF OthersStay
    <3> QED
      BY <1>1, <2>2, <3>1
  <2> QED
    BY <2>1, <2>2
<1>5. \A d \in Ctx : Listed(d)'
  BY <1>2, <1>3, <1>4, ShutdownLists DEF Sound, Good, Filed
<1> QED
  BY <1>3, <1>5 DEF Good

\* A step that changes the state of player c at most, and does not list it anew.
LEMMA OneStep ==
  ASSUME Sound, NEW s \in Sids, OthersStay(bySid[s]), Filed, Elsewhere(s, peers'),
         DOMAIN regionMap' = DOMAIN regionMap,
         \A d \in Ctx \ {bySid[s]} : st'[d] = st[d] /\ fin'[d] = fin[d],
         \A d \in Ctx \ {bySid[s]} : \A k \in DOMAIN regionMap : regionMap'[k] = d => regionMap[k] = d,
         NEW c, c = bySid[s], c # NULL => Listed(c)',
         SessionFits(s)'
  PROVE  Good'
<1>1. \A r \in Sids : SessionFits(r)'
  <2> TAKE r \in Sids
  <2>1. CASE r = s
    BY <2>1
  <2>2. CASE r # s
    <3>1. /\ View(peers', r) = View(peers, r) \/ (bySid[r] = NULL /\ Refused(View(peers', r)))
          /\ SessionFits(r)
      BY <2>2 DEF Elsewhere, Sound, Good
    <3>2. CASE bySid[r] = NULL
      BY <3>1, <3>2 DEF SessionFits, Filed
    <3>3. CASE bySid[r] # NULL
      <4>1. bySid[r] \in Ctx /\ bySid[r] # bySid[s]
        BY <2>2, <3>3, OwnSession DEF Sound
      <4>2. /\ avatars'[bySid[r]] = avatars[bySid[r]] /\ st'[bySid[r]] = st[bySid[r]]
            /\ fin'[bySid[r]] = fin[bySid[r]] /\ acct' = acct /\ bySid' = bySid
        BY <4>1 DEF OthersStay, Filed
      <4> QED
        BY <3>1, <3>3, <4>1, <4>2 DEF SessionFits
    <3> QED
      BY <3>2, <3>3
  <2> QED
    BY <2>1, <2>2
<1>2. \A d \in Ctx : Listed(d)'
  <2> TAKE d \in Ctx
  <2>1. CASE d = bySid[s]
    <3>1. d = c /\ c # NULL
      BY <2>1, ConstantAssumption
    <3> QED
      BY <3>1
  <2>2. CASE d # bySid[s]
    <3>1. Listed(d) /\ st'[d] = st[d] /\ chan'[d] = chan[d] /\ regionId'[d] = regionId[d]
      BY <2>2 DEF Sound, Good, OthersStay
    <3>2. \A k \in DOMAIN regionMap : regionMap'[k] = d =>
            regionMap[k] = d /\ chan'[d] = chan[d] /\ regionId'[d] = regionId[d] /\ st'[d] \in InRegion
      BY <2>2, <3>1 DEF Listed
    <3> QED
      BY <3>1, <3>2, ListsKeep DEF Filed, Elsewhere
  <2> QED
    BY <2>1, <2>2
<1> QED
  BY <1>1, <1>2 DEF Good, Elsewhere

\* What the peers have of a session may fade.
Fades(w, u) ==
  /\ u.owed \subseteq w.owed
  /\ u.login => w.login
  /\ u.cache => w.cache
  /\ u.gate \in {w.gate, NULL}
  /\ w.lost \subseteq u.lost

\* A player at rest may be shut down where it is,
LEMMA RestReady ==
  ASSUME NEW p, NEW s \in Sids, NEW w, NEW n, NEW x, NEW v, Common(w, n),
         AtRest(w, s, n, x, v), Fades(w, View(p, s))
  PROVE  Common(View(p, s), n) /\ Fit(View(p, s), x, x)
<1>1. s \notin GateSids => View(p, s).gate = NULL
  BY DEF View
<1> DEFINE u == View(p, s)
<1> HIDE DEF u
<1>2. Common(u, n)
  BY DEF Common, Fades, u
<1>3. x \in DeadEnds \cup ClientsTurn \cup Waiting \cup Apart
  BY DEF AtRest
<1>4. x \in RegionLeaveStates => x = "REGIONENTERREQ" /\ u.owed = {} /\ ~u.login
  BY <1>3 DEF DeadEnds, ClientsTurn, Waiting, Apart, RegionLeaveStates, AtRest, Fades, AskedGate, u
<1>5. u.login => x \in FailedAckStates
  BY DEF AtRest, Fades, AskedGate, FailedAckStates, u
<1>6. ASSUME NEW a \in u.owed, a.kind = "GateAlloc" PROVE a.void \/ x \in GateReleaseStates
  <2>1. a \in w.owed
    BY <1>6 DEF Fades, u
  <2>2. x \in Waiting /\ a.kind = Awaited(x)
    BY <2>1 DEF AtRest
  <2> QED
    BY <1>6, <2>2 DEF Waiting, Awaited, AwaitedAnswer, GateReleaseStates
<1>7. x \notin Apart /\ u.cache => x \in CacheLogoutStates
  BY DEF AtRest, Fades, Apart, u
<1>8. x \notin Apart => u.gate = NULL \/ x \in DisconnectStates \cup GateReleaseStates
  <2>1. CASE x \in AskedGate
    <3>1. s \notin GateSids
      BY <2>1, ConstantAssumption DEF AtRest
    <3> QED
      BY <1>1, <3>1 DEF u
  <2>2. CASE x \notin AskedGate
    BY <1>3, <2>2 DEF AskedGate, DeadEnds, ClientsTurn, Waiting, Apart, DisconnectStates, GateReleaseStates,
                      CacheLogoutStates, RegionReleaseStates, RegionLeaveStates
  <2> QED
    BY <2>1, <2>2
<1>9. Fit(u, x, x)
  BY <1>4, <1>5, <1>6, <1>7, <1>8 DEF Fit
<1> QED
  BY <1>2, <1>9 DEF u

\* and one about to be deleted stays so.
LEMMA LeavingFades ==
  ASSUME NEW u, NEW w, NEW n, NEW x, Common(w, n), Leaving(w, x), Fades(w, u)
  PROVE  Common(u, n) /\ Leaving(u, x)
  BY DEF Common, Leaving, Fades, Refused

\* A handler that ignores its event,
LEMMA IgnoreKeepsGood ==
  ASSUME Sound, NEW s \in Sids, NEW c \in Ptr, c = bySid[s], c # NULL => fin[c], NEW p,
         Elsewhere(s, p), Fades(View(peers, s), View(p, s)), Ignore(p), Filed, UNCHANGED ctxVars
  PROVE  Good'
<1>1. /\ UNCHANGED <<st, fin, regionMap, chan, regionId, avatars, acct, bySid>>
      /\ peers' = p
  BY DEF Ignore, Filed, ctxVars
<1>2. OthersStay(c)
  BY <1>1 DEF OthersStay, Sound, TypeOK
<1>3. c # NULL => Listed(c)'
  <2>1. c # NULL => c \in Ctx /\ Listed(c)
    BY DEF Ptr, Sound, Good
  <2>2. c # NULL => \A k \in DOMAIN regionMap : regionMap[k] = c => st[c] \in InRegion
    BY <2>1 DEF Listed
  <2> QED
    BY <1>1, <2>1, <2>2, ListsKeep DEF Filed, Elsewhere
<1>4. SessionFits(s)'
  <2>1. SessionFits(s)
    BY DEF Sound, Good
  <2>2. CASE c = NULL
    BY <1>1, <2>1, <2>2 DEF SessionFits, Fades, Refused
  <2>3. CASE c # NULL
    <3>1. Common(View(peers, s), acct[c]) /\ Leaving(View(peers, s), st[c])
      BY <2>1, <2>3 DEF SessionFits, PlayerFits
    <3>2. Common(View(p, s), acct[c]) /\ Leaving(View(p, s), st[c])
      BY <3>1, LeavingFades
    <3> QED
      BY <1>1, <2>3, <3>2 DEF SessionFits, PlayerFits
  <2> QED
    BY <2>2, <2>3
<1> QED
  BY <1>1, <1>2, <1>3, <1>4, OneStep

\* one that meets a state error,
LEMMA ErrorKeepsGood ==
  ASSUME Sound, NEW s \in Sids, NEW c \in Ctx, c = bySid[s], NEW p, NEW ok,
         Elsewhere(s, p), Fades(View(peers, s), View(p, s)), StateError(c, p, ok), Filed, UNCHANGED ctxVars
  PROVE  Good'
<1>1. UNCHANGED <<chan, regionId, avatars>>
  BY DEF ctxVars
<1>2. OthersStay(c)
  BY <1>1 DEF OthersStay, Sound, TypeOK
<1>3. Advance(c, st[c], st[c], {})
  BY <1>1, OthersAdvance
<1>4. ReadyFor(View(p, s), c, st[c], st[c])
  <2>1. PlayerFits(View(peers, s), s, acct[c], st[c], fin[c], avatars[c])
    BY ConstantAssumption DEF Sound, Good, SessionFits
  <2> QED
    BY <2>1, RestReady, LeavingFades DEF PlayerFits, ReadyFor
<1>5. ShutdownSet({c}, [st EXCEPT ![c] = st[c]], [st EXCEPT ![c] = st[c]], p, IF ok THEN {c} ELSE {}, {})
  BY DEF StateError, ShutdownPlayer
<1> QED
  BY <1>2, <1>3, <1>4, <1>5, OneShutdown

\* and one that does either.
LEMMA RejectedKeepsGood ==
  ASSUME Sound, NEW s \in Sids, NEW c \in Ctx, c = bySid[s], NEW p, NEW ok, NEW e,
         Elsewhere(s, p), Fades(View(peers, s), View(p, s)), Rejected(c, e, p, ok), Filed, UNCHANGED ctxVars
  PROVE  Good'
  BY ErrorKeepsGood, IgnoreKeepsGood DEF Rejected, Ptr

\* A handler moves a player that has its gate session and is in no region's list.
LEMMA MoveKeepsGood ==
  ASSUME Sound, NEW s \in Sids, NEW c \in Ctx, c = bySid[s], ~fin[c],
         st[c] \in GateMapStates, st[c] \notin InRegion, NEW y \in GateMapStates, NEW p,
         Elsewhere(s, p), Move(c, y, p), Filed, OthersStay(c),
         Common(View(p, s), acct[c]), AtRest(View(p, s), s, acct[c], y, avatars'[c])
  PROVE  Good'
<1>1. /\ UNCHANGED <<fin, regionMap, acct, bySid>>
      /\ peers' = p
      /\ st'[c] = y /\ \A d \in Ctx \ {c} : st'[d] = st[d]
  BY DEF Move, Filed, Sound, TypeOK
<1>2. Listed(c)'
  <2>1. Listed(c) /\ st[c] \notin LoginMapStates
    BY DEF Sound, Good, GateMapStates
  <2>2. \A k \in DOMAIN regionMap : regionMap[k] # c
    BY <2>1 DEF Listed
  <2> QED
    BY <1>1, <2>1, <2>2, ListsKeep DEF Filed, Elsewhere
<1>3. SessionFits(s)'
  <2>1. SessionFits(s)' <=> PlayerFits(View(p, s), s, acct[c], y, fin[c], avatars'[c])
    BY <1>1, ConstantAssumption DEF SessionFits
  <2> QED
    BY <2>1 DEF PlayerFits
<1> QED
  BY <1>1, <1>2, <1>3, OneStep

\* ... or shuts it down.
LEMMA ShutKeepsGood ==
  ASSUME Sound, NEW s \in Sids, NEW c \in Ctx, c = bySid[s], ~fin[c],
         st[c] \in GateMapStates, st[c] \notin InRegion, NEW x, x \notin RegionLeaveStates,
         NEW t \in GateMapStates, NEW p, NEW ok,
         Elsewhere(s, p), ShutdownPlayer(c, x, t, p, ok), Filed, OthersStay(c),
         Common(View(p, s), acct[c]), Fit(View(p, s), x, t)
  PROVE  Good'
<1>1. Advance(c, x, t, {})
  BY DEF Advance, GateMapStates
<1>2. ReadyFor(View(p, s), c, x, t)
  BY DEF ReadyFor
<1>3. ShutdownSet({c}, [st EXCEPT ![c] = x], [st EXCEPT ![c] = t], p, IF ok THEN {c} ELSE {}, {})
  BY DEF ShutdownPlayer
<1> QED
  BY <1>1, <1>2, <1>3, OneShutdown

-----------------------------------------------------------------------------
(* What the peers are told *)

\* Two states of the peers agree on every session but s.
LEMMA ElsewhereBy ==
  ASSUME NEW p \in PeersType, NEW s, RegionsKnow(p),
         \A a \in p.owed \cup peers.owed : a.sid # s => (a \in p.owed <=> a \in peers.owed),
         \A r \in Sids \ {s} : /\ r \in p.loginWait <=> r \in peers.loginWait
                               /\ r \in p.cacheOn <=> r \in peers.cacheOn
                               /\ r \in GateSids => p.gateOwner[r] = peers.gateOwner[r]
                               /\ r \in p.gateIn <=> r \in peers.gateIn
                               /\ \A m \in Notices : <<r, m>> \in p.untold <=> <<r, m>> \in peers.untold,
         UntoldStays(p)
  PROVE  Elsewhere(s, p)
<1>1. ASSUME NEW r \in Sids \ {s} PROVE View(p, r) = View(peers, r)
  <2>1. { a \in p.owed : a.sid = r } = { a \in peers.owed : a.sid = r }
    BY <1>1
  <2>2. /\ (r \in p.loginWait) = (r \in peers.loginWait) /\ (r \in p.cacheOn) = (r \in peers.cacheOn)
        /\ (r \in p.gateIn) = (r \in peers.gateIn)
    BY <1>1
  <2>4. { m \in Notices : <<r, m>> \in p.untold } = { m \in Notices : <<r, m>> \in peers.untold }
    BY <1>1
  <2>3. (IF r \in GateSids THEN p.gateOwner[r] ELSE NULL) = (IF r \in GateSids THEN peers.gateOwner[r] ELSE NULL)
    BY <1>1
  <2> QED
    BY <2>1, <2>2, <2>3, <2>4, Zenon DEF View
<1> QED
  BY <1>1 DEF Elsewhere

\* An answer arrives.
LEMMA SettleElsewhere ==
  ASSUME Sound, NEW a
  PROVE  /\ Elsewhere(a.sid, Settle(peers, a))
         /\ View(Settle(peers, a), a.sid).owed = View(peers, a.sid).owed \ {a}
         /\ View(Settle(peers, a), a.sid).login <=> View(peers, a.sid).login
         /\ View(Settle(peers, a), a.sid).cache <=> View(peers, a.sid).cache
         /\ View(Settle(peers, a), a.sid).gate = View(peers, a.sid).gate
         /\ View(Settle(peers, a), a.sid).here <=> View(peers, a.sid).here
         /\ View(Settle(peers, a), a.sid).lost = View(peers, a.sid).lost
         /\ Fades(View(peers, a.sid), View(Settle(peers, a), a.sid))
         /\ Settle(peers, a).regionOn = peers.regionOn
<1> DEFINE p == Settle(peers, a)
<1>1. peers \in PeersType /\ RegionsKnow(peers)
  BY DEF Sound, TypeOK, Good
<1>2. /\ p.owed = peers.owed \ {a} /\ p.loginWait = peers.loginWait /\ p.cacheOn = peers.cacheOn
      /\ p.gateOwner = peers.gateOwner /\ p.regionOn = peers.regionOn
      /\ p.gateIn = peers.gateIn /\ p.untold = peers.untold
  BY <1>1 DEF Settle, PeersType
<1>3. p \in PeersType
  BY <1>1, SettleType
<1> HIDE DEF p
<1>4. Elsewhere(a.sid, p)
  BY <1>1, <1>2, <1>3, ElsewhereBy DEF RegionsKnow, UntoldStays
<1>5. /\ View(p, a.sid).owed = View(peers, a.sid).owed \ {a}
      /\ View(p, a.sid).login <=> View(peers, a.sid).login
      /\ View(p, a.sid).cache <=> View(peers, a.sid).cache
      /\ View(p, a.sid).gate = View(peers, a.sid).gate
      /\ View(p, a.sid).here <=> View(peers, a.sid).here
      /\ View(p, a.sid).lost = View(peers, a.sid).lost
  BY <1>2 DEF View
<1>6. Fades(View(peers, a.sid), View(p, a.sid))
  BY <1>5 DEF Fades
<1> QED
  BY <1>2, <1>4, <1>5, <1>6 DEF p

\* What changes in the regions is in no session's view.
LEMMA ViewsStay ==
  ASSUME NEW s, NEW p \in PeersType, Elsewhere(s, p), NEW q \in PeersType, q.owed = p.owed,
         q.loginWait = p.loginWait, q.cacheOn = p.cacheOn, q.gateOwner = p.gateOwner,
         q.gateIn = p.gateIn, q.untold = p.untold, RegionsKnow(q)
  PROVE  Elsewhere(s, q) /\ \A r : View(q, r) = View(p, r)
<1>1. \A r : View(q, r) = View(p, r)
  BY Zenon DEF View
<1> QED
  BY <1>1 DEF Elsewhere, UntoldStays

-----------------------------------------------------------------------------
(* The handlers: clients at the gates *)

\* A player's own state machine leaves the indexes and the pool alone.
LEMMA FrameFiled == Frame => Filed
  BY DEF Frame, Filed, idVars, mapVars, poolVars

\* A player whose event is admitted is at rest.
LEMMA AdmittedRest ==
  ASSUME Sound, NEW s \in Sids, NEW c \in Ctx, c = bySid[s], NEW e, Admitted(c, e)
  PROVE  /\ ~fin[c] /\ Result(st[c], e) # INVALID
         /\ Common(View(peers, s), acct[c])
         /\ AtRest(View(peers, s), s, acct[c], st[c], avatars[c])
<1>1. SessionFits(s) /\ c # NULL
  BY ConstantAssumption DEF Sound, Good
<1> QED
  BY <1>1 DEF SessionFits, PlayerFits, Admitted

\* Nobody changes channel or region when nothing of that is assigned.
LEMMA NothingMoves == ASSUME Sound, NEW c, UNCHANGED ctxVars PROVE OthersStay(c)
  BY DEF OthersStay, ctxVars, Sound, TypeOK

\* _OnCommandOnGateLoginReq keeps the invariant.
LEMMA OnGateLoginReqKeepsGood ==
  ASSUME Sound, NEW g \in GateSids, NEW ok, OnGateLoginReq(g, ok)
  PROVE  Good'
<1> DEFINE c == bySid[g]
           p == [peers EXCEPT !.gateIn = @ \cup {g}]
           q == [p EXCEPT !.cacheOn = @ \cup {g}]
<1>1. g \in Sids /\ peers \in PeersType /\ RegionsKnow(peers) /\ c \in Ptr
  BY DEF Sids, Sound, TypeOK, Good
<1>2. p \in PeersType /\ q \in PeersType
  BY <1>1 DEF PeersType
<1>3. /\ p.owed = peers.owed /\ p.loginWait = peers.loginWait /\ p.cacheOn = peers.cacheOn
      /\ p.gateOwner = peers.gateOwner /\ p.regionOn = peers.regionOn
      /\ q.owed = peers.owed /\ q.loginWait = peers.loginWait /\ q.cacheOn = peers.cacheOn \cup {g}
      /\ q.gateOwner = peers.gateOwner /\ q.regionOn = peers.regionOn
      /\ p.gateIn = peers.gateIn \cup {g} /\ q.gateIn = peers.gateIn \cup {g}
      /\ p.untold = peers.untold /\ q.untold = peers.untold
  BY <1>1 DEF PeersType
<1>4. /\ UNCHANGED ctxVars /\ Filed
      /\ \/ c = NULL /\ Ignore(p)
         \/ c # NULL /\ Rejected(c, "ONGATELOGINREQ", p, ok)
         \/ /\ c # NULL /\ Admitted(c, "ONGATELOGINREQ")
            /\ IF ok THEN Move(c, "CACHELOGINREQ", q)
                     ELSE ShutdownPlayer(c, "ONGATELOGINREQ", "ONGATELOGINREQ", p, TRUE)
  BY FrameFiled DEF OnGateLoginReq
<1> HIDE DEF p, q
<1>5. Elsewhere(g, p) /\ Elsewhere(g, q)
  BY <1>1, <1>2, <1>3, ElsewhereBy DEF RegionsKnow, UntoldStays
<1>6. /\ View(p, g).owed = View(peers, g).owed /\ (View(p, g).login <=> View(peers, g).login)
      /\ (View(p, g).cache <=> View(peers, g).cache) /\ View(p, g).gate = View(peers, g).gate
      /\ View(p, g).lost = View(peers, g).lost
  BY <1>3 DEF View
<1>7. Fades(View(peers, g), View(p, g))
  BY <1>6 DEF Fades
<1>8. CASE c = NULL /\ Ignore(p)
  BY <1>1, <1>4, <1>5, <1>7, <1>8, IgnoreKeepsGood
<1>9. CASE c # NULL /\ Rejected(c, "ONGATELOGINREQ", p, ok)
  BY <1>1, <1>4, <1>5, <1>7, <1>9, RejectedKeepsGood DEF Ptr
<1>10. CASE c # NULL /\ Admitted(c, "ONGATELOGINREQ")
  <2> DEFINE w == View(peers, g)
             u == View(q, g)
  <2>1. c \in Ctx
    BY <1>1, <1>10 DEF Ptr
  <2>2. ~fin[c] /\ st[c] = "GATEALLOCNTF" /\ Common(w, acct[c]) /\ AtRest(w, g, acct[c], st[c], avatars[c])
    BY <1>1, <1>10, <2>1, AdmittedRest, Expected
  <2>3. w.owed = {} /\ ~w.login /\ ~w.cache /\ w.gate = acct[c]
    BY <2>2 DEF AtRest, Waiting, AskedGate, Apart, CacheLogoutStates, RegionReleaseStates, RegionLeaveStates
  <2>4. st[c] \in GateMapStates /\ st[c] \notin InRegion /\ "CACHELOGINREQ" \in GateMapStates
        /\ "ONGATELOGINREQ" \in GateMapStates
    BY <2>2, GateSideStates DEF InRegion
  <2>5. OthersStay(c) /\ avatars' = avatars
    BY <1>4, NothingMoves DEF ctxVars
  <2>6. CASE Move(c, "CACHELOGINREQ", q)
    <3>1. u.owed = w.owed /\ (u.login <=> w.login) /\ u.gate = w.gate /\ u.here
      BY <1>3 DEF View
    <3> HIDE DEF u, w
    <3>2. Common(u, acct[c])
      BY <2>2, <3>1 DEF Common
    <3>3. AtRest(u, g, acct[c], "CACHELOGINREQ", avatars'[c])
      BY <2>3, <3>1 DEF AtRest, ClientsTurn, Waiting, CacheLogoutStates, AskedGate
    <3> QED
      BY <1>1, <1>4, <1>5, <2>1, <2>2, <2>4, <2>5, <2>6, <3>2, <3>3, MoveKeepsGood DEF u
  <2>7. CASE ShutdownPlayer(c, "ONGATELOGINREQ", "ONGATELOGINREQ", p, TRUE)
    <3>1. Fit(View(p, g), "ONGATELOGINREQ", "ONGATELOGINREQ")
      BY <1>6, <2>3 DEF Fit, DisconnectStates, RegionLeaveStates
    <3>2. Common(View(p, g), acct[c]) /\ "ONGATELOGINREQ" \notin RegionLeaveStates
      BY <1>6, <2>2 DEF RegionLeaveStates, Common
    <3> QED
      BY <1>1, <1>4, <1>5, <2>1, <2>2, <2>4, <2>5, <2>7, <3>1, <3>2, ShutKeepsGood
  <2> QED
    <3>1. Move(c, "CACHELOGINREQ", q) \/ ShutdownPlayer(c, "ONGATELOGINREQ", "ONGATELOGINREQ", p, TRUE)
      BY <1>4, <1>10 DEF Rejected, Admitted
    <3> QED
      BY <2>6, <2>7, <3>1
<1> QED
  BY <1>4, <1>8, <1>9, <1>10

\* _OnCommandOnSessionDisconnect keeps it.
LEMMA OnSessionDisconnectKeepsGood ==
  ASSUME Sound, NEW s \in Sids, NEW ok, OnSessionDisconnect(s, ok)
  PROVE  Good'
<1> DEFINE c == bySid[s]
           p1 == LoginAnswered(peers, s)
           p2 == GateDropped(p1, {s})
           p == [p2 EXCEPT !.gateIn = @ \ {s}]
<1>1. peers \in PeersType /\ RegionsKnow(peers) /\ c \in Ptr
  BY DEF Sound, TypeOK, Good
<1>2. p1 \in PeersType /\ p2 \in PeersType
  BY <1>1, LoginAnsweredType, GateDroppedType
<1>3. p \in PeersType
  BY <1>2 DEF PeersType
<1>4. /\ UNCHANGED ctxVars /\ Filed
      /\ IF c = NULL THEN Ignore(p) ELSE StateError(c, p, ok)
  BY FrameFiled DEF OnSessionDisconnect
<1>5. /\ p1.owed = peers.owed /\ p1.loginWait = peers.loginWait \ {s} /\ p1.cacheOn = peers.cacheOn
      /\ p1.gateOwner = peers.gateOwner /\ p1.regionOn = peers.regionOn
      /\ p1.gateIn = peers.gateIn /\ p1.untold = peers.untold
  BY <1>1 DEF PeersType, LoginAnswered
<1> HIDE DEF p1
<1>6. /\ p2.owed = peers.owed /\ p2.loginWait = peers.loginWait \ {s} /\ p2.cacheOn = peers.cacheOn
      /\ p2.regionOn = peers.regionOn /\ p2.gateIn = peers.gateIn /\ p2.untold = peers.untold
      /\ p2.gateOwner = [g \in GateSids |-> IF g \in {s} THEN NULL ELSE peers.gateOwner[g]]
  BY <1>2, <1>5 DEF PeersType, GateDropped
<1>10. \A g \in GateSids : p2.gateOwner[g] = IF g = s THEN NULL ELSE peers.gateOwner[g]
  BY <1>6
<1> HIDE DEF p2
<1>7. /\ p.owed = peers.owed /\ p.loginWait = peers.loginWait \ {s} /\ p.cacheOn = peers.cacheOn
      /\ p.regionOn = peers.regionOn /\ p.gateOwner = p2.gateOwner
      /\ p.gateIn = peers.gateIn \ {s} /\ p.untold = peers.untold
  BY <1>2, <1>6 DEF PeersType
<1> HIDE DEF p
<1>8. Elsewhere(s, p)
  BY <1>1, <1>3, <1>7, <1>10, ElsewhereBy DEF RegionsKnow, UntoldStays
<1>9. Fades(View(peers, s), View(p, s))
  BY <1>7, <1>10 DEF Fades, View
<1> QED
  BY <1>1, <1>4, <1>8, <1>9, IgnoreKeepsGood, ErrorKeepsGood DEF Ptr

\* One more answer is owed for session s.
LEMMA OweElsewhere ==
  ASSUME Sound, NEW a \in Answers
  PROVE  /\ Elsewhere(a.sid, Owe(peers, a))
         /\ View(Owe(peers, a), a.sid).owed = View(peers, a.sid).owed \cup {a}
         /\ View(Owe(peers, a), a.sid).login <=> View(peers, a.sid).login
         /\ View(Owe(peers, a), a.sid).cache <=> View(peers, a.sid).cache
         /\ View(Owe(peers, a), a.sid).gate = View(peers, a.sid).gate
         /\ View(Owe(peers, a), a.sid).here <=> View(peers, a.sid).here
         /\ View(Owe(peers, a), a.sid).lost = View(peers, a.sid).lost
         /\ Owe(peers, a).regionOn = peers.regionOn
<1> DEFINE p == Owe(peers, a)
<1>1. peers \in PeersType /\ RegionsKnow(peers)
  BY DEF Sound, TypeOK, Good
<1>2. /\ p.owed = peers.owed \cup {a} /\ p.loginWait = peers.loginWait /\ p.cacheOn = peers.cacheOn
      /\ p.gateOwner = peers.gateOwner /\ p.regionOn = peers.regionOn
      /\ p.gateIn = peers.gateIn /\ p.untold = peers.untold
  BY <1>1 DEF Owe, PeersType
<1>3. p \in PeersType
  BY <1>1, OweType
<1> HIDE DEF p
<1>4. Elsewhere(a.sid, p)
  BY <1>1, <1>2, <1>3, ElsewhereBy DEF RegionsKnow, UntoldStays
<1>5. /\ View(p, a.sid).owed = View(peers, a.sid).owed \cup {a}
      /\ View(p, a.sid).login <=> View(peers, a.sid).login
      /\ View(p, a.sid).cache <=> View(peers, a.sid).cache
      /\ View(p, a.sid).gate = View(peers, a.sid).gate
      /\ View(p, a.sid).here <=> View(peers, a.sid).here
      /\ View(p, a.sid).lost = View(peers, a.sid).lost
  BY <1>2 DEF View
<1> QED
  BY <1>2, <1>4, <1>5 DEF p

\* The state a client's request leads to, the one the request to the cache
\* leads to, and the answer the cache then owes.
Forwards == { <<"ONAVATARLISTREQ", "AVATARLISTREQ", "AvatarList">>,
              <<"ONAVATARCREATEREQ", "AVATARCREATEREQ", "AvatarCreate">>,
              <<"ONAVATARSELECTREQ", "AVATARSELECTREQ", "AvatarSelect">> }

\* A request for the cache.
LEMMA ForwardKeepsGood ==
  ASSUME Sound, NEW s \in GateSids, NEW c \in Ctx, c = bySid[s], NEW on, NEW to, NEW kind,
         <<on, to, kind>> \in Forwards, NEW valid,
         valid /\ to = "AVATARCREATEREQ" => avatars[c] < AVATARCOUNT_MAX, NEW ok,
         ForwardToCache(c, on, to, valid, kind, ok), Filed, UNCHANGED ctxVars
  PROVE  Good'
<1> DEFINE a == Answer(kind, s, NULL, 0)
           p == Owe(peers, a)
           w == View(peers, s)
           u == View(p, s)
<1>1. /\ s \in Sids /\ sess[c] = s /\ peers \in PeersType /\ RegionsKnow(peers)
  BY ConstantAssumption DEF Sids, Sound, TypeOK, Good, NamesAndSessions
<1>2. \/ Rejected(c, on, peers, ok)
      \/ /\ Admitted(c, on)
         /\ (valid /\ ok /\ Move(c, After(on, to), p)) \/ ShutdownPlayer(c, on, on, peers, ok)
  BY <1>1 DEF ForwardToCache
<1>3. Elsewhere(s, peers) /\ Fades(w, w)
  BY <1>1 DEF Elsewhere, Fades, UntoldStays
<1>4. CASE Rejected(c, on, peers, ok)
  BY <1>1, <1>3, <1>4, RejectedKeepsGood
<1>5. CASE Admitted(c, on)
  <2>1. /\ ~fin[c] /\ Common(w, acct[c]) /\ AtRest(w, s, acct[c], st[c], avatars[c])
        /\ Result(st[c], on) # INVALID
    BY <1>1, <1>5, AdmittedRest
  <2>2. st[c] \in {"CACHELOGINREQ", "CHANNELLISTNTF", "AVATARLISTACK"}
    BY <2>1, Expected DEF Forwards
  <2>3. w.owed = {} /\ ~w.login /\ w.gate = acct[c] /\ w.here
    BY <2>1, <2>2 DEF AtRest, Waiting, AskedGate, Apart
  <2>4. /\ st[c] \in GateMapStates /\ st[c] \notin InRegion
        /\ on \in GateMapStates /\ to \in GateMapStates /\ on \in CacheLogoutStates
        /\ to \in CacheLogoutStates /\ on \notin RegionLeaveStates
    BY <2>2, GateSideStates DEF InRegion, Forwards, CacheLogoutStates, RegionLeaveStates
  <2>5. OthersStay(c) /\ avatars' = avatars
    BY NothingMoves DEF ctxVars
  <2>6. ASSUME valid, Move(c, After(on, to), p) PROVE Good'
    <3>1. kind \in CacheKinds /\ After(on, to) = to /\ to \in Waiting /\ Awaited(to) = kind
      BY Fired DEF Forwards, CacheKinds, Waiting, Awaited, AwaitedAnswer
    <3>2. a \in Answers /\ a.sid = s /\ a.kind = kind /\ ~a.void
      BY <1>1, <3>1, AnswerType DEF Answer
    <3> HIDE DEF a, u, w, p
    <3>3. /\ Elsewhere(s, p) /\ u.owed = w.owed \cup {a} /\ (u.login <=> w.login)
          /\ (u.cache <=> w.cache) /\ u.gate = w.gate /\ (u.here <=> w.here)
      BY <3>2, OweElsewhere DEF p, u, w
    <3>4. a.kind # "GateAlloc"
      BY <3>1, <3>2 DEF CacheKinds
    <3>5. Common(u, acct[c])
      BY <2>1, <2>3, <3>3, <3>4 DEF Common
    <3>6. to \notin AskedGate /\ to \notin Apart
      BY DEF Forwards, AskedGate, Apart
    <3>7. AtRest(u, s, acct[c], to, avatars'[c])
      <4>1. \E b \in u.owed : u.owed = {b} /\ b.kind = Awaited(to) /\ ~b.void
        BY <2>3, <3>1, <3>2, <3>3
      <4> QED
        BY <2>3, <2>4, <2>5, <2>6, <3>1, <3>3, <3>6, <4>1 DEF AtRest
    <3> QED
      BY <1>1, <2>1, <2>4, <2>5, <2>6, <3>1, <3>3, <3>5, <3>7, MoveKeepsGood DEF u
  <2>7. ASSUME ShutdownPlayer(c, on, on, peers, ok) PROVE Good'
    <3>1. Fit(w, on, on)
      BY <2>3, <2>4 DEF Fit, DisconnectStates
    <3> QED
      BY <1>1, <1>3, <2>1, <2>4, <2>5, <2>7, <3>1, ShutKeepsGood
  <2> QED
    BY <1>2, <1>5, <2>6, <2>7 DEF Rejected, Admitted
<1> QED
  BY <1>2, <1>4, <1>5

\* OnChannelSelectReq.
LEMMA OnChannelSelectReqKeepsGood ==
  ASSUME Sound, NEW s \in GateSids, NEW c \in Ctx, c = bySid[s], NEW ch \in Channels \cup {NULL},
         NEW ok, OnChannelSelectReq(c, ch, ok), Filed, UNCHANGED <<regionId, avatars>>
  PROVE  Good'
<1> DEFINE r == InitialRegion[ch]
           a == Answer("RegionAlloc", s, NULL, r)
           o == Owe(peers, a)
           p == [o EXCEPT !.regionOn = @ \cup {<<r, s>>}]
           w == View(peers, s)
           u == View(p, s)
           x == "ONCHANNELSELECTREQ"
<1>1. /\ s \in Sids /\ sess[c] = s /\ peers \in PeersType /\ RegionsKnow(peers)
  BY ConstantAssumption DEF Sids, Sound, TypeOK, Good, NamesAndSessions
<1>2. \/ Rejected(c, x, peers, ok) /\ UNCHANGED chan
      \/ /\ Admitted(c, x)
         /\ \/ Move(c, x, peers) /\ UNCHANGED chan
            \/ ShutdownPlayer(c, x, x, peers, TRUE) /\ UNCHANGED chan
            \/ ch # NULL /\ chan' = [chan EXCEPT ![c] = ch] /\ Move(c, "REGIONALLOCREQ", p)
  BY <1>1 DEF OnChannelSelectReq
<1>3. Elsewhere(s, peers) /\ Fades(w, w)
  BY <1>1 DEF Elsewhere, Fades, UntoldStays
<1>4. CASE Rejected(c, x, peers, ok) /\ UNCHANGED chan
  BY <1>1, <1>3, <1>4, RejectedKeepsGood DEF ctxVars
<1>5. CASE /\ Admitted(c, x)
           /\ \/ Move(c, x, peers) /\ UNCHANGED chan
              \/ ShutdownPlayer(c, x, x, peers, TRUE) /\ UNCHANGED chan
              \/ ch # NULL /\ chan' = [chan EXCEPT ![c] = ch] /\ Move(c, "REGIONALLOCREQ", p)
  <2>1. /\ ~fin[c] /\ Common(w, acct[c]) /\ AtRest(w, s, acct[c], st[c], avatars[c])
        /\ st[c] = "CHANNELLISTNTF"
    BY <1>1, <1>5, AdmittedRest, Expected
  <2>3. w.owed = {} /\ ~w.login /\ w.gate = acct[c] /\ w.here
    BY <2>1 DEF AtRest, Waiting, AskedGate, Apart
  <2>4. /\ st[c] \in GateMapStates /\ st[c] \notin InRegion
        /\ x \in GateMapStates /\ "REGIONALLOCREQ" \in GateMapStates
        /\ x \notin RegionLeaveStates /\ x \in CacheLogoutStates /\ "REGIONALLOCREQ" \in CacheLogoutStates
    BY <2>1, GateSideStates DEF InRegion, RegionLeaveStates, CacheLogoutStates, RegionReleaseStates
  <2>5. OthersStay(c) /\ avatars' = avatars
    BY <1>5 DEF OthersStay, Sound, TypeOK
  <2>6. CASE Move(c, x, peers)
    <3>1. AtRest(w, s, acct[c], x, avatars'[c])
      BY <2>3, <2>4 DEF AtRest, DeadEnds, Waiting, AskedGate, Apart
    <3> QED
      BY <1>1, <1>3, <2>1, <2>4, <2>5, <2>6, <3>1, MoveKeepsGood
  <2>7. CASE ShutdownPlayer(c, x, x, peers, TRUE)
    <3>1. Fit(w, x, x)
      BY <2>3, <2>4 DEF Fit, DisconnectStates
    <3> QED
      BY <1>1, <1>3, <2>1, <2>4, <2>5, <2>7, <3>1, ShutKeepsGood
  <2>8. CASE ch # NULL /\ Move(c, "REGIONALLOCREQ", p)
    <3>0. r \in RegionIds
      BY <2>8, ConstantAssumption DEF RegionIds
    <3> HIDE DEF r
    <3>1. a \in Answers /\ a.sid = s /\ a.kind = "RegionAlloc" /\ ~a.void
      BY <1>1, <3>0, AnswerType DEF Answer, RegionKinds
    <3> HIDE DEF a, w
    <3>2. /\ Elsewhere(s, o) /\ o.regionOn = peers.regionOn
          /\ View(o, s).owed = w.owed \cup {a} /\ (View(o, s).login <=> w.login)
          /\ (View(o, s).cache <=> w.cache) /\ View(o, s).gate = w.gate /\ (View(o, s).here <=> w.here)
      BY <3>1, OweElsewhere DEF w
    <3>3. o \in PeersType
      BY <3>2 DEF Elsewhere
    <3> HIDE DEF o
    <3>4. p \in PeersType
      BY <1>1, <3>0, <3>3 DEF PeersType
    <3>5. /\ p.owed = o.owed /\ p.loginWait = o.loginWait /\ p.cacheOn = o.cacheOn
          /\ p.gateOwner = o.gateOwner /\ p.regionOn = o.regionOn \cup {<<r, s>>}
          /\ p.gateIn = o.gateIn /\ p.untold = o.untold
      BY <3>3 DEF PeersType
    <3> HIDE DEF p
    <3>6. RegionsKnow(p)
      BY <1>1, <3>2, <3>5 DEF RegionsKnow
    <3>7. Elsewhere(s, p) /\ u = View(o, s)
      BY <3>2, <3>3, <3>4, <3>5, <3>6, ViewsStay
    <3> HIDE DEF u
    <3>8. Common(u, acct[c])
      BY <2>1, <2>3, <3>1, <3>2, <3>7 DEF Common
    <3>9. AtRest(u, s, acct[c], "REGIONALLOCREQ", avatars'[c])
      <4>1. \E b \in u.owed : u.owed = {b} /\ b.kind = Awaited("REGIONALLOCREQ") /\ ~b.void
        BY <2>3, <3>1, <3>2, <3>7 DEF Awaited, AwaitedAnswer
      <4> QED
        BY <2>3, <2>4, <3>2, <3>7, <4>1 DEF AtRest, Waiting, AskedGate
    <3> QED
      BY <1>1, <2>1, <2>4, <2>5, <2>8, <3>7, <3>8, <3>9, MoveKeepsGood DEF u
  <2> QED
    BY <1>5, <2>6, <2>7, <2>8
<1> QED
  BY <1>2, <1>4, <1>5

\* A packet of a client.
LEMMA ClientPacketKeepsGood ==
  ASSUME Sound, NEW g \in GateSids, NEW ok, ClientPacket(g, ok)
  PROVE  Good'
<1>1. PICK c \in Ctx : c = bySid[g]
  BY DEF ClientPacket, Sound, TypeOK, Ptr, Sids
<1>2. /\ Filed /\ UNCHANGED <<regionId, avatars>>
      /\ \/ OnAvatarListReq(c, ok) /\ UNCHANGED chan
         \/ OnAvatarCreateReq(c, ok) /\ UNCHANGED chan
         \/ (\E known \in BOOLEAN : OnAvatarSelectReq(c, known, ok)) /\ UNCHANGED chan
         \/ \E ch \in Channels \cup {NULL} : OnChannelSelectReq(c, ch, ok)
  BY <1>1, FrameFiled DEF ClientPacket
<1>3. UNCHANGED chan => UNCHANGED ctxVars
  BY <1>2 DEF ctxVars
<1>4. CASE OnAvatarListReq(c, ok) /\ UNCHANGED chan
  <2>1. ForwardToCache(c, "ONAVATARLISTREQ", "AVATARLISTREQ", TRUE, "AvatarList", ok)
    BY <1>4 DEF OnAvatarListReq
  <2>2. <<"ONAVATARLISTREQ", "AVATARLISTREQ", "AvatarList">> \in Forwards
    BY DEF Forwards
  <2> QED
    BY <1>1, <1>2, <1>3, <1>4, <2>1, <2>2, ForwardKeepsGood
<1>5. CASE OnAvatarCreateReq(c, ok) /\ UNCHANGED chan
  <2> DEFINE v == avatars[c] < AVATARCOUNT_MAX
  <2>1. ForwardToCache(c, "ONAVATARCREATEREQ", "AVATARCREATEREQ", v, "AvatarCreate", ok)
    BY <1>5 DEF OnAvatarCreateReq
  <2>2. <<"ONAVATARCREATEREQ", "AVATARCREATEREQ", "AvatarCreate">> \in Forwards
    BY DEF Forwards
  <2>3. v => avatars[c] < AVATARCOUNT_MAX
    OBVIOUS
  <2> HIDE DEF v
  <2> QED
    BY <1>1, <1>2, <1>3, <1>5, <2>1, <2>2, <2>3, ForwardKeepsGood
<1>6. CASE (\E known \in BOOLEAN : OnAvatarSelectReq(c, known, ok)) /\ UNCHANGED chan
  BY <1>1, <1>2, <1>3, <1>6, ForwardKeepsGood DEF OnAvatarSelectReq, Forwards
<1>7. CASE \E ch \in Channels \cup {NULL} : OnChannelSelectReq(c, ch, ok)
  BY <1>1, <1>2, <1>7, OnChannelSelectReqKeepsGood
<1> QED
  BY <1>2, <1>4, <1>5, <1>6, <1>7

-----------------------------------------------------------------------------
(* The handlers: answers of the cache and the regions *)

\* Nobody is asked about session s of account n, its gate holds it and its
\* client is there.
Calm(w, s, n) ==
  w.owed = {} /\ ~w.login /\ w.here /\ (s \in GateSids => w.gate = n) /\ Common(w, n)

\* A handler may then leave the player where the client is to move,
LEMMA CalmMove ==
  ASSUME Sound, NEW s \in Sids, NEW c \in Ctx, c = bySid[s], ~fin[c], st[c] \in GateMapStates,
         st[c] \notin InRegion, NEW p, Elsewhere(s, p), Calm(View(p, s), s, acct[c]),
         NEW y \in {"AVATARLISTACK", "CHANNELLISTNTF", "CHANNELSELECTACK"}, Move(c, y, p),
         Filed, OthersStay(c)
  PROVE  Good'
<1> DEFINE w == View(p, s)
<1> HIDE DEF w
<1>1. Common(w, acct[c])
  BY DEF Calm, w
<1>2. y \in DeadEnds \cup ClientsTurn /\ y \notin Waiting /\ y \notin AskedGate /\ y \in CacheLogoutStates
      /\ y \in GateMapStates /\ y # "AVATARCREATEREQ"
  BY GateSideStates DEF DeadEnds, ClientsTurn, Waiting, AskedGate, CacheLogoutStates, RegionReleaseStates
<1>3. AtRest(w, s, acct[c], y, avatars'[c])
  BY <1>2 DEF AtRest, Calm, w
<1> QED
  BY <1>1, <1>2, <1>3, MoveKeepsGood DEF w

\* or shut it down.
LEMMA CalmShut ==
  ASSUME Sound, NEW s \in Sids, NEW c \in Ctx, c = bySid[s], ~fin[c], st[c] \in GateMapStates,
         st[c] \notin InRegion, NEW p, Elsewhere(s, p), Calm(View(p, s), s, acct[c]),
         NEW x \in CacheLogoutStates, x \notin RegionLeaveStates, NEW t \in GateMapStates, NEW ok,
         ShutdownPlayer(c, x, t, p, ok), Filed, OthersStay(c)
  PROVE  Good'
<1> DEFINE w == View(p, s)
<1> HIDE DEF w
<1>1. Common(w, acct[c])
  BY DEF Calm, w
<1>2. Fit(w, x, t)
  BY DEF Fit, Calm, DisconnectStates, w
<1> QED
  BY <1>1, <1>2, ShutKeepsGood DEF w

\* The answer a player waits for leaves its session calm.
LEMMA SettledCalm ==
  ASSUME Sound, NEW a \in peers.owed, NEW s \in Sids, a.sid = s, NEW c \in Ctx, c = bySid[s],
         NEW e, Admitted(c, e), st[c] \in Waiting, st[c] \notin AskedGate \cup Apart
  PROVE  /\ ~fin[c] /\ Calm(View(Settle(peers, a), s), s, acct[c])
         /\ st[c] = "AVATARCREATEREQ" => avatars[c] < AVATARCOUNT_MAX
<1> DEFINE w == View(peers, s)
           u == View(Settle(peers, a), s)
<1>1. a \in w.owed
  BY DEF View
<1> HIDE DEF w, u
<1>2. ~fin[c] /\ Common(w, acct[c]) /\ AtRest(w, s, acct[c], st[c], avatars[c])
  BY AdmittedRest DEF w
<1>3. u.owed = w.owed \ {a} /\ (u.login <=> w.login) /\ u.gate = w.gate /\ (u.here <=> w.here)
  BY SettleElsewhere DEF u, w
<1>4. u.owed = {} /\ ~u.login /\ u.here /\ (s \in GateSids => u.gate = acct[c])
  BY <1>1, <1>2, <1>3 DEF AtRest, AskedGate, Waiting, Apart
<1>5. Common(u, acct[c])
  BY <1>2, <1>3, <1>4 DEF Common
<1> QED
  BY <1>2, <1>4, <1>5 DEF Calm, AtRest, u

\* What the handlers of the cache's answers have in common.
LEMMA AckContext ==
  ASSUME Sound, NEW a \in peers.owed, NEW c \in Ctx, c = bySid[a.sid]
  PROVE  /\ a.sid \in Sids /\ Elsewhere(a.sid, Settle(peers, a))
         /\ Fades(View(peers, a.sid), View(Settle(peers, a), a.sid))
         /\ "ONAVATARLISTACK" \in CacheLogoutStates /\ "ONAVATARLISTACK" \notin RegionLeaveStates
         /\ "ONAVATARCREATEACK" \in CacheLogoutStates /\ "ONAVATARCREATEACK" \notin RegionLeaveStates
         /\ "ONAVATARSELECTACK" \in CacheLogoutStates /\ "ONAVATARSELECTACK" \notin RegionLeaveStates
         /\ "AVATARSELECTACK" \in CacheLogoutStates /\ "AVATARSELECTACK" \notin RegionLeaveStates
<1>1. a.sid \in Sids
  BY DEF Sound, TypeOK, PeersType, Answers, Sids
<1> QED
  BY <1>1, SettleElsewhere DEF CacheLogoutStates, RegionLeaveStates

\* OnAvatarListAck.
LEMMA OnAvatarListAckKeepsGood ==
  ASSUME Sound, NEW a \in peers.owed, NEW c \in Ctx, c = bySid[a.sid], NEW ret, NEW n, NEW ok,
         OnAvatarListAck(c, Settle(peers, a), ret, n, ok), Filed, UNCHANGED <<regionId, chan>>
  PROVE  Good'
<1> DEFINE p == Settle(peers, a)
           s == "ONAVATARLISTACK"
<1> HIDE DEF p
<1>1. \/ Rejected(c, s, p, ok) /\ UNCHANGED avatars
      \/ /\ Admitted(c, s)
         /\ \/ ShutdownPlayer(c, s, s, p, ok) /\ UNCHANGED avatars
            \/ /\ avatars' = [avatars EXCEPT ![c] = n]
               /\ Move(c, "AVATARLISTACK", p) \/ ShutdownPlayer(c, s, "AVATARLISTACK", p, TRUE)
  BY Fired DEF OnAvatarListAck, p
<1>2. CASE Rejected(c, s, p, ok) /\ UNCHANGED avatars
  BY <1>2, AckContext, RejectedKeepsGood DEF ctxVars, p
<1>3. CASE Admitted(c, s) /\ ~(Rejected(c, s, p, ok))
  <2>1. st[c] = "AVATARLISTREQ"
    BY <1>3, Expected DEF Admitted
  <2>2. /\ st[c] \in GateMapStates /\ st[c] \notin InRegion /\ s \in GateMapStates
        /\ "AVATARLISTACK" \in GateMapStates /\ st[c] \in Waiting /\ st[c] \notin AskedGate \cup Apart
    BY <2>1, GateSideStates DEF InRegion, Waiting, AskedGate, Apart
  <2>3. ~fin[c] /\ Calm(View(p, a.sid), a.sid, acct[c])
    BY <1>3, <2>2, AckContext, SettledCalm DEF p
  <2>4. OthersStay(c)
    BY <1>1, <1>3 DEF OthersStay, Sound, TypeOK
  <2>5. Elsewhere(a.sid, p) /\ a.sid \in Sids /\ s \in CacheLogoutStates /\ s \notin RegionLeaveStates
    BY AckContext DEF p
  <2>6. \/ ShutdownPlayer(c, s, s, p, ok) \/ Move(c, "AVATARLISTACK", p)
        \/ ShutdownPlayer(c, s, "AVATARLISTACK", p, TRUE)
    BY <1>1, <1>3
  <2> QED
    BY <2>2, <2>3, <2>4, <2>5, <2>6, CalmMove, CalmShut
<1> QED
  BY <1>1, <1>2, <1>3 DEF Rejected, Admitted

\* OnAvatarCreateAck; the list is not full, or the cache had not been asked.
LEMMA OnAvatarCreateAckKeepsGood ==
  ASSUME Sound, NEW a \in peers.owed, NEW c \in Ctx, c = bySid[a.sid], NEW ret, NEW ok,
         OnAvatarCreateAck(c, Settle(peers, a), ret, ok), Filed, UNCHANGED <<regionId, chan>>
  PROVE  Good'
<1> DEFINE p == Settle(peers, a)
           s == "ONAVATARCREATEACK"
<1> HIDE DEF p
<1>1. \/ Rejected(c, s, p, ok) /\ UNCHANGED avatars
      \/ /\ Admitted(c, s)
         /\ \/ ShutdownPlayer(c, s, s, p, ok) /\ UNCHANGED avatars
            \/ avatars[c] >= AVATARCOUNT_MAX
            \/ /\ avatars' = [avatars EXCEPT ![c] = @ + 1]
               /\ Move(c, "AVATARLISTACK", p) \/ ShutdownPlayer(c, s, "AVATARLISTACK", p, TRUE)
  BY Fired DEF OnAvatarCreateAck, p
<1>2. CASE Rejected(c, s, p, ok) /\ UNCHANGED avatars
  BY <1>2, AckContext, RejectedKeepsGood DEF ctxVars, p
<1>3. CASE Admitted(c, s) /\ ~(Rejected(c, s, p, ok))
  <2>1. st[c] = "AVATARCREATEREQ"
    BY <1>3, Expected DEF Admitted
  <2>2. /\ st[c] \in GateMapStates /\ st[c] \notin InRegion /\ s \in GateMapStates
        /\ "AVATARLISTACK" \in GateMapStates /\ st[c] \in Waiting /\ st[c] \notin AskedGate \cup Apart
    BY <2>1, GateSideStates DEF InRegion, Waiting, AskedGate, Apart
  <2>3. ~fin[c] /\ Calm(View(p, a.sid), a.sid, acct[c]) /\ avatars[c] < AVATARCOUNT_MAX
    BY <1>3, <2>1, <2>2, AckContext, SettledCalm DEF p
  <2>7. ~(avatars[c] >= AVATARCOUNT_MAX)
    BY <2>3, ConstantAssumption DEF Sound, TypeOK
  <2>4. OthersStay(c)
    BY <1>1, <1>3, <2>7 DEF OthersStay, Sound, TypeOK
  <2>5. Elsewhere(a.sid, p) /\ a.sid \in Sids /\ s \in CacheLogoutStates /\ s \notin RegionLeaveStates
    BY AckContext DEF p
  <2>6. \/ ShutdownPlayer(c, s, s, p, ok) \/ Move(c, "AVATARLISTACK", p)
        \/ ShutdownPlayer(c, s, "AVATARLISTACK", p, TRUE)
    BY <1>1, <1>3, <2>7
  <2> QED
    BY <2>2, <2>3, <2>4, <2>5, <2>6, CalmMove, CalmShut
<1> QED
  BY <1>1, <1>2, <1>3 DEF Rejected, Admitted

\* OnAvatarSelectAck.
LEMMA OnAvatarSelectAckKeepsGood ==
  ASSUME Sound, NEW a \in peers.owed, NEW c \in Ctx, c = bySid[a.sid], NEW ret, NEW ch, NEW ok, NEW listed,
         OnAvatarSelectAck(c, Settle(peers, a), ret, ch, ok, listed), Filed, UNCHANGED <<regionId, avatars>>
  PROVE  Good'
<1> DEFINE p == Settle(peers, a)
           s == "ONAVATARSELECTACK"
           t == "AVATARSELECTACK"
           u == IF listed THEN "CHANNELLISTNTF" ELSE t
           m == IF ok THEN t ELSE s
<1> HIDE DEF p
<1>1. \/ Rejected(c, s, p, ok) /\ UNCHANGED chan
      \/ /\ Admitted(c, s)
         /\ \/ ShutdownPlayer(c, s, s, p, ok) /\ UNCHANGED chan
            \/ /\ chan' = [chan EXCEPT ![c] = ch]
               /\ (ok /\ listed /\ Move(c, u, p)) \/ ShutdownPlayer(c, m, u, p, TRUE)
  BY Fired DEF OnAvatarSelectAck, p
<1>2. CASE Rejected(c, s, p, ok) /\ UNCHANGED chan
  BY <1>2, AckContext, RejectedKeepsGood DEF ctxVars, p
<1>3. CASE Admitted(c, s) /\ ~(Rejected(c, s, p, ok))
  <2>1. st[c] = "AVATARSELECTREQ"
    BY <1>3, Expected DEF Admitted
  <2>2. /\ st[c] \in GateMapStates /\ st[c] \notin InRegion /\ s \in GateMapStates
        /\ u \in GateMapStates /\ st[c] \in Waiting /\ st[c] \notin AskedGate \cup Apart
    BY <2>1, GateSideStates DEF InRegion, Waiting, AskedGate, Apart
  <2>3. ~fin[c] /\ Calm(View(p, a.sid), a.sid, acct[c])
    BY <1>3, <2>2, AckContext, SettledCalm DEF p
  <2>4. OthersStay(c)
    BY <1>1, <1>3 DEF OthersStay, Sound, TypeOK
  <2>5. /\ Elsewhere(a.sid, p) /\ a.sid \in Sids /\ s \in CacheLogoutStates /\ s \notin RegionLeaveStates
        /\ m \in CacheLogoutStates /\ m \notin RegionLeaveStates
    BY AckContext DEF p
  <2>6. \/ ShutdownPlayer(c, s, s, p, ok) \/ Move(c, "CHANNELLISTNTF", p)
        \/ ShutdownPlayer(c, m, u, p, TRUE)
    BY <1>1, <1>3
  <2> HIDE DEF m, u
  <2> QED
    BY <2>2, <2>3, <2>4, <2>5, <2>6, CalmMove, CalmShut
<1> QED
  BY <1>1, <1>2, <1>3 DEF Rejected, Admitted

\* An answer of the cache.
LEMMA CacheAckKeepsGood ==
  ASSUME Sound, NEW a \in peers.owed, NEW ok, CacheAck(a, ok)
  PROVE  Good'
<1>0. a.sid \in Sids
  BY DEF Sound, TypeOK, PeersType, Answers, Sids
<1>1. PICK c \in Ptr : c = bySid[a.sid]
  BY <1>0 DEF Sound, TypeOK
<1> DEFINE p == Settle(peers, a)
<1> HIDE DEF p
<1>2. /\ Filed /\ UNCHANGED regionId
      /\ \/ c = NULL /\ Ignore(p) /\ UNCHANGED <<chan, avatars>>
         \/ /\ c # NULL
            /\ \E ret \in Returns, n \in 0 .. AVATARCOUNT_MAX : OnAvatarListAck(c, p, ret, n, ok)
            /\ UNCHANGED chan
         \/ /\ c # NULL
            /\ \E ret \in Returns : OnAvatarCreateAck(c, p, ret, ok)
            /\ UNCHANGED chan
         \/ /\ c # NULL
            /\ \E ret \in Returns, ch \in Channels, listed \in SendResults :
                 OnAvatarSelectAck(c, p, ret, ch, ok, listed)
            /\ UNCHANGED avatars
  BY <1>1, FrameFiled DEF CacheAck, p
<1>3. CASE c = NULL /\ Ignore(p) /\ UNCHANGED <<chan, avatars>>
  BY <1>0, <1>1, <1>2, <1>3, SettleElsewhere, IgnoreKeepsGood DEF ctxVars, p
<1>4. CASE c # NULL
  <2>1. c \in Ctx
    BY <1>4 DEF Ptr
  <2> QED
    BY <1>1, <1>2, <1>4, <2>1, OnAvatarListAckKeepsGood, OnAvatarCreateAckKeepsGood,
       OnAvatarSelectAckKeepsGood DEF p
<1> QED
  BY <1>2, <1>3, <1>4

\* An answer of a region arrives, and its session may be gone there.
LEMMA RegionSettle ==
  ASSUME Sound, NEW a \in peers.owed, NEW R
  PROVE  LET q == Settle(peers, a)
             p == [q EXCEPT !.regionOn = @ \ R]
         IN  /\ a.sid \in Sids /\ Elsewhere(a.sid, p) /\ View(p, a.sid) = View(q, a.sid)
             /\ Fades(View(peers, a.sid), View(p, a.sid))
<1> DEFINE q == Settle(peers, a)
           p == [q EXCEPT !.regionOn = @ \ R]
<1>1. a.sid \in Sids
  BY DEF Sound, TypeOK, PeersType, Answers, Sids
<1>2. Elsewhere(a.sid, q) /\ Fades(View(peers, a.sid), View(q, a.sid))
  BY SettleElsewhere
<1>3. q \in PeersType /\ RegionsKnow(q)
  BY <1>2 DEF Elsewhere
<1> HIDE DEF q
<1>4. p \in PeersType
  BY <1>3 DEF PeersType
<1>5. /\ p.owed = q.owed /\ p.loginWait = q.loginWait /\ p.cacheOn = q.cacheOn
      /\ p.gateOwner = q.gateOwner /\ p.regionOn = q.regionOn \ R
      /\ p.gateIn = q.gateIn /\ p.untold = q.untold
  BY <1>3 DEF PeersType
<1> HIDE DEF p
<1>6. RegionsKnow(p)
  BY <1>3, <1>5 DEF RegionsKnow
<1>7. Elsewhere(a.sid, p) /\ View(p, a.sid) = View(q, a.sid)
  BY <1>2, <1>3, <1>4, <1>5, <1>6, ViewsStay
<1> QED
  BY <1>1, <1>2, <1>7 DEF p, q

\* OnRegionAllocAck, admitted: the region grants or refuses the player.
LEMMA RegionAnswerKeepsGood ==
  ASSUME Sound, NEW s \in Sids, NEW c \in Ctx, c = bySid[s], ~fin[c], st[c] = "REGIONALLOCREQ",
         NEW p, Elsewhere(s, p), Calm(View(p, s), s, acct[c]), NEW r \in RegionIds, NEW ok, NEW ok2,
         RegionRefused(c, p, ok, ok2) \/ RegionGranted(c, r, p, ok, ok2),
         Filed, UNCHANGED <<chan, avatars>>
  PROVE  Good'
<1> DEFINE s1 == "ONREGIONALLOCACK"
           s2 == "CHANNELSELECTACK"
           enters == /\ regionId' = [regionId EXCEPT ![c] = r]
                     /\ st' = [st EXCEPT ![c] = "REGIONENTERREQ"]
                     /\ regionMap' = Insert(regionMap, <<chan[c], r, sess[c]>>, c)
                     /\ peers' = p
                     /\ UNCHANGED <<fin, queue>>
<1>1. /\ UNCHANGED regionId \/ regionId' = [regionId EXCEPT ![c] = r]
      /\ \/ ShutdownPlayer(c, s1, s1, p, TRUE) \/ ShutdownPlayer(c, s2, s2, p, TRUE)
         \/ Move(c, s2, p) \/ enters
  BY Fired DEF RegionRefused, RegionGranted
<1>2. /\ st[c] \in GateMapStates /\ st[c] \notin InRegion /\ st[c] \notin LoginMapStates
      /\ s1 \in GateMapStates /\ s2 \in GateMapStates /\ "REGIONENTERREQ" \in GateMapStates
      /\ s1 \in CacheLogoutStates /\ s2 \in CacheLogoutStates
      /\ s1 \notin RegionLeaveStates /\ s2 \notin RegionLeaveStates
  BY GateSideStates DEF InRegion, LoginMapStates, CacheLogoutStates, RegionReleaseStates, RegionLeaveStates
<1>3. OthersStay(c)
  <2>1. regionId' \in [Ctx -> RegionIds] /\ \A d \in Ctx \ {c} : regionId'[d] = regionId[d]
    <3>1. UNCHANGED regionId \/ regionId' = [regionId EXCEPT ![c] = r]
      BY <1>1
    <3>2. regionId \in [Ctx -> RegionIds]
      BY DEF Sound, TypeOK
    <3> QED
      BY <3>1, <3>2
  <2> QED
    BY <2>1 DEF OthersStay
<1>4. CASE ShutdownPlayer(c, s1, s1, p, TRUE) \/ ShutdownPlayer(c, s2, s2, p, TRUE) \/ Move(c, s2, p)
  BY <1>2, <1>3, <1>4, CalmMove, CalmShut
<1>5. CASE enters
  <2> DEFINE key == <<chan[c], r, sess[c]>>
             w == View(p, s)
  <2>1. /\ st'[c] = "REGIONENTERREQ" /\ \A d \in Ctx \ {c} : st'[d] = st[d]
        /\ regionId'[c] = r /\ peers' = p /\ UNCHANGED <<fin, chan, avatars, acct, bySid, sess>>
    BY <1>5 DEF Sound, TypeOK, Filed
  <2> HIDE DEF key
  <2>2. /\ DOMAIN regionMap' = DOMAIN regionMap
        /\ \A k \in DOMAIN regionMap : regionMap'[k] = regionMap[k] \/ (k = key /\ regionMap'[k] = c)
    BY <1>5 DEF Insert, Sound, TypeOK, key
  <2>3. Listed(c)'
    <3>1. Listed(c) /\ \A k \in DOMAIN regionMap : regionMap[k] # c
      BY <1>2 DEF Sound, Good, Listed
    <3>2. Live(c) /\ (Live(c)' <=> Live(c))
      BY OwnSession, ConstantAssumption DEF Sound, Filed, Live
    <3>3. \A k \in DOMAIN regionMap' : regionMap'[k] = c =>
            Live(c)' /\ k = <<chan'[c], regionId'[c], sess'[c]>> /\ st'[c] \in InRegion
      BY <2>1, <2>2, <3>1, <3>2 DEF InRegion, key
    <3>4. \A k \in DOMAIN gateMap' : gateMap'[k] = c =>
            Live(c)' /\ k = <<gateId'[c], sess'[c]>> /\ st'[c] \in GateMapStates
      BY <1>2, <2>1, <3>1, <3>2 DEF Listed, Filed
    <3>5. \A k \in Sids : loginMap'[k] = c => <<k, "LoginNtf">> \in peers'.untold
      <4> TAKE k \in Sids
      <4>1. loginMap' = loginMap /\ UntoldStays(p) /\ peers' = p
        BY <2>1 DEF Filed, Elsewhere
      <4> QED
        BY <1>2, <3>1, <4>1, ConstantAssumption DEF Listed, UntoldStays
    <3> QED
      BY <3>3, <3>4, <3>5 DEF Listed
  <2>4. SessionFits(s)'
    <3> HIDE DEF w
    <3>1. AtRest(w, s, acct[c], "REGIONENTERREQ", avatars[c])
      BY DEF AtRest, Calm, ClientsTurn, Waiting, AskedGate, CacheLogoutStates, RegionLeaveStates, w
    <3>2. Common(w, acct[c]) /\ c # NULL
      BY ConstantAssumption DEF Calm, w
    <3> QED
      BY <2>1, <3>1, <3>2 DEF SessionFits, PlayerFits, w
  <2>5. \A d \in Ctx \ {c} : \A k \in DOMAIN regionMap : regionMap'[k] = d => regionMap[k] = d
    BY <2>2
  <2> QED
    BY <1>3, <2>1, <2>2, <2>3, <2>4, <2>5, OneStep
<1> QED
  BY <1>1, <1>4, <1>5

\* OnRegionAllocAck.
LEMMA OnRegionAllocAckKeepsGood ==
  ASSUME Sound, NEW a \in peers.owed, a.kind = "RegionAlloc", NEW ret, NEW ok, NEW ok2,
         OnRegionAllocAck(a, ret, ok, ok2)
  PROVE  Good'
<1> DEFINE q == Settle(peers, a)
           p == IF ret = 0 THEN q ELSE [q EXCEPT !.regionOn = @ \ {<<a.srv, a.sid>>}]
<1>1. /\ a.sid \in Sids /\ Elsewhere(a.sid, p) /\ View(p, a.sid) = View(q, a.sid)
      /\ Fades(View(peers, a.sid), View(p, a.sid))
  BY RegionSettle, SettleElsewhere
<1>2. PICK c \in Ptr : c = bySid[a.sid]
  BY <1>1 DEF Sound, TypeOK
<1>3. /\ Filed /\ UNCHANGED <<chan, avatars>>
      /\ \/ c = NULL /\ Ignore(p) /\ UNCHANGED regionId
         \/ c # NULL /\ UNCHANGED regionId /\ Rejected(c, "ONREGIONALLOCACK", p, ok)
         \/ /\ c # NULL /\ Admitted(c, "ONREGIONALLOCACK")
            /\ RegionRefused(c, p, ok, ok2) \/ RegionGranted(c, a.srv, p, ok, ok2)
  BY <1>2, FrameFiled DEF OnRegionAllocAck
<1> HIDE DEF p, q
<1>4. CASE c = NULL /\ Ignore(p) /\ UNCHANGED regionId
  BY <1>1, <1>2, <1>3, <1>4, IgnoreKeepsGood DEF ctxVars
<1>5. CASE c # NULL /\ UNCHANGED regionId /\ Rejected(c, "ONREGIONALLOCACK", p, ok)
  BY <1>1, <1>2, <1>3, <1>5, RejectedKeepsGood DEF ctxVars, Ptr
<1>6. CASE /\ c # NULL /\ Admitted(c, "ONREGIONALLOCACK")
           /\ RegionRefused(c, p, ok, ok2) \/ RegionGranted(c, a.srv, p, ok, ok2)
  <2>1. c \in Ctx /\ st[c] = "REGIONALLOCREQ"
    BY <1>6, Expected DEF Admitted, Ptr
  <2>2. st[c] \in Waiting /\ st[c] \notin AskedGate \cup Apart
    BY <2>1 DEF Waiting, AskedGate, Apart
  <2>3. ~fin[c] /\ Calm(View(p, a.sid), a.sid, acct[c])
    BY <1>1, <1>2, <1>6, <2>1, <2>2, SettledCalm DEF q
  <2>4. a.srv \in RegionIds
    BY DEF Sound, TypeOK, PeersType, Answers, CacheKinds, GateKinds
  <2> QED
    BY <1>1, <1>2, <1>3, <1>6, <2>1, <2>3, <2>4, RegionAnswerKeepsGood
<1> QED
  BY <1>3, <1>4, <1>5, <1>6

\* OnRegionLeaveReq.
LEMMA OnRegionLeaveReqKeepsGood ==
  ASSUME Sound, NEW a \in peers.owed, NEW ok, OnRegionLeaveReq(a, ok)
  PROVE  Good'
<1> DEFINE q == Settle(peers, a)
           p == [q EXCEPT !.regionOn = @ \ {<<a.srv, a.sid>>}]
           w == View(peers, a.sid)
           u == View(p, a.sid)
<1>1. /\ a.sid \in Sids /\ Elsewhere(a.sid, p) /\ u = View(q, a.sid) /\ Fades(w, u)
  BY RegionSettle
<1>2. PICK c \in Ptr : c = bySid[a.sid]
  BY <1>1 DEF Sound, TypeOK
<1>3. PICK y : y = Result(st[c], "ONREGIONLEAVEREQ")
  OBVIOUS
<1> DEFINE sv == [st EXCEPT ![c] = y]
<1>4. /\ Filed /\ UNCHANGED ctxVars
      /\ \/ c = NULL /\ Ignore(p)
         \/ c # NULL /\ StateError(c, p, ok)
         \/ c # NULL /\ y # INVALID /\ ShutdownSet({c}, sv, sv, p, {c}, {c})
         \/ /\ c # NULL /\ y # INVALID
            /\ st' = [st EXCEPT ![c] = After(y, "CHANNELLISTNTF")]
            /\ DeleteFromRegion(RegionKeys({c}, regionId))
            /\ peers' = p
            /\ UNCHANGED <<fin, queue>>
  BY <1>2, <1>3, FrameFiled DEF OnRegionLeaveReq
<1> HIDE DEF p
<1>5. CASE c = NULL /\ Ignore(p)
  BY <1>1, <1>2, <1>4, <1>5, IgnoreKeepsGood
<1>6. CASE c # NULL /\ StateError(c, p, ok)
  BY <1>1, <1>2, <1>4, <1>6, ErrorKeepsGood DEF Ptr
<1>7. ASSUME c # NULL, y # INVALID
      PROVE  /\ c \in Ctx /\ Live(c) /\ sess[c] = a.sid
             /\ Common(u, acct[c])
             /\ st[c] \in GateMapStates /\ st[c] \notin LoginMapStates
             /\ y \in GateMapStates /\ y \notin RegionLeaveStates
             /\ After(y, "CHANNELLISTNTF") \in GateMapStates
             /\ fin[c] => Leaving(u, y) /\ Leaving(u, After(y, "CHANNELLISTNTF"))
             /\ ~fin[c] => /\ y = "FINALIZING_ONREGIONLEAVEREQ" /\ After(y, "CHANNELLISTNTF") = y
                           /\ u.owed = {} /\ ~u.login
  <2>1. c \in Ctx /\ Live(c) /\ sess[c] = a.sid
    BY <1>1, <1>2, <1>7, OwnSession DEF Sound, Ptr
  <2>2. Common(w, acct[c]) /\ IF fin[c] THEN Leaving(w, st[c]) ELSE AtRest(w, a.sid, acct[c], st[c], avatars[c])
    BY <1>1, <1>2, <1>7 DEF Sound, Good, SessionFits, PlayerFits
  <2>3. Common(u, acct[c]) /\ (fin[c] => Leaving(u, st[c]))
    <3>1. Common(u, acct[c])
      BY <1>1, <2>2 DEF Common, Fades
    <3> QED
      BY <1>1, <2>2, <3>1, LeavingFades
  <2>4. \/ st[c] = "FINALIZING_REGIONLEAVEACK" /\ y = "FINALIZING_ONREGIONLEAVEREQ"
        \/ st[c] = "ONCHANNELLEAVE_REGIONLEAVEACK" /\ y = "ONCHANNELLEAVE_ONREGIONLEAVEREQ"
    BY <1>3, <1>7, Leaves
  <2>5. y \in States /\ st[c] \in States
    BY <1>3, <1>7, <2>1, ResultType DEF Sound, TypeOK
  <2>6. After(y, "CHANNELLISTNTF") \in States
    BY <2>5, AfterType
  <2>7. After("ONCHANNELLEAVE_ONREGIONLEAVEREQ", "CHANNELLISTNTF") \in {"CHANNELLISTNTF", "ONCHANNELLEAVE_ONREGIONLEAVEREQ"}
    BY Lookup DEF After, Target
  <2>8. /\ st[c] \in GateMapStates /\ st[c] \notin LoginMapStates
        /\ y \in GateMapStates /\ y \notin RegionLeaveStates
        /\ After(y, "CHANNELLISTNTF") \in GateMapStates
    BY <2>4, <2>5, <2>6, <2>7, Fired DEF GateMapStates, LoginMapStates, RegionLeaveStates
  <2>9. fin[c] => Leaving(u, y) /\ Leaving(u, After(y, "CHANNELLISTNTF"))
    <3> HIDE DEF u
    <3> QED
      BY <2>3, <2>4, <2>7, Fired DEF Leaving, Apart
  <2>10. ASSUME ~fin[c]
         PROVE  /\ y = "FINALIZING_ONREGIONLEAVEREQ" /\ After(y, "CHANNELLISTNTF") = y
                /\ u.owed = {} /\ ~u.login
    <3>1. AtRest(w, a.sid, acct[c], st[c], avatars[c])
      BY <2>2, <2>10
    <3>2. a \in w.owed
      BY DEF View
    <3>3. u.owed = w.owed \ {a} /\ (u.login <=> w.login)
      BY <1>1, SettleElsewhere
    <3> HIDE DEF u, w
    <3>4. st[c] = "FINALIZING_REGIONLEAVEACK" /\ y = "FINALIZING_ONREGIONLEAVEREQ"
      BY <2>4, <3>1 DEF AtRest, DeadEnds, ClientsTurn, Waiting, Apart
    <3> QED
      BY <3>1, <3>2, <3>3, <3>4, Fired DEF AtRest, Waiting, AskedGate
  <2> QED
    BY <2>1, <2>3, <2>8, <2>9, <2>10
<1>8. OthersStay(c) /\ UNCHANGED <<chan, regionId, avatars>>
  BY <1>4, NothingMoves DEF ctxVars
<1>9. CASE c # NULL /\ y # INVALID /\ ShutdownSet({c}, sv, sv, p, {c}, {c})
  <2>1. Advance(c, y, y, {c})
    BY <1>7, <1>8, <1>9 DEF Advance
  <2>2. ReadyFor(u, c, y, y)
    <3> HIDE DEF u
    <3> QED
      BY <1>7, <1>9 DEF ReadyFor, Fit, Apart
  <2> QED
    BY <1>1, <1>2, <1>4, <1>7, <1>8, <1>9, <2>1, <2>2, OneShutdown
<1>10. CASE /\ c # NULL /\ y # INVALID
            /\ st' = [st EXCEPT ![c] = After(y, "CHANNELLISTNTF")]
            /\ DeleteFromRegion(RegionKeys({c}, regionId))
            /\ peers' = p
            /\ UNCHANGED <<fin, queue>>
  <2> DEFINE z == After(y, "CHANNELLISTNTF")
             keys == RegionKeys({c}, regionId)
  <2>0. c \in Ctx
    BY <1>7, <1>10
  <2>1. /\ st'[c] = z /\ \A d \in Ctx \ {c} : st'[d] = st[d]
        /\ peers' = p /\ UNCHANGED <<fin, acct, bySid>>
    BY <1>4, <1>10, <2>0 DEF Sound, TypeOK, Filed
  <2>2. regionMap' = [k \in DOMAIN regionMap |-> IF k \in keys THEN NULL ELSE regionMap[k]]
    BY <1>10 DEF DeleteFromRegion
  <2>3. <<chan[c], regionId[c], sess[c]>> \in keys
    BY DEF RegionKeys
  <2> HIDE DEF z, keys
  <2>4. /\ DOMAIN regionMap' = DOMAIN regionMap
        /\ \A d \in Ctx : \A k \in DOMAIN regionMap : regionMap'[k] = d => regionMap[k] = d
    BY <2>2, ConstantAssumption
  <2>5. Listed(c)'
    <3>1. Listed(c)
      BY <2>0 DEF Sound, Good
    <3>2. \A k \in DOMAIN regionMap : regionMap'[k] # c
      BY <1>10, <2>2, <2>3, <3>1 DEF Listed
    <3> QED
      BY <1>1, <1>4, <1>7, <1>10, <2>0, <2>1, <2>4, <3>1, <3>2, ListsKeep DEF Filed, Elsewhere, z
  <2>6. SessionFits(a.sid)'
    <3>1. SessionFits(a.sid)' <=> PlayerFits(u, a.sid, acct[c], z, fin[c], avatars[c])
      BY <1>2, <1>8, <1>10, <2>1 DEF SessionFits
    <3> HIDE DEF u
    <3>2. ~fin[c] => AtRest(u, a.sid, acct[c], z, avatars[c])
      BY <1>7, <1>10 DEF AtRest, DeadEnds, Waiting, AskedGate, Apart, CacheLogoutStates, z
    <3> QED
      BY <1>7, <1>10, <3>1, <3>2 DEF PlayerFits, z
  <2> QED
    BY <1>1, <1>2, <1>4, <1>8, <2>1, <2>4, <2>5, <2>6, OneStep
<1> QED
  BY <1>4, <1>5, <1>6, <1>9, <1>10

\* OnRegionPlayerFailReq.
LEMMA OnRegionPlayerFailReqKeepsGood ==
  ASSUME Sound, NEW k \in peers.regionOn, OnRegionPlayerFailReq(k[1], k[2])
  PROVE  Good'
<1>1. PICK s \in GateSids : s = k[2]
  BY DEF Sound, Good, RegionsKnow
<1>2. s \in Sids /\ peers \in PeersType /\ RegionsKnow(peers)
  BY DEF Sids, Sound, TypeOK, Good
<1>3. PICK c \in Ptr : c = bySid[s]
  BY <1>2 DEF Sound, TypeOK
<1> DEFINE p == [peers EXCEPT !.regionOn = @ \ {<<k[1], s>>}]
           w == View(peers, s)
<1>4. /\ Filed /\ UNCHANGED ctxVars
      /\ \/ Gone(c) /\ Ignore(p)
         \/ /\ ~Gone(c)
            /\ fin' = [fin EXCEPT ![c] = TRUE]
            /\ \E lost \in Lossy({"Disconnect", "OnLogoutReq"}) : peers' = PlayerFailed(p, s, lost)
            /\ UNCHANGED <<st, regionMap>>
  BY <1>1, <1>3, FrameFiled DEF OnRegionPlayerFailReq
<1>5. p \in PeersType
  BY <1>2 DEF PeersType
<1>6. /\ p.owed = peers.owed /\ p.loginWait = peers.loginWait /\ p.cacheOn = peers.cacheOn
      /\ p.gateOwner = peers.gateOwner /\ p.regionOn \subseteq peers.regionOn
      /\ p.gateIn = peers.gateIn /\ p.untold = peers.untold
  BY <1>2 DEF PeersType
<1> HIDE DEF p
<1>10. Elsewhere(s, p) /\ Fades(w, View(p, s))
  BY <1>2, <1>5, <1>6, ElsewhereBy DEF RegionsKnow, Fades, View, UntoldStays
<1>12. CASE Gone(c) /\ Ignore(p)
  BY <1>2, <1>3, <1>4, <1>10, <1>12, IgnoreKeepsGood DEF Gone
<1>13. CASE /\ ~Gone(c)
            /\ fin' = [fin EXCEPT ![c] = TRUE]
            /\ \E lost \in Lossy({"Disconnect", "OnLogoutReq"}) : peers' = PlayerFailed(p, s, lost)
            /\ UNCHANGED <<st, regionMap>>
  <2>0. PICK lost \in Lossy({"Disconnect", "OnLogoutReq"}) : peers' = PlayerFailed(p, s, lost)
    BY <1>13
  <2> DEFINE o == [p EXCEPT !.cacheOn = IF "OnLogoutReq" \in lost THEN @ ELSE @ \ {s},
                            !.untold = @ \cup ({s} \X lost)]
             q == PlayerFailed(p, s, lost)
             u == View(q, s)
  <2>12. q = GateDropped(o, IF "Disconnect" \in lost THEN {} ELSE {s})
    BY DEF PlayerFailed
  <2>13. lost \subseteq Notices
    BY DEF Lossy, Notices
  <2>14. o \in PeersType /\ q \in PeersType
    <3>1. q \in PeersType
      BY <1>2, <1>5, PlayerFailedType
    <3>2. {s} \X lost \subseteq Sids \X Notices
      BY <1>2, <2>13
    <3>3. o \in PeersType
      BY <1>5, <3>2 DEF PeersType
    <3> QED
      BY <3>1, <3>3
  <2>15. /\ o.owed = p.owed /\ o.loginWait = p.loginWait /\ o.gateOwner = p.gateOwner
         /\ o.cacheOn = IF "OnLogoutReq" \in lost THEN p.cacheOn ELSE p.cacheOn \ {s}
         /\ o.regionOn = p.regionOn /\ o.gateIn = p.gateIn /\ o.untold = p.untold \cup ({s} \X lost)
    BY <1>5 DEF PeersType
  <2> HIDE DEF o, q
  <2>16. /\ q.owed = o.owed /\ q.loginWait = o.loginWait /\ q.cacheOn = o.cacheOn
         /\ q.regionOn = o.regionOn /\ q.gateIn = o.gateIn /\ q.untold = o.untold
         /\ q.gateOwner = [g \in GateSids |->
                            IF g \in IF "Disconnect" \in lost THEN {} ELSE {s} THEN NULL ELSE o.gateOwner[g]]
    BY <2>12, <2>14 DEF PeersType, GateDropped
  <2>17. \A g \in GateSids :
           q.gateOwner[g] = IF g = s /\ "Disconnect" \notin lost THEN NULL ELSE peers.gateOwner[g]
    BY <1>6, <2>15, <2>16
  <2>18. /\ q.owed = peers.owed /\ q.loginWait = peers.loginWait /\ q.gateIn = peers.gateIn
         /\ q.regionOn \subseteq peers.regionOn /\ q.untold = peers.untold \cup ({s} \X lost)
         /\ q.cacheOn = IF "OnLogoutReq" \in lost THEN peers.cacheOn ELSE peers.cacheOn \ {s}
    BY <1>6, <2>15, <2>16
  <2>19. RegionsKnow(q) /\ UntoldStays(q)
    BY <1>2, <2>18 DEF RegionsKnow, UntoldStays
  <2>20. Elsewhere(s, q)
    BY <2>14, <2>17, <2>18, <2>19, ElsewhereBy
  <2>1. c \in Ctx /\ ~fin[c] /\ c # NULL
    BY <1>13 DEF Gone, Ptr
  <2>2. Common(w, acct[c]) /\ AtRest(w, s, acct[c], st[c], avatars[c])
    BY <1>2, <1>3, <2>1 DEF Sound, Good, SessionFits, PlayerFits
  <2>3. /\ fin'[c] /\ \A d \in Ctx \ {c} : st'[d] = st[d] /\ fin'[d] = fin[d]
        /\ peers' = q /\ UNCHANGED <<st, regionMap, acct, bySid, avatars, chan, regionId>>
    BY <1>4, <1>13, <2>0, <2>1 DEF q, Sound, TypeOK, Filed, ctxVars
  <2>4. /\ u.owed = w.owed /\ (u.login <=> w.login) /\ u.gate \in {w.gate, NULL}
        /\ u.cache => "OnLogoutReq" \in u.lost
        /\ u.gate = NULL \/ "Disconnect" \in u.lost
    BY <2>13, <2>17, <2>18 DEF View
  <2> HIDE DEF u, w
  <2>5. st[c] \notin AskedGate
    BY <2>2, ConstantAssumption DEF AtRest
  <2>6. \A b \in w.owed : b.kind # "GateAlloc"
    BY <2>2, <2>5 DEF AtRest, Waiting, Awaited, AwaitedAnswer, AskedGate
  <2>7. ~w.login
    BY <2>2, <2>5 DEF AtRest
  <2>8. Common(u, acct[c]) /\ Leaving(u, st[c])
    BY <2>2, <2>4, <2>6, <2>7 DEF Common, Leaving, Refused
  <2>9. SessionFits(s)'
    BY <1>3, <2>1, <2>3, <2>8 DEF SessionFits, PlayerFits, u
  <2>10. Listed(c)'
    <3>1. Listed(c)
      BY <2>1 DEF Sound, Good
    <3>2. \A j \in DOMAIN regionMap : regionMap[j] = c => st[c] \in InRegion
      BY <3>1 DEF Listed
    <3> QED
      BY <1>4, <2>1, <2>3, <2>19, <3>1, <3>2, ListsKeep DEF Filed
  <2>11. OthersStay(c)
    BY <1>4, NothingMoves
  <2> QED
    BY <1>2, <1>3, <1>4, <2>3, <2>9, <2>10, <2>11, <2>20, OneStep
<1> QED
  BY <1>4, <1>12, <1>13

-----------------------------------------------------------------------------
(* The handlers: shutdown, reports and logins *)

\* _OnCommandShutdown.
LEMMA ShutdownKeepsGood ==
  ASSUME Sound, NEW reached, Shutdown(reached)
  PROVE  Good'
<1> DEFINE C == { byName[n] : n \in Accounts } \ {NULL}
<1>1. /\ ShutdownSet(C, st, st, peers, reached, {})
      /\ UNCHANGED <<regionId, chan, avatars, acct, bySid, gateMap, loginMap, created, freeCnt, gateId, sess>>
  BY DEF Shutdown, ctxVars, idVars, mapVars, poolVars
<1>2. C \in SUBSET Ctx /\ \A c \in C : Live(c)
  BY DEF Sound, TypeOK, Ptr, NamesAndSessions
<1> HIDE DEF C
<1>3. peers \in PeersType /\ RegionsKnow(peers) /\ UntoldStays(peers) /\ regionId' \in [Ctx -> RegionIds]
  BY <1>1 DEF Sound, TypeOK, Good, UntoldStays
<1>4. \A s \in Sids : Ready(s, C, st, st, peers)
  <2> TAKE s \in Sids
  <2> DEFINE w == View(peers, s)
  <2>1. SessionFits(s) /\ Fades(w, w)
    BY DEF Sound, Good, Fades
  <2>2. CASE bySid[s] = NULL
    BY <2>1, <2>2 DEF Ready, SessionFits
  <2>3. CASE bySid[s] # NULL
    <3> DEFINE d == bySid[s]
    <3>1. /\ Common(w, acct[d])
          /\ IF fin[d] THEN Leaving(w, st[d]) ELSE AtRest(w, s, acct[d], st[d], avatars[d])
      BY <2>1, <2>3 DEF SessionFits, PlayerFits
    <3>2. ~fin[d] => Fit(w, st[d], st[d])
      BY <2>1, <3>1, RestReady
    <3> QED
      BY <1>1, <2>3, <3>1, <3>2 DEF Ready
  <2> QED
    BY <2>2, <2>3
<1>5. \A s \in Sids : SessionFits(s)'
  BY <1>1, <1>2, <1>3, <1>4, ShutdownSessions DEF Sound
<1>6. RegionsKnow(peers)' /\ UntoldStays(peers')
  BY <1>1, <1>2, <1>3, ShutdownRegions DEF Sound
<1>7. \A c \in Ctx : Advance(c, st[c], st[c], {})
  BY <1>1, OthersAdvance
<1>8. \A c \in Ctx : Listed(c)'
  BY <1>1, <1>2, <1>6, <1>7, ShutdownLists DEF Sound, Good
<1> QED
  BY <1>5, <1>6, <1>8 DEF Good

\* A step that leaves players, indexes and peers alone.
LEMMA StutterKeepsGood ==
  ASSUME Good, UNCHANGED <<st, fin, regionMap, peers, avatars, chan, regionId, acct, bySid, gateMap, loginMap,
                           created, freeCnt, gateId, sess>>
  PROVE  Good'
<1>1. \A s \in Sids : SessionFits(s)'
  BY DEF Good, SessionFits, View
<1>2. \A c \in Ctx : Listed(c)'
  BY DEF Good, Listed, Live
<1> QED
  BY <1>1, <1>2 DEF Good, RegionsKnow

\* Session s is new to everybody, and its client waits on the login server.
LEMMA NewSession ==
  ASSUME Sound, NEW s \in LoginSids, Unused(s), NEW p, p = NowWaiting(peers, s)
  PROVE  /\ s \in Sids /\ Elsewhere(s, p) /\ bySid[s] = NULL
         /\ View(p, s).owed = {} /\ View(p, s).login /\ ~View(p, s).cache /\ View(p, s).gate = NULL
         /\ p.loginWait = peers.loginWait \cup {s} /\ p.owed = peers.owed
<1>1. peers \in PeersType /\ RegionsKnow(peers) /\ s \in Sids
  BY DEF Sids, Sound, TypeOK, Good
<1>2. p \in PeersType
  BY <1>1, NowWaitingType
<1>3. /\ p.owed = peers.owed /\ p.loginWait = peers.loginWait \cup {s} /\ p.cacheOn = peers.cacheOn
      /\ p.gateOwner = peers.gateOwner /\ p.regionOn = peers.regionOn
      /\ p.gateIn = peers.gateIn /\ p.untold = peers.untold \ ({s} \X Notices)
  BY <1>1 DEF PeersType, NowWaiting
<1>5. /\ s \notin peers.cacheOn /\ (\A a \in peers.owed : a.sid # s) /\ s \notin GateSids
      /\ bySid[s] = NULL /\ loginMap[s] = NULL
  BY ConstantAssumption DEF Unused
<1>6. UntoldStays(p)
  BY <1>3, <1>5 DEF UntoldStays
<1>4. Elsewhere(s, p)
  BY <1>1, <1>2, <1>3, <1>6, ElsewhereBy DEF RegionsKnow
<1> QED
  BY <1>1, <1>3, <1>4, <1>5 DEF View

\* A client is turned away, and told so or not.
LEMMA LoginRefused ==
  ASSUME Sound, NEW s \in LoginSids, Unused(s), NEW told, NEW p,
         p = IF told THEN peers ELSE Untold(NowWaiting(peers, s), s, "OnLoginFailedAck")
  PROVE  s \in Sids /\ bySid[s] = NULL /\ Elsewhere(s, p) /\ Refused(View(p, s))
<1> DEFINE o == NowWaiting(peers, s)
           m == "OnLoginFailedAck"
<1>1. /\ s \in Sids /\ Elsewhere(s, o) /\ bySid[s] = NULL /\ m \in Notices
  BY NewSession DEF Notices
<1>2. CASE told
  <2>1. p = peers /\ SessionFits(s) /\ peers \in PeersType /\ RegionsKnow(peers)
    BY <1>1, <1>2 DEF Sound, Good, TypeOK
  <2> QED
    BY <1>1, <2>1 DEF SessionFits, Elsewhere, UntoldStays
<1>3. CASE ~told
  <2>1. o \in PeersType /\ p = Untold(o, s, m)
    BY <1>1, <1>3 DEF Elsewhere
  <2> HIDE DEF o
  <2>2. /\ p.owed = o.owed /\ p.loginWait = o.loginWait /\ p.cacheOn = o.cacheOn
        /\ p.gateOwner = o.gateOwner /\ p.regionOn = o.regionOn
        /\ p.gateIn = o.gateIn /\ p.untold = o.untold \cup {<<s, m>>}
    BY <2>1 DEF PeersType, Untold
  <2>3. p \in PeersType
    BY <1>1, <2>1, UntoldType
  <2>4. ASSUME NEW r \in Sids \ {s} PROVE View(p, r) = View(o, r)
    <3>1. { x \in Notices : <<r, x>> \in p.untold } = { x \in Notices : <<r, x>> \in o.untold }
      BY <2>2, <2>4
    <3> QED
      BY <2>2, <3>1, Zenon DEF View
  <2>5. Elsewhere(s, p)
    BY <1>1, <2>2, <2>3, <2>4 DEF Elsewhere, RegionsKnow, UntoldStays
  <2>6. Refused(View(p, s))
    BY <1>1, <2>2 DEF Refused, View
  <2> QED
    BY <1>1, <2>5, <2>6
<1> QED
  BY <1>2, <1>3

\* A login that finds no player under the account and room in the pool.
LEMMA NewPlayerKeepsGood ==
  ASSUME Sound, NEW n \in Accounts, NEW s \in LoginSids, NEW ok, NEW c \in Ctx,
         Unused(s), Allocate(c),
         bySid' = Insert(bySid, s, c),
         loginMap' = Insert(loginMap, s, c),
         PlayerOnLoginReq(c, s, n, NowWaiting(peers, s), ok),
         UNCHANGED <<chan, avatars, gateMap>>
  PROVE  Good'
<1>0. PICK p : p = NowWaiting(peers, s)
  OBVIOUS
<1>1. /\ s \in Sids /\ Elsewhere(s, p) /\ bySid[s] = NULL
      /\ View(p, s).owed = {} /\ View(p, s).login /\ ~View(p, s).cache /\ View(p, s).gate = NULL
      /\ p.loginWait = peers.loginWait \cup {s} /\ p.owed = peers.owed
  BY <1>0, NewSession
<1>2. /\ ~Live(c) /\ Live(c)' /\ \A d \in Ctx \ {c} : Live(d)' <=> Live(d)
  BY AllocateKeepsPool DEF Sound
<1>3. st[c] = "NONE" /\ ~fin[c]
  BY <1>2 DEF Sound, PoolSound, QueueExact
<1>4. PICK q \in PeersType, x \in {"ONLOGINREQ", "GATEALLOCREQ"} :
        /\ acct' = [acct EXCEPT ![c] = n] /\ sess' = [sess EXCEPT ![c] = s]
        /\ Move(c, x, q) /\ UNCHANGED regionId
        /\ UNCHANGED gateId \/ \E g \in Gates : gateId' = [gateId EXCEPT ![c] = g]
        /\ \/ x = "ONLOGINREQ" /\ q = p
           \/ x = "GATEALLOCREQ" /\ \E g \in Gates : q = Owe(p, Answer("GateAlloc", s, n, g))
  <2>1. /\ acct' = [acct EXCEPT ![c] = n] /\ sess' = [sess EXCEPT ![c] = s] /\ UNCHANGED regionId
        /\ \/ UNCHANGED gateId /\ Move(c, "ONLOGINREQ", p)
           \/ \E g \in Gates : /\ gateId' = [gateId EXCEPT ![c] = g]
                               /\ \/ Move(c, "ONLOGINREQ", p)
                                  \/ Move(c, "GATEALLOCREQ", Owe(p, Answer("GateAlloc", s, n, g)))
    BY <1>0, <1>3, NoneAcceptsLogin DEF PlayerOnLoginReq, INVALID
  <2>2. CASE Move(c, "ONLOGINREQ", p)
    <3>1. p \in PeersType
      BY <1>1 DEF Elsewhere
    <3> QED
      BY <2>1, <2>2, <3>1
  <2>3. CASE ~Move(c, "ONLOGINREQ", p)
    <3>1. PICK g \in Gates : /\ gateId' = [gateId EXCEPT ![c] = g]
                             /\ Move(c, "GATEALLOCREQ", Owe(p, Answer("GateAlloc", s, n, g)))
      BY <2>1, <2>3
    <3>2. PICK o : o = Owe(p, Answer("GateAlloc", s, n, g))
      OBVIOUS
    <3>3. Move(c, "GATEALLOCREQ", o) /\ o \in PeersType
      BY <1>1, <3>1, <3>2, AnswerType, OweType DEF Elsewhere
    <3> QED
      BY <2>1, <3>1, <3>2, <3>3
  <2> QED
    BY <2>2, <2>3
<1>5. /\ st'[c] = x /\ acct'[c] = n /\ sess'[c] = s /\ peers' = q
      /\ \A d \in Ctx \ {c} : st'[d] = st[d] /\ acct'[d] = acct[d] /\ sess'[d] = sess[d] /\ gateId'[d] = gateId[d]
      /\ UNCHANGED <<fin, regionMap, regionId>>
  BY <1>4 DEF Move, Sound, TypeOK
<1>6. /\ bySid'[s] = c /\ \A r \in Sids \ {s} : bySid'[r] = bySid[r]
      /\ \A k \in Sids : loginMap'[k] = loginMap[k] \/ (k = s /\ loginMap'[k] = c)
  BY <1>1 DEF Insert, Sound, TypeOK
<1>7. /\ Elsewhere(s, q) /\ View(q, s).login /\ ~View(q, s).cache /\ View(q, s).gate = NULL
      /\ x = "ONLOGINREQ" => View(q, s).owed = {}
      /\ x = "GATEALLOCREQ" =>
           \E g \in Gates : View(q, s).owed = {Answer("GateAlloc", s, n, g)}
  <2>1. CASE q = p /\ x = "ONLOGINREQ"
    BY <1>1, <2>1
  <2>2. CASE x = "GATEALLOCREQ" /\ \E g \in Gates : q = Owe(p, Answer("GateAlloc", s, n, g))
    <3>1. PICK g \in Gates : q = Owe(p, Answer("GateAlloc", s, n, g))
      BY <2>2
    <3>2. PICK a : a = Answer("GateAlloc", s, n, g)
      OBVIOUS
    <3>3. a \in Answers /\ a.sid = s
      BY <3>2, AnswerType DEF Answer
    <3>4. p \in PeersType /\ RegionsKnow(p)
      BY <1>1 DEF Elsewhere
    <3>5. /\ q.owed = p.owed \cup {a} /\ q.loginWait = p.loginWait /\ q.cacheOn = p.cacheOn
          /\ q.gateOwner = p.gateOwner /\ q.regionOn = p.regionOn
          /\ q.gateIn = p.gateIn /\ q.untold = p.untold
      BY <3>1, <3>2, <3>4 DEF Owe, PeersType
    <3>6. q \in PeersType
      BY <3>1, <3>2, <3>3, <3>4, OweType
    <3>7. ASSUME NEW r \in Sids \ {s} PROVE View(q, r) = View(p, r)
      <4>1. { b \in q.owed : b.sid = r } = { b \in p.owed : b.sid = r }
        BY <3>3, <3>5, <3>7
      <4> QED
        BY <3>5, <4>1, Zenon DEF View
    <3>8. Elsewhere(s, q)
      BY <1>1, <3>4, <3>5, <3>6, <3>7 DEF Elsewhere, RegionsKnow, UntoldStays
    <3>9. /\ View(q, s).owed = View(p, s).owed \cup {a}
          /\ View(q, s).login <=> View(p, s).login
          /\ View(q, s).cache <=> View(p, s).cache
          /\ View(q, s).gate = View(p, s).gate
      BY <3>3, <3>5 DEF View
    <3> QED
      BY <1>1, <2>2, <3>2, <3>8, <3>9
  <2> QED
    BY <1>4, <2>1, <2>2
<1>8. \A r \in Sids : SessionFits(r)'
  <2> TAKE r \in Sids
  <2>1. CASE r = s
    <3> DEFINE u == View(q, s)
    <3>1. SessionFits(r)' <=> PlayerFits(u, s, n, x, fin[c], avatars[c])
      BY <1>5, <1>6, <2>1, ConstantAssumption DEF SessionFits
    <3> HIDE DEF u
    <3>2. Common(u, n)
      BY <1>4, <1>7 DEF Common, Answer, u
    <3>3. s \notin GateSids
      BY ConstantAssumption
    <3>4. x = "ONLOGINREQ" => AtRest(u, s, n, x, avatars[c])
      BY <1>7, <3>3 DEF AtRest, DeadEnds, Waiting, AskedGate, u
    <3>5. x = "GATEALLOCREQ" => AtRest(u, s, n, x, avatars[c])
      <4>1. x = "GATEALLOCREQ" => \E b \in u.owed : u.owed = {b} /\ b.kind = "GateAlloc" /\ ~b.void
        <5>1. ASSUME x = "GATEALLOCREQ" PROVE \E b \in u.owed : u.owed = {b} /\ b.kind = "GateAlloc" /\ ~b.void
          <6>1. PICK g \in Gates : u.owed = {Answer("GateAlloc", s, n, g)}
            BY <1>7, <5>1 DEF u
          <6>2. PICK b : b = Answer("GateAlloc", s, n, g)
            OBVIOUS
          <6>3. b.kind = "GateAlloc" /\ ~b.void
            BY <6>2 DEF Answer
          <6> QED
            BY <6>1, <6>2, <6>3
        <5> QED
          BY <5>1
      <4> QED
        BY <1>7, <3>3, <4>1 DEF AtRest, Waiting, AskedGate, Awaited, AwaitedAnswer, u
    <3> QED
      BY <1>3, <1>4, <3>1, <3>2, <3>4, <3>5 DEF PlayerFits
  <2>2. CASE r # s
    <3>1. /\ View(q, r) = View(peers, r) \/ (bySid[r] = NULL /\ Refused(View(q, r)))
          /\ SessionFits(r) /\ bySid'[r] = bySid[r]
      BY <1>6, <1>7, <2>2 DEF Elsewhere, Sound, Good
    <3>2. CASE bySid[r] = NULL
      BY <1>5, <3>1, <3>2 DEF SessionFits
    <3>3. CASE bySid[r] # NULL
      <4>1. bySid[r] \in Ctx \ {c}
        BY <1>2, <3>3, OwnSession DEF Sound
      <4>2. /\ st'[bySid[r]] = st[bySid[r]] /\ acct'[bySid[r]] = acct[bySid[r]]
            /\ fin' = fin /\ avatars' = avatars /\ peers' = q
        BY <1>5, <4>1
      <4> QED
        BY <3>1, <3>3, <4>2 DEF SessionFits
    <3> QED
      BY <3>2, <3>3
  <2> QED
    BY <2>1, <2>2
<1>9. \A d \in Ctx : Listed(d)'
  <2> TAKE d \in Ctx
  <2>0. Listed(d)
    BY DEF Sound, Good
  <2>1. CASE d = c
    <3>1. \A k \in DOMAIN gateMap' : gateMap'[k] # c
      BY <1>2, <2>0, <2>1 DEF Listed
    <3>2. \A k \in DOMAIN regionMap' : regionMap'[k] # c
      BY <1>2, <1>5, <2>0, <2>1 DEF Listed
    <3>3. ASSUME NEW k \in Sids, loginMap'[k] = c
          PROVE  \/ <<k, "LoginNtf">> \in peers'.untold
                 \/ Live(c)' /\ k = sess'[c] /\ st'[c] \in LoginMapStates
      <4>1. CASE k = s
        BY <1>2, <1>4, <1>5, <4>1 DEF LoginMapStates
      <4>2. CASE k # s
        <5>1. loginMap[k] = c /\ c # NULL
          BY <1>6, <3>3, <4>2, ConstantAssumption
        <5>2. <<k, "LoginNtf">> \in peers.untold
          BY <1>2, <2>0, <2>1, <5>1 DEF Listed
        <5> QED
          BY <1>5, <1>7, <5>1, <5>2 DEF Elsewhere, UntoldStays
      <4> QED
        BY <4>1, <4>2
    <3> QED
      BY <2>1, <3>1, <3>2, <3>3 DEF Listed
  <2>2. CASE d # c
    <3>1. /\ st'[d] = st[d] /\ sess'[d] = sess[d] /\ gateId'[d] = gateId[d] /\ (Live(d)' <=> Live(d))
          /\ UNCHANGED <<gateMap, regionMap, chan, regionId>>
      BY <1>2, <1>5, <2>2
    <3>2. \A k \in Sids : loginMap'[k] = d => loginMap[k] = d
      BY <1>6, <2>2
    <3>3. \A k \in DOMAIN regionMap : regionMap[k] = d => st[d] \in InRegion
      BY <2>0 DEF Listed
    <3> QED
      BY <1>5, <1>7, <2>0, <3>1, <3>2, <3>3, ListsKeepGeneral DEF Elsewhere
  <2> QED
    BY <2>1, <2>2
<1> QED
  BY <1>5, <1>7, <1>8, <1>9 DEF Good, Elsewhere

\* _OnCommandOnLoginReq.
LEMMA OnLoginReqKeepsGood ==
  ASSUME Sound, NEW n \in Accounts, NEW s \in LoginSids, NEW ok, NEW told, OnLoginReq(n, s, ok, told)
  PROVE  Good'
<1>0. PICK p : p = IF told THEN peers ELSE Untold(NowWaiting(peers, s), s, "OnLoginFailedAck")
  OBVIOUS
<1>4. /\ Unused(s)
      /\ \/ Ignore(p) /\ UNCHANGED <<idVars, ctxVars, mapVars, poolVars, loopVars>>
         \/ /\ byName[n] # NULL
            /\ UNCHANGED regionId
            /\ StateError(byName[n], p, ok)
            /\ UNCHANGED <<idVars, chan, avatars, mapVars, poolVars, loopVars>>
         \/ /\ \E c \in Ctx :
                 /\ Allocate(c)
                 /\ byName' = [byName EXCEPT ![n] = c]
                 /\ bySid' = Insert(bySid, s, c)
                 /\ loginMap' = Insert(loginMap, s, c)
                 /\ PlayerOnLoginReq(c, s, n, NowWaiting(peers, s), ok)
            /\ UNCHANGED <<chan, avatars, gateMap, status, loginUp, overrun>>
  BY <1>0 DEF OnLoginReq
<1>5. s \in Sids /\ bySid[s] = NULL /\ Elsewhere(s, p) /\ Refused(View(p, s))
  BY <1>0, <1>4, LoginRefused
<1>1. CASE Ignore(p) /\ UNCHANGED <<idVars, ctxVars, mapVars, poolVars, loopVars>>
  <2>1. /\ UNCHANGED <<st, fin, regionMap, chan, regionId, avatars, acct, bySid>> /\ Filed /\ peers' = p
    BY <1>1 DEF Ignore, Filed, ctxVars, idVars, mapVars, poolVars
  <2>2. OthersStay(NULL)
    BY <2>1 DEF OthersStay, Sound, TypeOK
  <2>3. SessionFits(s)'
    BY <1>5, <2>1 DEF SessionFits
  <2> QED
    BY <1>5, <2>1, <2>2, <2>3, OneStep
<1>2. CASE /\ byName[n] # NULL
           /\ UNCHANGED regionId
           /\ StateError(byName[n], p, ok)
           /\ UNCHANGED <<idVars, chan, avatars, mapVars, poolVars, loopVars>>
  <2>1. PICK c \in Ctx : c = byName[n]
    BY <1>2 DEF Sound, TypeOK, Ptr
  <2>2. PICK r \in Sids : r = sess[c] /\ Live(c) /\ bySid[r] = c /\ c # NULL
    BY <1>2, <2>1 DEF Sound, NamesAndSessions, TypeOK
  <2>5. r # s /\ View(p, r) = View(peers, r)
    BY <1>5, <2>2 DEF Elsewhere
  <2>3. Elsewhere(r, p) /\ Fades(View(peers, r), View(p, r))
    BY <1>5, <2>5 DEF Elsewhere, Fades
  <2>4. Filed /\ UNCHANGED ctxVars
    BY <1>2 DEF Filed, ctxVars, idVars, mapVars, poolVars
  <2> QED
    BY <1>2, <2>1, <2>2, <2>3, <2>4, ErrorKeepsGood
<1>3. CASE /\ \E c \in Ctx :
                 /\ Allocate(c)
                 /\ byName' = [byName EXCEPT ![n] = c]
                 /\ bySid' = Insert(bySid, s, c)
                 /\ loginMap' = Insert(loginMap, s, c)
                 /\ PlayerOnLoginReq(c, s, n, NowWaiting(peers, s), ok)
           /\ UNCHANGED <<chan, avatars, gateMap, status, loginUp, overrun>>
  BY <1>3, <1>4, NewPlayerKeepsGood
<1> QED
  BY <1>1, <1>2, <1>3, <1>4

-----------------------------------------------------------------------------
(* The handlers: the answer of a gate *)

\* The peers when a gate's answer arrives, with session g or none.
GateAnswered(a, g) ==
  IF g = NoSid \/ a.void THEN Settle(peers, a) ELSE [Settle(peers, a) EXCEPT !.gateOwner[g] = a.acct]

\* What they have of the login session of the request,
LEMMA GateSettle ==
  ASSUME Sound, NEW a \in peers.owed, a.kind = "GateAlloc", NEW g,
         g = NoSid \/ (g \in GateSids /\ Unused(g)), NEW p, p = GateAnswered(a, g)
  PROVE  /\ a.sid \in LoginSids /\ a.sid \in Sids /\ a.sid \notin GateSids /\ a.acct \in Accounts
         /\ Elsewhere(a.sid, p)
         /\ View(p, a.sid).owed = View(peers, a.sid).owed \ {a}
         /\ View(p, a.sid).login <=> View(peers, a.sid).login
         /\ View(p, a.sid).cache <=> View(peers, a.sid).cache
         /\ View(p, a.sid).gate = NULL /\ View(p, a.sid).lost = View(peers, a.sid).lost
         /\ Fades(View(peers, a.sid), View(p, a.sid))
<1> DEFINE q == Settle(peers, a)
<1>1. /\ a.sid \in LoginSids /\ a.sid \in Sids /\ a.sid \notin GateSids /\ a.acct \in Accounts
      /\ peers \in PeersType /\ RegionsKnow(peers)
  <2>1. a \in Answers /\ peers \in PeersType /\ RegionsKnow(peers)
    BY DEF Sound, TypeOK, PeersType, Good
  <2> QED
    BY <2>1, ConstantAssumption DEF Answers, CacheKinds, RegionKinds, Sids
<1>2. q \in PeersType
  BY <1>1, SettleType
<1>3. /\ q.owed = peers.owed \ {a} /\ q.loginWait = peers.loginWait /\ q.cacheOn = peers.cacheOn
      /\ q.gateOwner = peers.gateOwner /\ q.regionOn = peers.regionOn
      /\ q.gateIn = peers.gateIn /\ q.untold = peers.untold
  BY <1>1 DEF Settle, PeersType
<1> HIDE DEF q
<1>4. /\ p \in PeersType /\ p.owed = q.owed /\ p.loginWait = q.loginWait /\ p.cacheOn = q.cacheOn
      /\ p.regionOn = q.regionOn /\ p.gateIn = q.gateIn /\ p.untold = q.untold
      /\ \A r \in GateSids : r = g \/ p.gateOwner[r] = peers.gateOwner[r]
  <2>1. CASE g = NoSid \/ a.void
    BY <1>2, <1>3, <2>1 DEF GateAnswered, q
  <2>2. CASE ~(g = NoSid \/ a.void)
    <3>1. p = [q EXCEPT !.gateOwner[g] = a.acct] /\ g \in GateSids
      BY <2>2 DEF GateAnswered, q
    <3> QED
      BY <1>1, <1>2, <1>3, <3>1 DEF PeersType
  <2> QED
    BY <2>1, <2>2
<1>5. RegionsKnow(p) /\ UntoldStays(p)
  BY <1>1, <1>3, <1>4 DEF RegionsKnow, UntoldStays
<1>6. ASSUME NEW r \in Sids \ {a.sid} PROVE View(p, r) = View(peers, r) \/ (bySid[r] = NULL /\ Refused(View(p, r)))
  <2>1. CASE r = g /\ g \in GateSids
    <3>1. bySid[r] = NULL /\ r \notin p.loginWait
      BY <1>3, <1>4, <2>1, ConstantAssumption DEF Unused, Sids
    <3> QED
      BY <3>1 DEF View, Refused
  <2>2. CASE ~(r = g /\ g \in GateSids)
    <3>1. { b \in p.owed : b.sid = r } = { b \in peers.owed : b.sid = r }
      BY <1>3, <1>4, <1>6
    <3>2. /\ (r \in p.loginWait) = (r \in peers.loginWait) /\ (r \in p.cacheOn) = (r \in peers.cacheOn)
          /\ (r \in p.gateIn) = (r \in peers.gateIn) /\ p.untold = peers.untold
      BY <1>3, <1>4
    <3>3. (IF r \in GateSids THEN p.gateOwner[r] ELSE NULL) = (IF r \in GateSids THEN peers.gateOwner[r] ELSE NULL)
      BY <1>4, <2>2
    <3>4. View(p, r) = View(peers, r)
      BY <3>1, <3>2, <3>3, Zenon DEF View
    <3> QED
      BY <3>4
  <2> QED
    BY <2>1, <2>2
<1>7. Elsewhere(a.sid, p)
  BY <1>4, <1>5, <1>6 DEF Elsewhere
<1>8. /\ View(p, a.sid).owed = View(peers, a.sid).owed \ {a}
      /\ View(p, a.sid).login <=> View(peers, a.sid).login
      /\ View(p, a.sid).cache <=> View(peers, a.sid).cache
      /\ View(p, a.sid).gate = NULL /\ View(p, a.sid).lost = View(peers, a.sid).lost
  BY <1>1, <1>3, <1>4 DEF View
<1>9. Fades(View(peers, a.sid), View(p, a.sid))
  BY <1>8 DEF Fades
<1> QED
  BY <1>1, <1>7, <1>8, <1>9

\* and of the session the gate gives.
LEMMA GateGives ==
  ASSUME Sound, NEW a \in peers.owed, NEW g \in GateSids, Unused(g), NEW p, p = GateAnswered(a, g)
  PROVE  /\ View(p, g).owed = {} /\ ~View(p, g).login /\ ~View(p, g).cache
         /\ View(p, g).gate = IF a.void THEN NULL ELSE a.acct
<1> DEFINE q == Settle(peers, a)
<1>1. peers \in PeersType /\ g # NoSid
  BY ConstantAssumption DEF Sound, TypeOK
<1>2. q \in PeersType
  BY <1>1, SettleType
<1>3. /\ q.owed = peers.owed \ {a} /\ q.loginWait = peers.loginWait /\ q.cacheOn = peers.cacheOn
      /\ q.gateOwner = peers.gateOwner
  BY <1>1 DEF Settle, PeersType
<1>4. p = IF a.void THEN q ELSE [q EXCEPT !.gateOwner[g] = a.acct]
  BY <1>1 DEF GateAnswered
<1> HIDE DEF q
<1>5. /\ p.owed = q.owed /\ p.loginWait = q.loginWait /\ p.cacheOn = q.cacheOn
      /\ p.gateOwner[g] = IF a.void THEN peers.gateOwner[g] ELSE a.acct
  BY <1>2, <1>3, <1>4 DEF PeersType
<1>6. /\ peers.gateOwner[g] = NULL /\ g \notin peers.loginWait /\ g \notin peers.cacheOn
      /\ \A b \in peers.owed : b.sid # g
  BY DEF Unused
<1> QED
  BY <1>3, <1>5, <1>6 DEF View

\* The login server is told.
LEMMA LoginAnsweredView ==
  ASSUME NEW p \in PeersType, NEW s, NEW q, q = LoginAnswered(p, s)
  PROVE  /\ q.regionOn = p.regionOn /\ q.untold = p.untold
         /\ \A r : /\ View(q, r).owed = View(p, r).owed
                   /\ View(q, r).login <=> View(p, r).login /\ r # s
                   /\ View(q, r).cache <=> View(p, r).cache
                   /\ View(q, r).gate = View(p, r).gate
                   /\ View(q, r).lost = View(p, r).lost
         /\ \A r : r # s => View(q, r) = View(p, r)
<1>1. /\ q.owed = p.owed /\ q.loginWait = p.loginWait \ {s} /\ q.cacheOn = p.cacheOn
      /\ q.gateOwner = p.gateOwner /\ q.regionOn = p.regionOn
      /\ q.gateIn = p.gateIn /\ q.untold = p.untold
  BY DEF LoginAnswered, PeersType
<1>2. ASSUME NEW r, r # s PROVE View(q, r) = View(p, r)
  <2>1. (r \in q.loginWait) = (r \in p.loginWait)
    BY <1>1, <1>2
  <2> QED
    BY <1>1, <2>1, Zenon DEF View
<1> QED
  BY <1>1, <1>2 DEF View

\* The player goes over to session g, and what could not be said about s with it.
LEMMA NowUnderView ==
  ASSUME NEW p \in PeersType, NEW s, NEW g, g = NoSid \/ g \in GateSids, NEW q, q = NowUnder(p, s, g)
  PROVE  /\ q \in PeersType /\ q.regionOn = p.regionOn
         /\ g = NoSid => q = p
         /\ \A r : /\ View(q, r).owed = View(p, r).owed
                   /\ View(q, r).login <=> View(p, r).login
                   /\ View(q, r).cache <=> View(p, r).cache
                   /\ View(q, r).gate = View(p, r).gate
         /\ \A r \in Sids : r # g => View(q, r) = View(p, r)
         /\ g # NoSid => View(q, g).lost = View(p, s).lost
         /\ \A r \in Sids \ {g} : \A m : <<r, m>> \in q.untold <=> <<r, m>> \in p.untold
<1>1. CASE g = NoSid
  BY <1>1, NowUnderType DEF NowUnder
<1>2. CASE g # NoSid
  <2> DEFINE U == { u \in Sids \X Notices : IF u[1] = g THEN <<s, u[2]>> \in p.untold ELSE u \in p.untold }
  <2>0. NowUnder(p, s, g) = [p EXCEPT !.untold = U]
    BY <1>2, Zenon DEF NowUnder
  <2>1. q = [p EXCEPT !.untold = U] /\ q \in PeersType /\ g \in Sids
    <3>1. q \in PeersType /\ g \in Sids
      BY <1>2, NowUnderType DEF Sids
    <3> QED
      BY <2>0, <3>1
  <2>2. \A r \in Sids \ {g} : \A m : <<r, m>> \in U <=> <<r, m>> \in p.untold
    BY DEF PeersType
  <2>3. \A m \in Notices : <<g, m>> \in U <=> <<s, m>> \in p.untold
    BY <2>1
  <2> HIDE DEF U
  <2>4. /\ q.owed = p.owed /\ q.loginWait = p.loginWait /\ q.cacheOn = p.cacheOn
        /\ q.gateOwner = p.gateOwner /\ q.regionOn = p.regionOn
        /\ q.gateIn = p.gateIn /\ q.untold = U
    BY <2>1 DEF PeersType
  <2>5. ASSUME NEW r \in Sids, r # g PROVE View(q, r) = View(p, r)
    <3>1. { m \in Notices : <<r, m>> \in q.untold } = { m \in Notices : <<r, m>> \in p.untold }
      BY <2>2, <2>4, <2>5
    <3> QED
      BY <2>4, <3>1, Zenon DEF View
  <2>6. View(q, g).lost = View(p, s).lost
    BY <2>3, <2>4 DEF View
  <2>7. \A r : /\ View(q, r).owed = View(p, r).owed
               /\ View(q, r).login <=> View(p, r).login
               /\ View(q, r).cache <=> View(p, r).cache
               /\ View(q, r).gate = View(p, r).gate
    BY <2>4 DEF View
  <2> QED
    BY <1>2, <2>1, <2>2, <2>4, <2>5, <2>6, <2>7
<1> QED
  BY <1>1, <1>2

\* What the player that awaits the answer is like.
LEMMA GateAnswerAwaited ==
  ASSUME Sound, NEW a \in peers.owed, a.kind = "GateAlloc", NEW c \in Ctx, c = byName[a.acct],
         a.acct \in Accounts, a.sid \in Sids, sess[c] = a.sid
  PROVE  /\ bySid[a.sid] = c /\ Live(c) /\ acct[c] = a.acct
         /\ Common(View(peers, a.sid), acct[c])
         /\ fin[c] => /\ Leaving(View(peers, a.sid), st[c])
                      /\ a.void \/ "GateReleaseReq" \in View(peers, a.sid).lost
         /\ ~fin[c] => /\ AtRest(View(peers, a.sid), a.sid, acct[c], st[c], avatars[c])
                       /\ View(peers, a.sid).owed = {a} /\ ~a.void /\ st[c] = "GATEALLOCREQ"
                       /\ ~View(peers, a.sid).cache
<1> DEFINE w == View(peers, a.sid)
<1>1. bySid[a.sid] = c /\ Live(c) /\ acct[c] = a.acct /\ c # NULL
  BY ConstantAssumption DEF Sound, NamesAndSessions
<1>2. PlayerFits(w, a.sid, acct[c], st[c], fin[c], avatars[c])
  BY <1>1 DEF Sound, Good, SessionFits
<1>3. a \in w.owed
  BY DEF View
<1> HIDE DEF w
<1>4. fin[c] => Leaving(w, st[c]) /\ (a.void \/ "GateReleaseReq" \in w.lost)
  BY <1>2, <1>3 DEF PlayerFits, Leaving
<1>5. ASSUME ~fin[c]
      PROVE  AtRest(w, a.sid, acct[c], st[c], avatars[c]) /\ w.owed = {a} /\ ~a.void /\ st[c] = "GATEALLOCREQ"
             /\ ~w.cache
  <2>1. AtRest(w, a.sid, acct[c], st[c], avatars[c])
    BY <1>2, <1>5 DEF PlayerFits
  <2>2. w.owed = {a} /\ ~a.void /\ st[c] \in Waiting /\ Awaited(st[c]) = "GateAlloc"
    BY <1>3, <2>1 DEF AtRest
  <2>3. st[c] = "GATEALLOCREQ"
    BY <2>2 DEF Waiting, Awaited, AwaitedAnswer
  <2> QED
    BY <2>1, <2>2, <2>3 DEF AtRest, CacheLogoutStates, RegionReleaseStates, RegionLeaveStates
<1> QED
  BY <1>1, <1>2, <1>4, <1>5 DEF PlayerFits, w

\* The player is told of its gate session, or of none: it moves to its new
\* session, and its login session is nobody's.
LEMMA GateGrantedKeepsGood ==
  ASSUME Sound, NEW a \in peers.owed, a.kind = "GateAlloc", NEW c \in Ctx, c = byName[a.acct],
         a.acct \in Accounts, NEW s \in LoginSids, s = a.sid, s \in Sids, sess[c] = s,
         NEW g, g = NoSid \/ (g \in GateSids /\ Unused(g)), NEW srv, g # NoSid => srv = ServerOf[g],
         NEW p, p = GateAnswered(a, g), st[c] = "GATEALLOCREQ",
         gateId' = [gateId EXCEPT ![c] = srv], Move(c, "GATEALLOCNTF", NowUnder(LoginAnswered(p, s), s, g)),
         LoginSession2GateSession(c, s, g),
         UNCHANGED <<acct, chan, avatars, regionId, created, freeCnt>>
  PROVE  Good'
<1> DEFINE n == acct[c]
           new == IF g = NoSid THEN s ELSE g
<1>0. PICK o, q : o = LoginAnswered(p, s) /\ q = NowUnder(o, s, g)
  OBVIOUS
<1>1. /\ s \notin GateSids /\ Elsewhere(s, p)
      /\ View(p, s).owed = View(peers, s).owed \ {a}
      /\ View(p, s).login <=> View(peers, s).login
      /\ View(p, s).cache <=> View(peers, s).cache
      /\ View(p, s).gate = NULL /\ View(p, s).lost = View(peers, s).lost
      /\ Fades(View(peers, s), View(p, s))
  BY GateSettle
<1>2. /\ bySid[s] = c /\ Live(c) /\ n = a.acct
      /\ Common(View(peers, s), n)
      /\ fin[c] => Leaving(View(peers, s), st[c]) /\ (a.void \/ "GateReleaseReq" \in View(peers, s).lost)
      /\ ~fin[c] => View(peers, s).owed = {a} /\ ~a.void /\ ~View(peers, s).cache
  BY GateAnswerAwaited
<1>12. o \in PeersType
  BY <1>0, <1>1, LoginAnsweredType DEF Elsewhere
<1>13. /\ o.regionOn = p.regionOn /\ o.untold = p.untold
       /\ \A r : /\ View(o, r).owed = View(p, r).owed
                 /\ View(o, r).login <=> View(p, r).login /\ r # s
                 /\ View(o, r).cache <=> View(p, r).cache
                 /\ View(o, r).gate = View(p, r).gate
                 /\ View(o, r).lost = View(p, r).lost
       /\ \A r : r # s => View(o, r) = View(p, r)
  BY <1>0, <1>1, LoginAnsweredView DEF Elsewhere
<1>14. /\ q \in PeersType /\ q.regionOn = o.regionOn
       /\ g = NoSid => q = o
       /\ \A r : /\ View(q, r).owed = View(o, r).owed
                 /\ View(q, r).login <=> View(o, r).login
                 /\ View(q, r).cache <=> View(o, r).cache
                 /\ View(q, r).gate = View(o, r).gate
       /\ \A r \in Sids : r # g => View(q, r) = View(o, r)
       /\ g # NoSid => View(q, g).lost = View(o, s).lost
       /\ \A r \in Sids \ {g} : \A m : <<r, m>> \in q.untold <=> <<r, m>> \in o.untold
  BY <1>0, <1>12, NowUnderView
<1>3. /\ q.regionOn = p.regionOn
      /\ \A r : /\ View(q, r).owed = View(p, r).owed
                /\ View(q, r).login <=> View(p, r).login /\ r # s
                /\ View(q, r).cache <=> View(p, r).cache
                /\ View(q, r).gate = View(p, r).gate
      /\ View(q, new).lost = View(peers, s).lost
      /\ \A r \in Sids : r # s /\ r # new => View(q, r) = View(p, r)
  BY <1>1, <1>13, <1>14
<1>15. UntoldStays(q)
  <2>1. g # NoSid => loginMap[g] = NULL
    BY DEF Unused
  <2>2. UntoldStays(p)
    BY <1>1 DEF Elsewhere
  <2> QED
    BY <1>13, <1>14, <2>1, <2>2 DEF UntoldStays
<1>4. /\ st'[c] = "GATEALLOCNTF" /\ \A d \in Ctx \ {c} : st'[d] = st[d]
      /\ peers' = q /\ UNCHANGED <<fin, regionMap>>
      /\ gateId'[c] = srv /\ \A d \in Ctx \ {c} : gateId'[d] = gateId[d]
  BY <1>0 DEF Move, Sound, TypeOK
<1>5. g # NoSid => g \in Sids /\ g \in GateSids /\ bySid[g] = NULL /\ g # s /\ gateMap[<<srv, g>>] = NULL
  BY <1>1 DEF Sids, Unused
<1>6. /\ sess'[c] = new /\ \A d \in Ctx \ {c} : sess'[d] = sess[d]
      /\ bySid'[new] = c /\ (new # s => bySid'[s] = NULL)
      /\ \A r \in Sids \ {s, new} : bySid'[r] = bySid[r]
  <2>1. CASE g = NoSid
    BY <1>2, <2>1 DEF LoginSession2GateSession
  <2>2. CASE g # NoSid
    <3>1. sess' = [sess EXCEPT ![c] = g] /\ bySid' = Insert([bySid EXCEPT ![s] = NULL], g, c)
      BY <1>2, <2>2, ConstantAssumption DEF LoginSession2GateSession
    <3>2. bySid' = [bySid EXCEPT ![s] = NULL, ![g] = c]
      BY <1>5, <2>2, <3>1 DEF Insert, Sound, TypeOK
    <3> QED
      BY <1>5, <2>2, <3>1, <3>2 DEF Sound, TypeOK
  <2> QED
    BY <2>1, <2>2
<1>7. /\ loginMap' = [loginMap EXCEPT ![s] = NULL]
      /\ DOMAIN gateMap' = DOMAIN gateMap
      /\ \A k \in DOMAIN gateMap :
           gateMap'[k] = gateMap[k] \/ (g # NoSid /\ k = <<srv, g>> /\ gateMap'[k] = c)
  <2>1. loginMap' = [loginMap EXCEPT ![s] = NULL]
    BY DEF LoginSession2GateSession
  <2>2. CASE g = NoSid
    BY <2>1, <2>2 DEF LoginSession2GateSession
  <2>3. CASE g # NoSid
    <3>1. gateMap' = Insert(gateMap, <<srv, g>>, c)
      BY <2>3 DEF LoginSession2GateSession
    <3> QED
      BY <2>1, <2>3, <3>1 DEF Insert, Sound, TypeOK
  <2> QED
    BY <2>2, <2>3
<1> HIDE DEF new
<1>8. PlayerFits(View(q, new), new, n, "GATEALLOCNTF", fin[c], avatars[c])
  <2> DEFINE u == View(q, new)
  <2>1. /\ ~u.login
        /\ fin[c] => Leaving(u, "GATEALLOCNTF")
        /\ ~fin[c] => u.owed = {} /\ ~u.cache /\ (new \in GateSids => u.gate = n)
        /\ Common(u, n)
    <3>1. CASE g = NoSid
      <4>1. new = s
        BY <3>1 DEF new
      <4>2. /\ ~u.login /\ u.gate = NULL /\ u.owed = View(peers, s).owed \ {a}
            /\ (u.cache <=> View(peers, s).cache) /\ u.lost = View(peers, s).lost
        BY <1>1, <1>3, <4>1
      <4> HIDE DEF u
      <4>3. fin[c] => Leaving(u, "GATEALLOCNTF")
        BY <1>2, <4>2 DEF Leaving, Apart, Refused
      <4>4. Common(u, n)
        BY <1>2, <4>2 DEF Common
      <4> QED
        BY <1>1, <1>2, <4>1, <4>2, <4>3, <4>4
    <3>2. CASE g # NoSid
      <4>1. new = g /\ g \in GateSids /\ Unused(g) /\ g # s
        BY <1>5, <3>2 DEF new
      <4>2. /\ View(p, g).owed = {} /\ ~View(p, g).login /\ ~View(p, g).cache
            /\ View(p, g).gate = IF a.void THEN NULL ELSE a.acct
        BY <4>1, GateGives
      <4>3. /\ u.owed = {} /\ ~u.login /\ ~u.cache /\ u.gate = IF a.void THEN NULL ELSE a.acct
            /\ u.lost = View(peers, s).lost
        BY <1>3, <4>1, <4>2
      <4> HIDE DEF u
      <4> QED
        BY <1>2, <4>3 DEF Common, Leaving, Refused
    <3> QED
      BY <3>1, <3>2
  <2> HIDE DEF u
  <2>3. ~fin[c] => AtRest(u, new, n, "GATEALLOCNTF", avatars[c])
    BY <2>1 DEF AtRest, ClientsTurn, Waiting, AskedGate
  <2> QED
    BY <2>1, <2>3 DEF PlayerFits, u
<1>9. \A r \in Sids : SessionFits(r)'
  <2> TAKE r \in Sids
  <2>1. CASE r = new
    <3>1. SessionFits(r)' <=> PlayerFits(View(q, new), new, n, "GATEALLOCNTF", fin[c], avatars[c])
      BY <1>4, <1>6, <2>1, ConstantAssumption DEF SessionFits
    <3> QED
      BY <1>8, <3>1
  <2>2. CASE r # new /\ r = s
    BY <1>3, <1>4, <1>6, <2>2 DEF SessionFits, Refused
  <2>3. CASE r # new /\ r # s
    <3>1. /\ View(q, r) = View(peers, r) \/ (bySid[r] = NULL /\ Refused(View(q, r)))
          /\ SessionFits(r) /\ bySid'[r] = bySid[r]
      BY <1>1, <1>3, <1>6, <2>3 DEF Elsewhere, Sound, Good
    <3>2. CASE bySid[r] = NULL
      BY <1>4, <3>1, <3>2 DEF SessionFits
    <3>3. CASE bySid[r] # NULL
      <4>1. bySid[r] \in Ctx \ {c}
        BY <1>2, <2>3, <3>3, OwnSession DEF Sound
      <4>2. /\ st'[bySid[r]] = st[bySid[r]] /\ fin' = fin /\ peers' = q
        BY <1>4, <4>1
      <4> QED
        BY <3>1, <3>3, <4>2 DEF SessionFits
    <3> QED
      BY <3>2, <3>3
  <2> QED
    BY <2>1, <2>2, <2>3
<1>10. \A d \in Ctx : Listed(d)'
  <2> TAKE d \in Ctx
  <2>0. Listed(d) /\ (Live(d)' <=> Live(d))
    BY DEF Sound, Good, Live
  <2>1. CASE d = c
    <3>1. st[c] \notin GateMapStates /\ st[c] \notin InRegion
      BY DEF GateMapStates, LoginMapStates, InRegion
    <3>2. ASSUME NEW k \in DOMAIN gateMap', gateMap'[k] = c
          PROVE  Live(c)' /\ k = <<gateId'[c], sess'[c]>> /\ st'[c] \in GateMapStates
      <4>1. gateMap[k] # c
        BY <1>7, <2>0, <2>1, <3>1, <3>2 DEF Listed
      <4>2. g # NoSid /\ k = <<srv, g>>
        BY <1>7, <3>2, <4>1
      <4> QED
        BY <1>2, <1>4, <1>6, <2>0, <2>1, <4>2, GateSideStates DEF new
    <3>3. \A k \in DOMAIN regionMap' : regionMap'[k] # c
      BY <1>4, <2>0, <2>1, <3>1 DEF Listed
    <3>4. ASSUME NEW k \in Sids, loginMap'[k] = c PROVE <<k, "LoginNtf">> \in peers'.untold
      <4>1. loginMap[k] = c /\ k # s /\ c # NULL
        BY <1>7, <3>4, ConstantAssumption DEF Sound, TypeOK
      <4>2. <<k, "LoginNtf">> \in peers.untold
        BY <2>0, <2>1, <4>1 DEF Listed
      <4> QED
        BY <1>4, <1>15, <4>1, <4>2 DEF UntoldStays
    <3> QED
      BY <2>1, <3>2, <3>3, <3>4 DEF Listed
  <2>2. CASE d # c
    <3>1. /\ st'[d] = st[d] /\ sess'[d] = sess[d] /\ gateId'[d] = gateId[d]
          /\ UNCHANGED <<regionMap, chan, regionId>>
      BY <1>4, <1>6, <2>2
    <3>2. /\ \A k \in Sids : loginMap'[k] = d => loginMap[k] = d
          /\ \A k \in DOMAIN gateMap : gateMap'[k] = d => gateMap[k] = d
      BY <1>7, <2>2, ConstantAssumption DEF Sound, TypeOK
    <3>3. \A k \in DOMAIN regionMap : regionMap[k] = d => st[d] \in InRegion
      BY <2>0 DEF Listed
    <3> QED
      BY <1>4, <1>7, <1>15, <2>0, <3>1, <3>2, <3>3, ListsKeepGeneral
  <2> QED
    BY <2>1, <2>2
<1>11. RegionsKnow(peers)'
  BY <1>1, <1>3, <1>4 DEF Elsewhere, RegionsKnow
<1> QED
  BY <1>9, <1>10, <1>11 DEF Good

\* The gate's session, but the login server cannot be told.
LEMMA GateUntoldKeepsGood ==
  ASSUME Sound, NEW a \in peers.owed, a.kind = "GateAlloc", NEW c \in Ctx, c = byName[a.acct],
         a.acct \in Accounts, NEW s \in LoginSids, s = a.sid, s \in Sids, sess[c] = s,
         NEW g, g = NoSid \/ (g \in GateSids /\ Unused(g)), NEW srv,
         NEW p, p = GateAnswered(a, g), st[c] = "GATEALLOCREQ",
         gateId' = [gateId EXCEPT ![c] = srv],
         ShutdownPlayer(c, "GATEALLOCACK", "GATEALLOCACK", Untold(p, s, "LoginNtf"), TRUE),
         UNCHANGED <<acct, bySid, gateMap, loginMap, sess, chan, avatars, regionId, created, freeCnt>>
  PROVE  Good'
<1> DEFINE x == "GATEALLOCACK"
           sv == [st EXCEPT ![c] = x]
           n == acct[c]
           w == View(peers, s)
           q == Untold(p, s, "LoginNtf")
           u == View(q, s)
<1>8. s \notin GateSids /\ Elsewhere(s, p) /\ View(p, s).owed = w.owed \ {a} /\ View(p, s).gate = NULL
      /\ Fades(w, View(p, s))
  BY GateSettle
<1>9. /\ q.owed = p.owed /\ q.loginWait = p.loginWait /\ q.cacheOn = p.cacheOn
      /\ q.gateOwner = p.gateOwner /\ q.regionOn = p.regionOn
      /\ q.gateIn = p.gateIn /\ q.untold = p.untold \cup {<<s, "LoginNtf">>}
  BY <1>8 DEF Elsewhere, PeersType, Untold
<1>10. q \in PeersType
  BY <1>8, UntoldType DEF Elsewhere, Notices
<1> HIDE DEF q
<1>11. ASSUME NEW r \in Sids \ {s} PROVE View(q, r) = View(p, r)
  <2>1. { m \in Notices : <<r, m>> \in q.untold } = { m \in Notices : <<r, m>> \in p.untold }
    BY <1>9, <1>11
  <2> QED
    BY <1>9, <2>1, Zenon DEF View
<1>12. Elsewhere(s, q)
  BY <1>8, <1>9, <1>10, <1>11 DEF Elsewhere, RegionsKnow, UntoldStays
<1>13. u.owed = View(p, s).owed /\ u.gate = View(p, s).gate /\ (u.login <=> View(p, s).login)
       /\ (u.cache <=> View(p, s).cache) /\ View(p, s).lost \subseteq u.lost
  BY <1>9 DEF View
<1>1. s \notin GateSids /\ u.owed = w.owed \ {a} /\ u.gate = NULL /\ Fades(w, u)
  BY <1>8, <1>13 DEF Fades
<1>2. /\ bySid[s] = c /\ Live(c) /\ n = a.acct
      /\ Common(w, n)
      /\ fin[c] => Leaving(w, st[c])
      /\ ~fin[c] => w.owed = {a} /\ ~w.cache
  BY GateAnswerAwaited
<1>3. ShutdownSet({c}, sv, sv, q, {c}, {})
  BY DEF ShutdownPlayer, q
<1>4. ReadyFor(u, c, x, x)
  <2> HIDE DEF w, u
  <2>1. Common(u, n)
    BY <1>1, <1>2 DEF Common, Fades
  <2>2. fin[c] => Leaving(u, x)
    BY <1>1, <1>2 DEF Leaving, Fades, Apart, Refused
  <2>3. ~fin[c] => Fit(u, x, x)
    BY <1>1, <1>2 DEF Fit, Fades, FailedAckStates, RegionLeaveStates
  <2> QED
    BY <2>1, <2>2, <2>3 DEF ReadyFor
<1>5. OthersStay(c)
  BY DEF OthersStay, Sound, TypeOK
<1>6. /\ \A r \in Sids : SessionFits(r)'
      /\ RegionsKnow(peers)' /\ UntoldStays(peers') /\ q.untold \subseteq peers'.untold
  BY <1>1, <1>2, <1>3, <1>4, <1>5, <1>12, OneShutdownFits
<1>7. \A d \in Ctx : Listed(d)'
  <2> TAKE d \in Ctx
  <2>0. Listed(d)
    BY DEF Sound, Good
  <2>1. CASE d = c
    <3>1. st[c] \notin GateMapStates /\ st[c] \notin InRegion
      BY DEF GateMapStates, LoginMapStates, InRegion
    <3>2. \A k \in DOMAIN gateMap' : gateMap'[k] # c
      BY <2>0, <2>1, <3>1 DEF Listed
    <3>3. PICK keys : regionMap' = [k \in DOMAIN regionMap |-> IF k \in keys THEN NULL ELSE regionMap[k]]
      BY <1>3 DEF ShutdownSet, DeleteFromRegion
    <3>4. \A k \in DOMAIN regionMap' : regionMap'[k] # c
      BY <2>0, <2>1, <3>1, <3>3, ConstantAssumption DEF Listed
    <3>5. ASSUME NEW k \in Sids, loginMap'[k] = c PROVE <<k, "LoginNtf">> \in peers'.untold
      <4>1. loginMap[k] = c /\ c # NULL
        BY <3>5, ConstantAssumption
      <4>2. k = s \/ <<k, "LoginNtf">> \in peers.untold
        BY <2>0, <2>1, <4>1 DEF Listed
      <4> QED
        BY <1>6, <1>9, <4>1, <4>2 DEF UntoldStays
    <3> QED
      BY <2>1, <3>2, <3>4, <3>5 DEF Listed
  <2>2. CASE d # c
    <3>1. Advance(d, st[d], st[d], {})
      BY OthersAdvance
    <3>2. sv[d] = st[d] /\ gateId'[d] = gateId[d]
      BY <2>2 DEF Sound, TypeOK
    <3> HIDE DEF sv
    <3> QED
      BY <1>3, <1>6, <2>0, <3>1, <3>2, ShutdownLists
  <2> QED
    BY <2>1, <2>2
<1> QED
  BY <1>6, <1>7 DEF Good

\* _OnCommandGateAllocAck.
LEMMA GateAllocAckKeepsGood ==
  ASSUME Sound, NEW a \in peers.owed, a.kind = "GateAlloc", NEW x \in GateAnswers(a),
         NEW ok \in SendResults, GateAllocAck(a, x[1], x[2], ok)
  PROVE  Good'
<1> DEFINE srv == x[1]
           g == x[2]
<1>1. /\ g = NoSid \/ (g \in GateSids /\ Unused(g))
      /\ g # NoSid => srv = ServerOf[g]
  BY DEF GateAnswers
<1>2. PICK p : p = GateAnswered(a, g)
  OBVIOUS
<1>3. PICK s : s = a.sid
  OBVIOUS
<1>4. /\ s \in LoginSids /\ s \in Sids /\ s \notin GateSids /\ a.acct \in Accounts
      /\ Elsewhere(s, p) /\ Fades(View(peers, s), View(p, s))
      /\ View(p, s).owed = View(peers, s).owed \ {a}
      /\ View(p, s).login <=> View(peers, s).login
      /\ View(p, s).cache <=> View(peers, s).cache
      /\ View(p, s).gate = NULL
  BY <1>1, <1>2, <1>3, GateSettle
<1>5. PICK c \in Ptr : c = byName[a.acct]
  BY <1>4 DEF Sound, TypeOK
<1>6. /\ UNCHANGED <<acct, regionId, chan, avatars, created, freeCnt>>
      /\ \/ /\ c # NULL => sess[c] # s
            /\ Ignore(p)
            /\ UNCHANGED <<mapVars, sess, gateId>>
         \/ c # NULL /\ sess[c] = s /\ PlayerGateAllocAck(c, s, srv, g, p, ok)
  BY <1>2, <1>3, <1>5 DEF GateAllocAck, GateAnswered, SameLogin, poolVars
<1> HIDE DEF srv, g
<1>7. UNCHANGED <<mapVars, sess, gateId>> => Filed
  BY <1>6 DEF Filed, mapVars
<1>8. UNCHANGED ctxVars
  BY <1>6 DEF ctxVars
<1>9. CASE /\ c # NULL => sess[c] # s
           /\ Ignore(p)
           /\ UNCHANGED <<mapVars, sess, gateId>>
  <2>1. bySid[s] = NULL
    <3>1. SUFFICES ASSUME bySid[s] # NULL PROVE FALSE
      OBVIOUS
    <3>2. bySid[s] \in Ctx /\ Live(bySid[s]) /\ sess[bySid[s]] = s
      BY <1>4, <3>1, OwnSession DEF Sound
    <3>3. Common(View(peers, s), acct[bySid[s]])
      BY <1>4, <3>1 DEF Sound, Good, SessionFits, PlayerFits
    <3>4. acct[bySid[s]] = a.acct
      BY <1>3, <3>3 DEF Common, View
    <3>5. byName[a.acct] = bySid[s]
      BY <3>2, <3>4 DEF Sound, NamesAndSessions
    <3> QED
      BY <1>5, <1>9, <3>1, <3>2, <3>5
  <2>2. NULL \in Ptr
    BY DEF Ptr
  <2> QED
    BY <1>4, <1>7, <1>8, <1>9, <2>1, <2>2, IgnoreKeepsGood
<1>10. CASE c # NULL /\ sess[c] = s /\ PlayerGateAllocAck(c, s, srv, g, p, ok)
  <2>1. c \in Ctx
    BY <1>10 DEF Ptr
  <2>2. /\ bySid[s] = c /\ Live(c)
        /\ Common(View(peers, s), acct[c])
        /\ fin[c] => Leaving(View(peers, s), st[c])
        /\ ~fin[c] => /\ View(peers, s).owed = {a} /\ st[c] = "GATEALLOCREQ" /\ ~View(peers, s).cache
    BY <1>3, <1>4, <1>5, <1>10, <2>1, GateAnswerAwaited
  <2> DEFINE t == After(st[c], "GATEALLOCFAILACK")
  <2>3. CASE UNCHANGED <<mapVars, sess, gateId>> /\ ShutdownPlayer(c, t, t, p, ok)
    <3> DEFINE w == View(peers, s)
               u == View(p, s)
    <3>1. t = IF st[c] = "GATEALLOCREQ" THEN "GATEALLOCFAILACK" ELSE st[c]
      BY Leaves
    <3>2. ShutdownSet({c}, [st EXCEPT ![c] = t], [st EXCEPT ![c] = t], p, IF ok THEN {c} ELSE {}, {})
      BY <2>3 DEF ShutdownPlayer
    <3> HIDE DEF t
    <3>3. Advance(c, t, t, {})
      <4>1. CASE st[c] = "GATEALLOCREQ"
        BY <3>1, <4>1 DEF Advance, GateMapStates, LoginMapStates, InRegion, RegionLeaveStates
      <4>2. CASE st[c] # "GATEALLOCREQ"
        BY <1>6, <2>1, <3>1, <4>2, OthersAdvance
      <4> QED
        BY <4>1, <4>2
    <3>4. ReadyFor(u, c, t, t)
      <4> HIDE DEF w, u
      <4>1. Common(u, acct[c])
        BY <1>4, <2>2 DEF Common, Fades, w, u
      <4>2. fin[c] => Leaving(u, t)
        BY <1>4, <2>2, <3>1 DEF Leaving, Fades, Apart, Refused, w, u
      <4>3. ~fin[c] => Fit(u, t, t)
        BY <1>4, <2>2, <3>1 DEF Fit, FailedAckStates, RegionLeaveStates, w, u
      <4> QED
        BY <4>1, <4>2, <4>3 DEF ReadyFor
    <3>5. OthersStay(c)
      BY <1>8, NothingMoves
    <3> QED
      BY <1>4, <1>7, <2>1, <2>2, <2>3, <3>2, <3>3, <3>4, <3>5, OneShutdown
  <2>4. CASE UNCHANGED <<mapVars, sess, gateId>> /\ StateError(c, p, ok)
    BY <1>4, <1>7, <1>8, <2>1, <2>2, <2>4, ErrorKeepsGood
  <2>5. CASE /\ Result(st[c], "GATEALLOCACK") = "GATEALLOCACK"
             /\ gateId' = [gateId EXCEPT ![c] = srv]
             /\ ~ok /\ UNCHANGED <<mapVars, sess>>
             /\ ShutdownPlayer(c, "GATEALLOCACK", "GATEALLOCACK", Untold(p, s, "LoginNtf"), TRUE)
    <3>1. st[c] = "GATEALLOCREQ"
      BY <2>5, Expected DEF INVALID
    <3> QED
      BY <1>1, <1>2, <1>3, <1>4, <1>5, <1>6, <1>10, <2>1, <2>5, <3>1, GateUntoldKeepsGood
         DEF mapVars
  <2>6. CASE /\ Result(st[c], "GATEALLOCACK") = "GATEALLOCACK"
             /\ gateId' = [gateId EXCEPT ![c] = srv]
             /\ Move(c, "GATEALLOCNTF", NowUnder(LoginAnswered(p, s), s, g))
             /\ LoginSession2GateSession(c, s, g)
    <3>1. st[c] = "GATEALLOCREQ"
      BY <2>6, Expected DEF INVALID
    <3> QED
      BY <1>1, <1>2, <1>3, <1>4, <1>5, <1>6, <1>10, <2>1, <2>6, <3>1, GateGrantedKeepsGood
  <2> QED
    BY <1>10, <2>3, <2>4, <2>5, <2>6 DEF PlayerGateAllocAck
<1> QED
  BY <1>6, <1>9, <1>10

-----------------------------------------------------------------------------
(* The periodic pass *)

\* DeletePlayer, for the one player in the queue.
LEMMA DeleteOneKeepsGood ==
  ASSUME Sound, NEW c \in Ctx, queue = <<c>>, DeletePlayer(c, 1), UNCHANGED peers
  PROVE  Good'
<1>1. fin[c] /\ Live(c)
  <2>1. Queued(c)
    BY DEF Queued
  <2> QED
    BY <2>1 DEF Sound, QueueExact
<1>2. PICK s \in Sids : s = sess[c]
  BY DEF Sound, TypeOK
<1>3. bySid[s] = c /\ c # NULL
  BY <1>1, <1>2, ConstantAssumption DEF Sound, NamesAndSessions
<1>4. /\ \A d \in Ctx \ {c} : /\ st'[d] = st[d] /\ fin'[d] = fin[d] /\ acct'[d] = acct[d] /\ sess'[d] = sess[d]
                              /\ gateId'[d] = gateId[d] /\ regionId'[d] = regionId[d] /\ chan'[d] = chan[d]
                              /\ avatars'[d] = avatars[d] /\ freeCnt'[d] = freeCnt[d]
      /\ created' = created /\ bySid' = Erase(bySid, s)
  BY <1>2 DEF DeletePlayer, Clear, Free, Sound, TypeOK
<1>5. /\ bySid'[s] = NULL /\ \A r \in Sids \ {s} : bySid'[r] = bySid[r]
  BY <1>4 DEF Erase, Sound, TypeOK
<1>6. \A r \in Sids : SessionFits(r)'
  <2> TAKE r \in Sids
  <2>0. View(peers', r) = View(peers, r) /\ SessionFits(r)
    BY DEF Sound, Good
  <2>1. CASE r = s
    <3>1. Refused(View(peers, s))
      BY <1>1, <1>3, <2>0, <2>1 DEF SessionFits, PlayerFits, Leaving
    <3> QED
      BY <1>5, <2>0, <2>1, <3>1 DEF SessionFits
  <2>2. CASE r # s /\ bySid[r] = NULL
    BY <1>5, <2>0, <2>2 DEF SessionFits
  <2>3. CASE r # s /\ bySid[r] # NULL
    <3>1. bySid[r] \in Ctx \ {c} /\ bySid'[r] = bySid[r]
      BY <1>2, <1>5, <2>3, OwnSession DEF Sound
    <3>2. /\ st'[bySid[r]] = st[bySid[r]] /\ fin'[bySid[r]] = fin[bySid[r]]
          /\ acct'[bySid[r]] = acct[bySid[r]] /\ avatars'[bySid[r]] = avatars[bySid[r]]
      BY <1>4, <3>1
    <3> QED
      BY <2>0, <2>3, <3>1, <3>2 DEF SessionFits
  <2> QED
    BY <2>1, <2>2, <2>3
<1>7. /\ loginMap' = IF st[c] \in LoginMapStates THEN Erase(loginMap, s) ELSE loginMap
      /\ gateMap' = IF st[c] \in GateMapStates THEN Erase(gateMap, <<gateId[c], s>>) ELSE gateMap
      /\ DeleteFromRegion(IF st[c] \in RegionMapStates THEN RegionKeys({c}, regionId) ELSE {})
  BY <1>2 DEF DeletePlayer
<1>8. /\ \A k \in Sids : /\ loginMap'[k] \in {loginMap[k], NULL}
                         /\ k = s /\ st[c] \in LoginMapStates => loginMap'[k] = NULL
      /\ DOMAIN gateMap' = DOMAIN gateMap
      /\ \A k \in DOMAIN gateMap : /\ gateMap'[k] \in {gateMap[k], NULL}
                                   /\ k = <<gateId[c], s>> /\ st[c] \in GateMapStates => gateMap'[k] = NULL
  BY <1>7 DEF Erase, Sound, TypeOK
<1>9. /\ DOMAIN regionMap' = DOMAIN regionMap
      /\ \A k \in DOMAIN regionMap :
           /\ regionMap'[k] \in {regionMap[k], NULL}
           /\ k = <<chan[c], regionId[c], s>> /\ st[c] \in RegionMapStates => regionMap'[k] = NULL
  <2> DEFINE keys == IF st[c] \in RegionMapStates THEN RegionKeys({c}, regionId) ELSE {}
  <2>1. regionMap' = [k \in DOMAIN regionMap |-> IF k \in keys THEN NULL ELSE regionMap[k]]
    BY <1>7 DEF DeleteFromRegion
  <2>2. st[c] \in RegionMapStates => <<chan[c], regionId[c], s>> \in keys
    BY <1>2 DEF RegionKeys
  <2> HIDE DEF keys
  <2> QED
    BY <2>1, <2>2
<1>10. \A d \in Ctx : Listed(d)'
  <2> TAKE d \in Ctx
  <2>0. Listed(d)
    BY DEF Sound, Good
  <2>1. CASE d = c
    <3>1. \A k \in DOMAIN gateMap' : gateMap'[k] # c
      BY <1>2, <1>3, <1>8, <2>0, <2>1 DEF Listed
    <3>2. \A k \in DOMAIN regionMap' : regionMap'[k] # c
      BY <1>2, <1>3, <1>9, <2>0, <2>1 DEF Listed, InRegion, RegionMapStates
    <3>3. \A k \in Sids : loginMap'[k] = c => <<k, "LoginNtf">> \in peers'.untold
      BY <1>2, <1>3, <1>8, <2>0, <2>1 DEF Listed
    <3> QED
      BY <2>1, <3>1, <3>2, <3>3 DEF Listed
  <2>2. CASE d # c
    <3>1. /\ st'[d] = st[d] /\ sess'[d] = sess[d] /\ gateId'[d] = gateId[d] /\ chan'[d] = chan[d]
          /\ regionId'[d] = regionId[d] /\ (Live(d)' <=> Live(d))
      BY <1>4, <2>2 DEF Live
    <3>2. /\ \A k \in Sids : loginMap'[k] = d => loginMap[k] = d
          /\ \A k \in DOMAIN gateMap : gateMap'[k] = d => gateMap[k] = d
          /\ \A k \in DOMAIN regionMap : regionMap'[k] = d => regionMap[k] = d
      BY <1>8, <1>9, ConstantAssumption
    <3>3. \A k \in DOMAIN regionMap : regionMap[k] = d => st[d] \in InRegion
      BY <2>0 DEF Listed
    <3> QED
      <4>1. UntoldStays(peers')
        BY DEF UntoldStays
      <4> QED
        BY <1>8, <1>9, <2>0, <3>1, <3>2, <3>3, <4>1, ListsKeepGeneral
  <2> QED
    BY <2>1, <2>2
<1> QED
  BY <1>6, <1>10 DEF Good, Sound, RegionsKnow

\* A pass of _Loop that meets one player at most.
LEMMA LoopKeepsGood ==
  ASSUME Sound, Loop, ~(Len(queue) > 1)
  PROVE  Good'
<1>1. UNCHANGED peers /\ queue \in Seq(Ctx)
  BY DEF Loop, Sound, TypeOK
<1>2. CASE queue = << >>
  <2>1. UNCHANGED <<st, fin, queue, regionMap, idVars, ctxVars, mapVars, poolVars>>
    BY <1>2 DEF Loop, DrainFinalizingQueue
  <2> QED
    BY <1>1, <2>1, StutterKeepsGood DEF Sound, idVars, ctxVars, mapVars, poolVars
<1>3. CASE queue # << >>
  <2>0. Len(queue) \in Nat /\ Len(queue) > 0
    BY <1>1, <1>3
  <2>1. Len(queue) = 1 /\ queue[1] \in Ctx
    <3>1. PICK n \in Nat : n = Len(queue)
      BY <2>0
    <3>2. n = 1
      BY <2>0, <3>1
    <3>3. Len(queue) = 1
      BY <3>1, <3>2
    <3>4. queue[1] \in Ctx
      BY <1>1, <3>3
    <3> QED
      BY <3>3, <3>4
  <2>2. queue = <<queue[1]>>
    BY <1>1, <2>1
  <2>3. DeletePlayer(queue[1], 1)
    BY <1>3, <2>1 DEF Loop, DrainFinalizingQueue
  <2> QED
    BY <1>1, <2>1, <2>2, <2>3, DeleteOneKeepsGood
<1> QED
  BY <1>2, <1>3

-----------------------------------------------------------------------------
(* The invariant is inductive *)

\* The players and the peers fit when the loop starts.
LEMMA InitGood == Init => Good
<1> SUFFICES ASSUME Init PROVE Good
  OBVIOUS
<1>1. \A s \in Sids : SessionFits(s)
  <2> TAKE s \in Sids
  <2>1. bySid[s] = NULL /\ peers.loginWait = {}
    BY DEF Init
  <2>2. Refused(View(peers, s))
    BY <2>1 DEF View, Refused
  <2> QED
    BY <2>1, <2>2 DEF SessionFits
<1>2. \A c \in Ctx : Listed(c)
  BY ConstantAssumption DEF Init, Listed
<1>3. RegionsKnow(peers)
  BY DEF Init, RegionsKnow
<1> QED
  BY <1>1, <1>2, <1>3 DEF Good

\* Every command keeps the players and the peers fitting.
LEMMA CommandKeepsGood ==
  ASSUME Sound, Command
  PROVE  Good'
<1>1. ASSUME NEW ok \in SendResults, NEW a \in peers.owed, PeerAnswer(a, ok)
      PROVE  Good'
  <2>1. CASE a.kind = "GateAlloc" /\ \E x \in GateAnswers(a) : GateAllocAck(a, x[1], x[2], ok)
    BY <2>1, GateAllocAckKeepsGood
  <2>2. CASE a.kind \in CacheKinds /\ CacheAck(a, ok)
    BY <2>2, CacheAckKeepsGood
  <2>3. CASE a.kind = "RegionAlloc"
             /\ \E ret \in Returns, ok2 \in SendResults : OnRegionAllocAck(a, ret, ok, ok2)
    BY <2>3, OnRegionAllocAckKeepsGood
  <2>4. CASE a.kind = "RegionLeave" /\ OnRegionLeaveReq(a, ok)
    BY <2>4, OnRegionLeaveReqKeepsGood
  <2> QED
    BY <1>1, <2>1, <2>2, <2>3, <2>4 DEF PeerAnswer
<1>2. ASSUME NEW ok \in SendResults, NEW g \in GateSids, OnGateLoginReq(g, ok) \/ ClientPacket(g, ok)
      PROVE  Good'
  BY <1>2, OnGateLoginReqKeepsGood, ClientPacketKeepsGood
<1>3. ASSUME NEW ok \in SendResults, NEW s \in Sids, OnSessionDisconnect(s, ok)
      PROVE  Good'
  BY <1>3, OnSessionDisconnectKeepsGood
<1>4. ASSUME NEW ok \in SendResults, NEW n \in Accounts, NEW s \in LoginSids, NEW told \in SendResults,
             OnLoginReq(n, s, ok, told)
      PROVE  Good'
  BY <1>4, OnLoginReqKeepsGood
<1>5. ASSUME NEW k \in peers.regionOn, OnRegionPlayerFailReq(k[1], k[2])
      PROVE  Good'
  BY <1>5, OnRegionPlayerFailReqKeepsGood
<1>6. ASSUME NEW reached, Shutdown(reached)
      PROVE  Good'
  BY <1>6, ShutdownKeepsGood
<1>7. ASSUME NEW g \in Gates, NEW n \in 0 .. GateMax[g], GateReport(g, n)
      PROVE  Good'
  BY <1>7, StutterKeepsGood DEF Sound, GateReport, idVars, ctxVars, mapVars, poolVars
<1>8. CASE LoginReport
  BY <1>8, StutterKeepsGood DEF Sound, LoginReport, idVars, ctxVars, mapVars, poolVars
<1> QED
  BY <1>1, <1>2, <1>3, <1>4, <1>5, <1>6, <1>7, <1>8 DEF Command

\* Only _Loop can meet two players.
LEMMA CommandKeepsOverrun == Command => UNCHANGED overrun
<1>1. \A ok : \A a \in peers.owed : PeerAnswer(a, ok) => UNCHANGED overrun
  <2> TAKE ok
  <2> TAKE a \in peers.owed
  <2>1. \A x, y : GateAllocAck(a, x, y, ok) => UNCHANGED overrun
    BY DEF GateAllocAck, loopVars
  <2>2. CacheAck(a, ok) => UNCHANGED overrun
    BY DEF CacheAck, Frame, loopVars
  <2>3. \A ret, ok2 : OnRegionAllocAck(a, ret, ok, ok2) => UNCHANGED overrun
    BY DEF OnRegionAllocAck, Frame, loopVars
  <2>4. OnRegionLeaveReq(a, ok) => UNCHANGED overrun
    BY DEF OnRegionLeaveReq, Frame, loopVars
  <2> QED
    BY <2>1, <2>2, <2>3, <2>4 DEF PeerAnswer
<1>2. \A ok, g : OnGateLoginReq(g, ok) \/ ClientPacket(g, ok) => UNCHANGED overrun
  BY DEF OnGateLoginReq, ClientPacket, Frame, loopVars, vars
<1>3. \A ok, s : OnSessionDisconnect(s, ok) => UNCHANGED overrun
  BY DEF OnSessionDisconnect, Frame, loopVars, vars
<1>4. \A ok, n, s, told : OnLoginReq(n, s, ok, told) => UNCHANGED overrun
  BY DEF OnLoginReq, loopVars, vars
<1>5. \A r, s : OnRegionPlayerFailReq(r, s) => UNCHANGED overrun
  BY DEF OnRegionPlayerFailReq, Frame, loopVars
<1>6. \A reached : Shutdown(reached) => UNCHANGED overrun
  BY DEF Shutdown
<1>7. LoginReport => UNCHANGED overrun
  BY DEF LoginReport
<1>8. \A g, n : GateReport(g, n) => UNCHANGED overrun
  BY DEF GateReport
<1> QED
  BY <1>1, <1>2, <1>3, <1>4, <1>5, <1>6, <1>7, <1>8 DEF Command

\* PeersInv holds when the loop starts.
LEMMA InitPeersInv == Init => PeersInv
  BY InitInv, InitGood DEF PeersInv

\* PeersInv is inductive.
LEMMA NextKeepsPeersInv == PeersInv /\ [Next]_vars => PeersInv'
<1> SUFFICES ASSUME PeersInv, [Next]_vars PROVE PeersInv'
  OBVIOUS
<1>1. Inv'
  BY NextKeepsInv DEF PeersInv
<1>2. ASSUME ~overrun PROVE Sound
  BY <1>2 DEF PeersInv, Inv, Bookkeeping, Sound
<1>3. ASSUME ~overrun' PROVE Good'
  <2>1. CASE Command
    <3>1. ~overrun
      BY <1>3, <2>1, CommandKeepsOverrun
    <3> QED
      BY <1>2, <2>1, <3>1, CommandKeepsGood
  <2>2. CASE Loop
    <3>1. ~overrun /\ ~(Len(queue) > 1)
      BY <1>3, <2>2 DEF Loop
    <3> QED
      BY <1>2, <2>2, <3>1, LoopKeepsGood
  <2>3. CASE UNCHANGED vars
    <3>1. ~overrun
      BY <1>3, <2>3 DEF vars, loopVars
    <3>2. Good
      BY <1>2, <3>1 DEF Sound
    <3> QED
      BY <2>3, <3>2, StutterKeepsGood DEF vars, idVars, ctxVars, mapVars, poolVars
  <2> QED
    BY <2>1, <2>2, <2>3 DEF Next
<1> QED
  BY <1>1, <1>3 DEF PeersInv

\* As long as no pass of _Loop meets two leaving players, what the other
\* servers know of a session fits the state of the player filed under it.
THEOREM PeersInvAlways == Spec => []PeersInv
  BY InitPeersInv, NextKeepsPeersInv, PTL DEF Spec

-----------------------------------------------------------------------------
(* What the master server keeps and what its peers are left with *)

\* The invariant of a player in use.
LEMMA LivePlayerFits ==
  ASSUME Sound, NEW c \in Ctx, Live(c)
  PROVE  /\ sess[c] \in Sids /\ bySid[sess[c]] = c
         /\ PlayerFits(View(peers, sess[c]), sess[c], acct[c], st[c], fin[c], avatars[c])
<1>1. sess[c] \in Sids /\ bySid[sess[c]] = c /\ c # NULL
  BY ConstantAssumption DEF Sound, TypeOK, NamesAndSessions
<1>2. SessionFits(sess[c])
  BY <1>1 DEF Sound, Good
<1> QED
  BY <1>1, <1>2 DEF SessionFits

\* PeersInv is Sound until a pass of _Loop meets two players.
LEMMA PeersSound == PeersInv /\ ~overrun => Sound
  BY DEF PeersInv, Inv, Bookkeeping, Sound

\* The players that the gate and region contexts list are in use and listed
\* under the keys they carry: after any sequence of shutdowns, deletions and
\* session changes no list of another server keeps a pointer to a freed or a
\* reused context.
THEOREM ServerListsExactAlways == Spec => []ServerListsExact
<1>1. PeersInv => ServerListsExact
  <2> SUFFICES ASSUME PeersInv, ~overrun
               PROVE  /\ \A k \in DOMAIN gateMap : gateMap[k] # NULL =>
                           Live(gateMap[k]) /\ k = <<gateId[gateMap[k]], sess[gateMap[k]]>>
                      /\ \A k \in DOMAIN regionMap : regionMap[k] # NULL =>
                           /\ Live(regionMap[k])
                           /\ k = <<chan[regionMap[k]], regionId[regionMap[k]], sess[regionMap[k]]>>
    BY DEF ServerListsExact
  <2>1. Sound
    BY PeersSound
  <2>2. /\ \A k \in DOMAIN gateMap : gateMap[k] \in Ctx \cup {NULL}
        /\ \A k \in DOMAIN regionMap : regionMap[k] \in Ctx \cup {NULL}
    BY <2>1 DEF Sound, TypeOK, Ptr
  <2> QED
    BY <2>1, <2>2 DEF Sound, Good, Listed
<1> QED
  BY <1>1, PeersInvAlways, PTL

\* Whatever sends fail, the login server's context lists only players in use
\* that still have the login session they are listed under.  The one exception
\* is a session whose own login notification could not be sent by GateAllocAck:
\* DeletePlayer leaves that entry behind.
THEOREM LoginListExactAlways == Spec => []LoginListExact
<1>1. PeersInv => LoginListExact
  <2> SUFFICES ASSUME PeersInv, ~overrun, NEW s \in Sids, loginMap[s] # NULL
               PROVE  \/ Live(loginMap[s]) /\ sess[loginMap[s]] = s
                      \/ <<s, "LoginNtf">> \in peers.untold
    BY DEF LoginListExact
  <2>1. Sound
    BY PeersSound
  <2>2. loginMap[s] \in Ctx
    BY <2>1 DEF Sound, TypeOK, Ptr
  <2> QED
    BY <2>1, <2>2 DEF Sound, Good, Listed
<1> QED
  BY <1>1, PeersInvAlways, PTL

\* A client that waits on the login server has a player at work on its request,
\* unless the refusal meant for it could not be sent: every path through
\* OnLoginReq, GateAllocAck and ShutdownPlayer that gives the request up tries to
\* answer the client.
THEOREM LoginClientsAnsweredAlways == Spec => []LoginClientsAnswered
<1>1. PeersInv => LoginClientsAnswered
  <2> SUFFICES ASSUME PeersInv, ~overrun, NEW s \in peers.loginWait,
                      <<s, "OnLoginFailedAck">> \notin peers.untold
               PROVE  \E c \in Ctx : /\ Live(c) /\ ~fin[c] /\ sess[c] = s
                                     /\ st[c] \in {"ONLOGINREQ", "GATEALLOCREQ"}
    BY DEF LoginClientsAnswered
  <2>1. Sound
    BY PeersSound
  <2>2. s \in Sids /\ View(peers, s).login
    BY <2>1 DEF Sound, TypeOK, PeersType, Sids, View
  <2>3. SessionFits(s)
    BY <2>1, <2>2 DEF Sound, Good
  <2>4. bySid[s] # NULL /\ ~Refused(View(peers, s))
    BY <2>2, <2>3 DEF SessionFits, Refused, View
  <2>5. bySid[s] \in Ctx /\ Live(bySid[s]) /\ sess[bySid[s]] = s
    BY <2>1, <2>2, <2>4, OwnSession DEF Sound
  <2>6. ~fin[bySid[s]] /\ st[bySid[s]] \in AskedGate
    BY <2>2, <2>3, <2>4 DEF SessionFits, PlayerFits, Leaving, AtRest
  <2> QED
    BY <2>5, <2>6 DEF AskedGate
<1> QED
  BY <1>1, PeersInvAlways, PTL

\* An answer of a gate, cache or region server to a player who is still in the
\* game finds the state machine of the player waiting for that very answer:
\* the state error assertions of the acknowledgement handlers never fire.
THEOREM MasterAnswersExpectedAlways == Spec => []AnswersExpected
<1> DEFINE Event(a) == CASE a.kind = "GateAlloc"    -> "GATEALLOCACK"
                         [] a.kind = "AvatarList"   -> "ONAVATARLISTACK"
                         [] a.kind = "AvatarCreate" -> "ONAVATARCREATEACK"
                         [] a.kind = "AvatarSelect" -> "ONAVATARSELECTACK"
                         [] a.kind = "RegionAlloc"  -> "ONREGIONALLOCACK"
                         [] a.kind = "RegionLeave"  -> "ONREGIONLEAVEREQ"
<1>1. PeersInv => AnswersExpected
  <2> SUFFICES ASSUME PeersInv, ~overrun, NEW a \in peers.owed, ~Gone(bySid[a.sid])
               PROVE  Result(st[bySid[a.sid]], Event(a)) # INVALID
    BY DEF AnswersExpected
  <2>1. Sound
    BY PeersSound
  <2>2. a.sid \in Sids /\ a \in View(peers, a.sid).owed
    BY <2>1 DEF Sound, TypeOK, PeersType, Answers, Sids, View
  <2>3. SessionFits(a.sid)
    BY <2>1, <2>2 DEF Sound, Good
  <2>4. bySid[a.sid] # NULL /\ ~fin[bySid[a.sid]]
    BY DEF Gone
  <2>5. PICK x : x = st[bySid[a.sid]]
    OBVIOUS
  <2>6. x \in Waiting /\ a.kind = Awaited(x)
    BY <2>2, <2>3, <2>4, <2>5 DEF SessionFits, PlayerFits, AtRest
  <2>7. /\ x = "GATEALLOCREQ" => Event(a) = "GATEALLOCACK"
        /\ x = "AVATARLISTREQ" => Event(a) = "ONAVATARLISTACK"
        /\ x = "AVATARCREATEREQ" => Event(a) = "ONAVATARCREATEACK"
        /\ x = "AVATARSELECTREQ" => Event(a) = "ONAVATARSELECTACK"
        /\ x = "REGIONALLOCREQ" => Event(a) = "ONREGIONALLOCACK"
        /\ x = "FINALIZING_REGIONLEAVEACK" => Event(a) = "ONREGIONLEAVEREQ"
    BY <2>6 DEF Awaited, AwaitedAnswer
  <2>8. Result("FINALIZING_REGIONLEAVEACK", "ONREGIONLEAVEREQ") # INVALID
    BY Leaves DEF INVALID
  <2> HIDE DEF Event
  <2> QED
    BY <2>5, <2>6, <2>7, <2>8, Expected DEF Waiting
<1> QED
  BY <1>1, PeersInvAlways, PTL

\* The gate holds the session of every player past the login phase for that
\* player's account, until the player leaves: the answer to an earlier,
\* released request is never taken for the player's own.
THEOREM GateSessionHeldAlways == Spec => []GateSessionHeld
<1>1. PeersInv => GateSessionHeld
  <2> SUFFICES ASSUME PeersInv, ~overrun, NEW c \in Ctx, Live(c), ~fin[c], sess[c] \in GateSids,
                      st[c] \notin Apart
               PROVE  peers.gateOwner[sess[c]] = acct[c]
    BY DEF GateSessionHeld, Apart
  <2>1. Sound
    BY PeersSound
  <2>2. View(peers, sess[c]).gate = acct[c]
    BY <2>1, LivePlayerFits DEF PlayerFits, AtRest
  <2> QED
    BY <2>2 DEF View
<1> QED
  BY <1>1, PeersInvAlways, PTL

\* A player queued for deletion has left nothing with the peers that it could
\* have told them about: no context in the cache unless OnLogoutReq was lost, no
\* client on the login server unless OnLoginFailedAck was, no gate session and no
\* request for one that could still be granted unless GateReleaseReq or Disconnect
\* was.  The exception is a player queued while it waited to leave its region.
THEOREM QueuedPlayersReleasedAlways == Spec => []QueuedPlayersReleased
<1>1. PeersInv => QueuedPlayersReleased
  <2> SUFFICES ASSUME PeersInv, ~overrun, NEW c \in Ctx, fin[c], st[c] \notin Apart
               PROVE  /\ <<sess[c], "OnLogoutReq">> \notin peers.untold => sess[c] \notin peers.cacheOn
                      /\ <<sess[c], "OnLoginFailedAck">> \notin peers.untold => sess[c] \notin peers.loginWait
                      /\ <<sess[c], "GateReleaseReq">> \notin peers.untold =>
                           /\ <<sess[c], "Disconnect">> \notin peers.untold /\ sess[c] \in GateSids =>
                                peers.gateOwner[sess[c]] = NULL
                           /\ \A a \in peers.owed : a.kind = "GateAlloc" /\ a.sid = sess[c] => a.void
    BY DEF QueuedPlayersReleased, Apart
  <2>1. Sound /\ Live(c)
    BY PeersSound DEF Sound, QueueExact
  <2> DEFINE w == View(peers, sess[c])
  <2>2. Leaving(w, st[c])
    BY <2>1, LivePlayerFits DEF PlayerFits
  <2>3. /\ w.login => "OnLoginFailedAck" \in w.lost
        /\ w.cache => "OnLogoutReq" \in w.lost
        /\ w.gate = NULL \/ "GateReleaseReq" \in w.lost \/ "Disconnect" \in w.lost
        /\ (\A a \in w.owed : a.kind = "GateAlloc" => a.void) \/ "GateReleaseReq" \in w.lost
    BY <2>2 DEF Leaving, Refused
  <2> QED
    BY <2>3 DEF View
<1> QED
  BY <1>1, PeersInvAlways, PTL

\* Every player that is not about to be deleted waits for an answer that a peer
\* owes it, or for a client that can still be heard of (ClientThere).  Nothing
\* is owed only to the players that were asked to leave their region: the answer
\* they wait for is one no region server sends.
THEOREM NobodyWaitsInVainAlways == Spec => []NobodyWaitsInVain
<1>1. PeersInv => NobodyWaitsInVain
  <2> SUFFICES ASSUME PeersInv, ~overrun, NEW c \in Ctx, Live(c), ~fin[c], st[c] \notin Apart
               PROVE  \/ /\ st[c] \in DOMAIN AwaitedAnswer
                         /\ \E a \in peers.owed : a.sid = sess[c] /\ a.kind = AwaitedAnswer[st[c]] /\ ~a.void
                      \/ st[c] \in ClientsTurn \cup DeadEnds /\ ClientThere(c)
    BY DEF NobodyWaitsInVain, Apart
  <2>1. Sound
    BY PeersSound
  <2> DEFINE w == View(peers, sess[c])
  <2>2. AtRest(w, sess[c], acct[c], st[c], avatars[c])
    BY <2>1, LivePlayerFits DEF PlayerFits
  <2>3. /\ \A a \in w.owed : a \in peers.owed /\ a.sid = sess[c]
        /\ w.login => sess[c] \in peers.loginWait
        /\ w.here => sess[c] \in peers.gateIn
    BY DEF View
  <2> HIDE DEF w
  <2>4. DOMAIN AwaitedAnswer = Waiting \ {"FINALIZING_REGIONLEAVEACK"}
    BY DEF AwaitedAnswer, Waiting
  <2>5. CASE st[c] \in Waiting
    <3>1. \E a \in w.owed : a.kind = Awaited(st[c]) /\ ~a.void
      BY <2>2, <2>5 DEF AtRest
    <3>2. Awaited(st[c]) = AwaitedAnswer[st[c]] /\ st[c] \in DOMAIN AwaitedAnswer
      BY <2>4, <2>5 DEF Awaited, Apart
    <3> QED
      BY <2>3, <3>1, <3>2
  <2>6. CASE st[c] \notin Waiting
    <3>1. st[c] \in ClientsTurn \cup DeadEnds
      BY <2>2, <2>6 DEF AtRest
    <3>2. w.login \/ w.here \/ st[c] = "GATEALLOCNTF"
      BY <2>2, <2>6 DEF AtRest
    <3> QED
      BY <2>3, <3>1, <3>2 DEF ClientThere
  <2> QED
    BY <2>5, <2>6
<1> QED
  BY <1>1, PeersInvAlways, PTL
=============================================================================
