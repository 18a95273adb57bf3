--------------------------- MODULE CachePlayerFsm ---------------------------
(***************************************************************************)
(* The finite state machine of a player on the cache server                *)
(* (CacheServer/cache_player_state.cpp) with the generic step of           *)
(* Tool/state_machine.cpp.  States and events keep the names of            *)
(* cache_player_context.h without their prefix.                            *)
(***************************************************************************)

INVALID == "INVALID"        \* StateTransition returned a negative number

Requests ==
  { <<"NONE", "ONLOGINREQ", "ONLOGINREQ">>,
    <<"ONLOGINREQ", "ONAVATARLISTREQ", "ONAVATARLISTREQ">>,
    <<"ONAVATARLISTREQ", "AVATARLISTACK", "AVATARLISTACK">>,
    <<"AVATARLISTACK", "ONAVATARSELECTREQ", "ONAVATARSELECTREQ">>,
    <<"ONAVATARSELECTREQ", "AVATARSELECTACK", "AVATARSELECTACK">>,
    <<"AVATARSELECTACK", "ONAVATARLISTREQ", "ONAVATARLISTREQ">>,
    <<"AVATARSELECTACK", "ONREGIONENTERREQ", "ONREGIONENTERREQ">>,
    <<"ONREGIONENTERREQ", "REGIONENTERACK", "REGIONENTERACK">> }

\* Variant: a player may also log out while an answer is awaited.
LogoutAnytime ==
  {"ONLOGINREQ", "ONAVATARLISTREQ", "AVATARLISTACK", "ONAVATARSELECTREQ", "AVATARSELECTACK",
   "ONREGIONENTERREQ", "REGIONENTERACK"}

LogoutFrom ==
  {"ONLOGINREQ", "AVATARLISTACK", "AVATARSELECTACK", "ONREGIONENTERREQ", "REGIONENTERACK"}

Transitions ==
  Requests \cup { <<s, "ONLOGOUTREQ", "ONLOGOUTREQ">> : s \in LogoutFrom }

States == { t[1] : t \in Transitions } \cup { t[3] : t \in Transitions }

Table == [k \in { <<t[1], t[2]>> : t \in Transitions } |->
            (CHOOSE t \in Transitions : <<t[1], t[2]>> = k)[3]]

\* What StateMachine::StateTransition returns in state s for event e.
Result(s, e) == IF <<s, e>> \in DOMAIN Table THEN Table[<<s, e>>] ELSE INVALID

\* Every event has one target, so a refused event is one without a row.
Takes(s, e) == Result(s, e) # INVALID

\* Variant: the result is stored unseen.
StoredUnseen(s, e) == Result(s, e)

\* The state the machine is left in: an event without a row changes nothing.
After(s, e) == IF Result(s, e) = INVALID THEN s ELSE Result(s, e)
=============================================================================
