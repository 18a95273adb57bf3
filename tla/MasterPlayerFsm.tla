-------------------------- MODULE MasterPlayerFsm --------------------------
(***************************************************************************)
(* The finite state machine of a player on the master server               *)
(* (MasterServer/master_player_state.cpp) and the generic step of          *)
(* Tool/state_machine.cpp.  States and events keep the names of the enums  *)
(* of master_player_context.h without the PLAYER_STATE_ / PLAYER_EVENT_    *)
(* prefix.  Transitions are triples <<state, event, next state>>, grouped  *)
(* by the part of the login dialogue they belong to.                       *)
(***************************************************************************)

INVALID == "INVALID"        \* StateTransition returned a negative number

LoginTransitions ==
  { <<"NONE", "ONLOGINREQ", "ONLOGINREQ">>,
    <<"ONLOGINREQ", "GATEALLOCREQ", "GATEALLOCREQ">>,
    <<"GATEALLOCREQ", "GATEALLOCACK", "GATEALLOCACK">>,
    <<"GATEALLOCREQ", "GATEALLOCFAILACK", "GATEALLOCFAILACK">>,
    <<"GATEALLOCACK", "GATEALLOCNTF", "GATEALLOCNTF">>,
    <<"GATEALLOCNTF", "ONGATELOGINREQ", "ONGATELOGINREQ">>,
    <<"ONGATELOGINREQ", "CACHELOGINREQ", "CACHELOGINREQ">>,
    <<"CACHELOGINREQ", "ONAVATARLISTREQ", "ONAVATARLISTREQ">> }

AvatarTransitions ==
  { <<"ONAVATARLISTREQ", "AVATARLISTREQ", "AVATARLISTREQ">>,
    <<"AVATARLISTREQ", "ONAVATARLISTACK", "ONAVATARLISTACK">>,
    <<"ONAVATARLISTACK", "AVATARLISTACK", "AVATARLISTACK">>,
    <<"AVATARLISTACK", "ONAVATARCREATEREQ", "ONAVATARCREATEREQ">>,
    <<"AVATARLISTACK", "ONAVATARSELECTREQ", "ONAVATARSELECTREQ">>,
    <<"ONAVATARCREATEREQ", "AVATARCREATEREQ", "AVATARCREATEREQ">>,
    <<"ONAVATARCREATEREQ", "AVATARCREATEACK", "AVATARLISTACK">>,
    <<"AVATARCREATEREQ", "ONAVATARCREATEACK", "ONAVATARCREATEACK">>,
    <<"ONAVATARCREATEACK", "AVATARCREATEACK", "AVATARLISTACK">>,
    <<"ONAVATARSELECTREQ", "AVATARSELECTREQ", "AVATARSELECTREQ">>,
    <<"AVATARSELECTREQ", "ONAVATARSELECTACK", "ONAVATARSELECTACK">>,
    <<"ONAVATARSELECTACK", "AVATARSELECTACK", "AVATARSELECTACK">>,
    <<"AVATARSELECTACK", "CHANNELLISTNTF", "CHANNELLISTNTF">> }

ChannelTransitions ==
  { <<"CHANNELLISTNTF", "ONCHANNELSELECTREQ", "ONCHANNELSELECTREQ">>,
    <<"CHANNELLISTNTF", "ONAVATARLISTREQ", "ONAVATARLISTREQ">>,
    <<"ONCHANNELSELECTREQ", "REGIONALLOCREQ", "REGIONALLOCREQ">>,
    <<"REGIONALLOCREQ", "ONREGIONALLOCACK", "ONREGIONALLOCACK">>,
    <<"REGIONALLOCREQ", "ONREGIONALLOCFAILACK", "ONREGIONALLOCFAILACK">>,
    <<"ONREGIONALLOCACK", "CHANNELSELECTACK", "CHANNELSELECTACK">>,
    <<"ONREGIONALLOCFAILACK", "CHANNELSELECTACK", "CHANNELSELECTFAILACK">>,
    <<"CHANNELSELECTACK", "REGIONENTERREQ", "REGIONENTERREQ">>,
    <<"CHANNELSELECTFAILACK", "CHANNELLISTNTF", "CHANNELLISTNTF">> }

LeaveTransitions ==
  { <<"REGIONENTERREQ", "ONCHANNELLEAVEREQ", "ONCHANNELLEAVEREQ">>,
    <<"REGIONENTERREQ", "FINALIZE", "FINALIZING">>,
    <<"ONCHANNELLEAVEREQ", "REGIONLEAVEACK", "ONCHANNELLEAVE_REGIONLEAVEACK">>,
    <<"ONCHANNELLEAVE_REGIONLEAVEACK", "ONREGIONLEAVEREQ", "ONCHANNELLEAVE_ONREGIONLEAVEREQ">>,
    <<"ONCHANNELLEAVE_ONREGIONLEAVEREQ", "CHANNELLISTNTF", "CHANNELLISTNTF">>,
    <<"FINALIZING", "REGIONLEAVEACK", "FINALIZING_REGIONLEAVEACK">>,
    <<"FINALIZING_REGIONLEAVEACK", "ONREGIONLEAVEREQ", "FINALIZING_ONREGIONLEAVEREQ">>,
    <<"FINALIZING_ONREGIONLEAVEREQ", "LOGOUT", "LOGOUT">> }

(***************************************************************************)
(* The rows of event ONSESSIONDISCONNECT are part of the table, but no     *)
(* handler fires that event: OnSessionDisconnect calls ShutdownPlayer      *)
(* without a transition.  They are left out.                               *)
(***************************************************************************)
Transitions ==
  LoginTransitions \cup AvatarTransitions \cup ChannelTransitions \cup LeaveTransitions

States == { t[1] : t \in Transitions } \cup { t[3] : t \in Transitions }

Table == [k \in { <<t[1], t[2]>> : t \in Transitions } |->
            (CHOOSE t \in Transitions : <<t[1], t[2]>> = k)[3]]

\* What StateMachine::StateTransition returns in state s for event e.
Result(s, e) == IF <<s, e>> \in DOMAIN Table THEN Table[<<s, e>>] ELSE INVALID

\* Variant: the negative result is stored as the current state.
AfterStoresInvalid(s, e) == Result(s, e)

\* The state the machine is left in: an event without a row changes nothing.
After(s, e) == IF Result(s, e) = INVALID THEN s ELSE Result(s, e)
=============================================================================
