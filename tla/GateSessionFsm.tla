--------------------------- MODULE GateSessionFsm ---------------------------
(***************************************************************************)
(* The state machine of a gate session: the rows of                        *)
(* ServerBase/session_state.cpp and those GateServer/gate_session_state.cpp*)
(* adds.  Names as in the enums, without SESSION_STATE_ / SESSION_EVENT_.  *)
(***************************************************************************)

INVALID == "INVALID"        \* StateTransition returned a negative number

SessionTransitions ==
  { <<"NONE", "ONCONNECTION", "ONCONNECTION">>,
    <<"ONCONNECTION", "DISCONNECT", "DISCONNECT">>,
    <<"ONCONNECTION", "ONDISCONNECT", "ONDISCONNECT">>,
    <<"ONCONNECTION", "ONDATA", "ONCONNECTION">>,
    <<"DISCONNECT", "ONDISCONNECT", "ONDISCONNECT">> }

GateTransitions ==
  { <<"NONE", "ONGATEALLOCREQ", "ONGATEALLOCREQ">>,
    <<"ONCONNECTION", "LOGGEDIN", "TRANSFERED">>,
    <<"ONGATEALLOCREQ", "GATEALLOCACK", "GATEALLOCACK">>,
    <<"GATEALLOCACK", "TRANSFERED", "LOGGEDIN">>,
    <<"LOGGEDIN", "GATELOGINREQ", "GATELOGINREQ">>,
    <<"GATELOGINREQ", "DISCONNECT", "DISCONNECT">>,
    <<"GATELOGINREQ", "ONDISCONNECT", "HOLDCONNECTION">>,
    <<"GATELOGINREQ", "ONDATA", "GATELOGINREQ">>,
    <<"GATELOGINREQ", "SEND", "GATELOGINREQ">>,
    <<"GATELOGINREQ", "ONMASTERDISCONNECT", "ONMASTERDISCONNECT">>,
    <<"HOLDCONNECTION", "SESSIONDISCONNECTREQ", "ONDISCONNECT">>,
    <<"ONMASTERDISCONNECT", "ONDISCONNECT", "ONDISCONNECT">> }

Transitions == SessionTransitions \cup GateTransitions

\* GATERELEASEREQ is a state of the enum that no row leads to.
States == { t[1] : t \in Transitions } \cup { t[3] : t \in Transitions }

Table == [k \in { <<t[1], t[2]>> : t \in Transitions } |->
            (CHOOSE t \in Transitions : <<t[1], t[2]>> = k)[3]]

\* What StateMachine::StateTransition returns in state s for event e.
Result(s, e) == IF <<s, e>> \in DOMAIN Table THEN Table[<<s, e>>] ELSE INVALID

\* Variant: the result is stored unseen.
StoredUnseen(s, e) == Result(s, e)

\* The state the machine is left in: an event without a row changes nothing.
After(s, e) == IF Result(s, e) = INVALID THEN s ELSE Result(s, e)
=============================================================================
