--------------------------- MODULE RegionPlayerFsm --------------------------
(***************************************************************************)
(* The finite state machine of a player on a region server                 *)
(* (RegionServer/region_player_state.cpp) with the generic step of         *)
(* Tool/state_machine.cpp.  States and events keep the names of            *)
(* region_player_context.h without their prefix; every event leads to the  *)
(* state of its own name.                                                  *)
(***************************************************************************)

INVALID == "INVALID"        \* StateTransition returned a negative number

Rows ==
  { <<"NONE", "ONREGIONALLOCREQ">>,
    <<"ONREGIONALLOCREQ", "REGIONALLOCACK">>,
    <<"ONREGIONALLOCREQ", "ONREGIONRELEASEREQ">>,
    <<"REGIONALLOCACK", "ONREGIONRELEASEREQ">>,
    <<"REGIONALLOCACK", "ONREGIONENTERREQ">>,
    <<"ONREGIONRELEASEREQ", "ONREGIONENTERREQ">>,
    <<"ONREGIONRELEASEREQ", "ONREGIONRELEASEREQ">>,
    <<"ONREGIONENTERREQ", "REGIONENTERREQ">>,
    <<"REGIONENTERREQ", "ONREGIONENTERACK">>,
    <<"ONREGIONENTERACK", "SERVERTIMENTF">>,
    <<"SERVERTIMENTF", "ONCLIENTTIMEREQ">>,
    <<"ONCLIENTTIMEREQ", "SERVERTIME2NTF">>,
    <<"SERVERTIME2NTF", "INITAVATARNTF">> }

\* Variant: a player whose avatar is being initialised cannot leave.
LeaveEarly == {"ONREGIONENTERREQ", "REGIONENTERREQ", "ONREGIONENTERACK", "SERVERTIMENTF"}

LeaveFrom == {"ONREGIONENTERREQ", "REGIONENTERREQ", "ONREGIONENTERACK", "SERVERTIMENTF",
              "ONCLIENTTIMEREQ", "SERVERTIME2NTF"}

Transitions == Rows \cup { <<s, "ONREGIONLEAVEREQ">> : s \in LeaveFrom }

States == { t[1] : t \in Transitions } \cup { t[2] : t \in Transitions }

\* What StateMachine::StateTransition returns in state s for event e.
Result(s, e) == IF <<s, e>> \in Transitions THEN e ELSE INVALID

Takes(s, e) == Result(s, e) # INVALID

\* The state the machine is left in: an event without a row changes nothing.
After(s, e) == IF Result(s, e) = INVALID THEN s ELSE Result(s, e)
=============================================================================
