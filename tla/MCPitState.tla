----------------------------- MODULE MCPitState -----------------------------
(***************************************************************************)
(* Small instances of PitState for TLC.  All commands at once are more     *)
(* than TLC can explore, so a behaviour has those about tyres or those     *)
(* about pit stops, at one moment of the race, or the emergency ones, as   *)
(* time goes by.                                                           *)
(***************************************************************************)
EXTENDS PitState

VARIABLE about

\* Team and bot choose tyres, the team puts its car back on the track.
Tyre == INSTANCE PitState WITH
    Commands <- {<<"bot", "tyre">>, <<"frontend", "tyre">>, <<"frontend", "back">>},
    MaxTime <- 0

\* The team requests pit stops, or sends its car there.
Request == INSTANCE PitState WITH
    Commands <- {<<"frontend", "request">>, <<"frontend", "emergency">>},
    Tyres <- {Hard}, MaxTime <- 0

\* The bot drives while the team sends its car to the pit.
Stop == INSTANCE PitState WITH
    Commands <- {<<"bot", "controls">>, <<"frontend", "emergency">>},
    Tyres <- {Hard}, HistoryMax <- 1

MCInit == Init /\ about \in {"tyres", "requests", "stops"}

MCNext == \/ about = "tyres" /\ Tyre!Next /\ UNCHANGED about
          \/ about = "requests" /\ Request!Next /\ UNCHANGED about
          \/ about = "stops" /\ Stop!Next /\ UNCHANGED about

MCFairSpec == MCInit /\ [][MCNext]_<<vars, about>> /\ WF_vars(Hub)

=============================================================================
