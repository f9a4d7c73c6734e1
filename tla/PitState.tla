------------------------------ MODULE PitState ------------------------------
(***************************************************************************)
(* The pit state of one car in the official build (RuntimePitState in      *)
(* race/runtime_store.rs): the tyre choice, the cooldowns and locks of the *)
(* teleport commands, and the record of pit visits.  Three kinds of actors *)
(* share it and the vehicle: the frame hub, which samples the vehicle,     *)
(* changes its tyres and enforces idle controls; the team's frontend and   *)
(* the bot's stream, which give commands; and the exit monitor, which      *)
(* sends the car of a lost bot to the pit.  Entries of different cars are  *)
(* independent.                                                            *)
(*                                                                         *)
(* Every store call locks the car's entry and is one step; every engine    *)
(* call is awaited and is a step of its own.  Of next_pit_tire_revision    *)
(* only its equality with the revision of the last application matters:    *)
(* that is `revApplied'.                                                   *)
(***************************************************************************)
EXTENDS Naturals, Sequences, FiniteSets

CONSTANTS
    Tyres,        \* tyre types the engine knows
    Hard,         \* the one forced at race start
    Clients,      \* command sources: "bot", "frontend", "monitor"
    Commands,     \* who gives which commands: pairs of a client and one of "back",
                  \* "emergency", "request", "tyre", "controls"
    Cooldown,     \* COMMAND_COOLDOWN_MS
    LockTime,     \* EMERGENCY_PIT_LOCK_MS
    IdleWindow,   \* TELEPORT_IDLE_WINDOW_MS
    HistoryMax,   \* PIT_HISTORY_MAX_ENTRIES
    MaxTime,      \* bound on the wall clock
    Nil

ASSUME PitAssumption ==
    /\ Hard \in Tyres
    /\ Clients \subseteq {"bot", "frontend", "monitor"}
    /\ Cooldown \in Nat \ {0} /\ LockTime \in Nat \ {0} /\ IdleWindow \in Nat \ {0}
    /\ HistoryMax \in Nat \ {0}
    /\ MaxTime \in Nat
    /\ Nil \notin Tyres \cup {"Unspecified"}
    /\ "Unspecified" \notin Tyres

VARIABLES
    pit,      \* the car's RuntimePitState
    vehicle,  \* the engine's vehicle: where it is, its tyres, whose controls it obeys
    hub,      \* the frame being collected
    frame,    \* the latest published frame
    cmd,      \* the command each client has in flight
    now       \* wall clock

vars == <<pit, vehicle, hub, frame, cmd, now>>

Choices == Tyres \cup {"Unspecified"}
Sources == {"BotDecision", "Requested", "Emergency"}
Sessions == [source: Sources, before: Tyres]

ASSUME NilAssumption == Nil \notin Sessions

\* No pit zone, a zone other than Fix, the Fix zone, and at rest with all
\* wheels in the Fix zone.
Places == {"track", "lane", "fix", "box"}
InFix(p) == p \in {"fix", "box"}
InPit(p) == p # "track"

NewPit == [request |-> FALSE, emergencyPending |-> FALSE,
           lockUntil |-> 0, backUntil |-> 0, emergencyUntil |-> 0, idleUntil |-> 0,
           mode |-> "Auto", botTyre |-> Nil, nextTyre |-> "Unspecified",
           lastTyre |-> Nil, revApplied |-> FALSE,
           wasInFix |-> FALSE, session |-> Nil, history |-> <<>>]

-----------------------------------------------------------------------------
(* Pit state operations. *)

Later(a, b) == IF a >= b THEN a ELSE b

\* Mutated form: withdrawing the choice leaves it in force.
set_next_tire_from_frontend_keeps(p, t) ==
    IF t = "Unspecified"
    THEN [p EXCEPT !.mode = "Auto", !.revApplied = FALSE]
    ELSE [p EXCEPT !.mode = "Manual", !.nextTyre = t, !.revApplied = FALSE]

set_next_tire_from_frontend(p, t) ==
    IF t = "Unspecified"
    THEN [p EXCEPT !.mode = "Auto", !.revApplied = FALSE,
                   !.nextTyre = IF p.botTyre = Nil THEN "Unspecified" ELSE p.botTyre]
    ELSE [p EXCEPT !.mode = "Manual", !.nextTyre = t, !.revApplied = FALSE]

set_next_tire_from_bot(p, t) ==
    IF p.mode = "Auto"
    THEN [p EXCEPT !.botTyre = t, !.nextTyre = t, !.revApplied = FALSE]
    ELSE [p EXCEPT !.botTyre = t]

mark_back_to_track_applied(p, t) ==
    [p EXCEPT !.backUntil = Later(@, t + Cooldown),
              !.idleUntil = Later(@, t + IdleWindow)]

mark_emergency_pitstop_requested(p, t) ==
    [p EXCEPT !.emergencyPending = TRUE,
              !.emergencyUntil = Later(@, t + Cooldown),
              !.lockUntil = Later(@, t + LockTime),
              !.idleUntil = Later(@, t + IdleWindow)]

Desired(p, current) == IF p.nextTyre = "Unspecified" THEN current ELSE p.nextTyre

\* Mutated form: only the revision decides.
tyre_pending_by_revision(p, current) == ~p.revApplied

\* Whether plan_pit_fix_tire_apply asks for tyres, in a stationary fix.
tyre_pending(p, current) ==
    \/ p.lastTyre # Desired(p, current)
    \/ ~p.revApplied

ForgetApplied(p) == [p EXCEPT !.lastTyre = Nil, !.revApplied = FALSE]

EntrySource(p) ==
    IF p.emergencyPending THEN "Emergency"
    ELSE IF p.request THEN "Requested" ELSE "BotDecision"

\* update_pit_state_from_runtime, from the sampled vehicle state.
OpenSession(p, seen) ==
    IF InFix(seen.place) /\ ~p.wasInFix
    THEN [p EXCEPT !.session = [source |-> EntrySource(p), before |-> seen.tyre],
                   !.emergencyPending = FALSE, !.request = FALSE]
    ELSE p

Newest(h) == IF Len(h) <= HistoryMax THEN h ELSE SubSeq(h, 1, HistoryMax)

CloseSession(p, seen) ==
    IF ~InFix(seen.place) /\ p.wasInFix /\ p.session # Nil
    THEN [p EXCEPT !.session = Nil,
                   !.history = Newest(<<[source |-> p.session.source,
                                         before |-> p.session.before,
                                         after |-> seen.tyre]>> \o @)]
    ELSE p

update_pit_state_from_runtime(p, seen) ==
    LET q == [CloseSession(OpenSession(p, seen), seen) EXCEPT !.wasInFix = InFix(seen.place)]
    IN  IF seen.place = "box" THEN q ELSE ForgetApplied(q)

-----------------------------------------------------------------------------
\* A car that just joined, or one whose race just started, when the launcher
\* has forced hard tyres on it and set them as the frontend's choice.
Init ==
    /\ pit \in {NewPit, set_next_tire_from_frontend(NewPit, Hard)}
    /\ vehicle = [place |-> "track", tyre |-> Hard, controls |-> "bot"]
    /\ hub = [pc |-> "idle", time |-> 0, seen |-> Nil, want |-> Nil]
    /\ frame = [time |-> 0, place |-> "track"]
    /\ cmd = [c \in Clients |-> Nil]
    /\ now = 0

(* The frame hub: collect_frame for this car. *)

HubTick ==
    /\ hub.pc = "idle"
    /\ hub' = [hub EXCEPT !.pc = "read", !.time = now]
    /\ UNCHANGED <<pit, vehicle, frame, cmd, now>>

HubRead ==
    /\ hub.pc = "read"
    /\ hub' = [hub EXCEPT !.pc = "plan",
                          !.seen = [place |-> vehicle.place, tyre |-> vehicle.tyre]]
    /\ UNCHANGED <<pit, vehicle, frame, cmd, now>>

HubPlan ==
    /\ hub.pc = "plan"
    /\ IF hub.seen.place # "box"
       THEN /\ pit' = ForgetApplied(pit)
            /\ hub' = [hub EXCEPT !.pc = "update"]
       ELSE /\ UNCHANGED pit
            /\ hub' = IF tyre_pending(pit, hub.seen.tyre)
                      THEN [hub EXCEPT !.pc = "apply", !.want = Desired(pit, hub.seen.tyre)]
                      ELSE [hub EXCEPT !.pc = "update"]
    /\ UNCHANGED <<vehicle, frame, cmd, now>>

\* set_vehicle_tyre_type: refused unless the vehicle stands in the fix zone.
HubApply ==
    /\ hub.pc = "apply"
    /\ IF vehicle.place = "box"
       THEN /\ vehicle' = [vehicle EXCEPT !.tyre = hub.want]
            /\ hub' = [hub EXCEPT !.pc = "mark"]
       ELSE /\ UNCHANGED vehicle
            /\ hub' = [hub EXCEPT !.pc = "update", !.want = Nil]
    /\ UNCHANGED <<pit, frame, cmd, now>>

\* mark_pit_fix_tire_applied: the revision recorded is the one of this moment.
HubMark ==
    /\ hub.pc = "mark"
    /\ pit' = [pit EXCEPT !.lastTyre = hub.want, !.revApplied = TRUE]
    /\ hub' = [hub EXCEPT !.pc = "update", !.want = Nil]
    /\ UNCHANGED <<vehicle, frame, cmd, now>>

\* Mutated form: the session is opened from the vehicle as it is now.
HubUpdateResampled ==
    /\ hub.pc = "update"
    /\ pit' = update_pit_state_from_runtime(pit, [hub.seen EXCEPT !.tyre = vehicle.tyre])
    /\ hub' = IF pit.idleUntil > hub.time \/ pit.lockUntil > hub.time
              THEN [hub EXCEPT !.pc = "enforce",
                               !.want = IF pit.lockUntil > hub.time THEN "hold" ELSE "idle"]
              ELSE [hub EXCEPT !.pc = "publish"]
    /\ UNCHANGED <<vehicle, frame, cmd, now>>

\* Mutated form: only the idle window is enforced, not the lock.
HubUpdateNoLock ==
    /\ hub.pc = "update"
    /\ pit' = update_pit_state_from_runtime(pit, hub.seen)
    /\ hub' = IF pit.idleUntil > hub.time
              THEN [hub EXCEPT !.pc = "enforce",
                               !.want = IF pit.lockUntil > hub.time THEN "hold" ELSE "idle"]
              ELSE [hub EXCEPT !.pc = "publish"]
    /\ UNCHANGED <<vehicle, frame, cmd, now>>

HubUpdate ==
    /\ hub.pc = "update"
    /\ pit' = update_pit_state_from_runtime(pit, hub.seen)
    /\ hub' = IF pit.idleUntil > hub.time \/ pit.lockUntil > hub.time
              THEN [hub EXCEPT !.pc = "enforce",
                               !.want = IF pit.lockUntil > hub.time THEN "hold" ELSE "idle"]
              ELSE [hub EXCEPT !.pc = "publish"]
    /\ UNCHANGED <<vehicle, frame, cmd, now>>

\* Idle controls, with the brake on during an emergency lock.
HubEnforce ==
    /\ hub.pc = "enforce"
    /\ vehicle' = [vehicle EXCEPT !.controls = hub.want]
    /\ hub' = [hub EXCEPT !.pc = "publish", !.want = Nil]
    /\ UNCHANGED <<pit, frame, cmd, now>>

HubPublish ==
    /\ hub.pc = "publish"
    /\ frame' = [time |-> hub.time, place |-> hub.seen.place]
    /\ hub' = [hub EXCEPT !.pc = "idle", !.seen = Nil]
    /\ UNCHANGED <<pit, vehicle, cmd, now>>

-----------------------------------------------------------------------------
(* Commands.  The checks read the latest frame and the pit state at once; the *)
(* teleport is awaited; the mark follows, with the time of the checked frame. *)

Finish(c) == cmd' = [cmd EXCEPT ![c] = Nil]

BeginBackToTrack(c) ==
    /\ <<c, "back">> \in Commands
    /\ c # "monitor"
    /\ cmd[c] = Nil
    /\ pit.backUntil <= frame.time
    /\ ~InPit(frame.place)
    /\ cmd' = [cmd EXCEPT ![c] = [op |-> "back", at |-> frame.time, pc |-> "move"]]
    /\ UNCHANGED <<pit, vehicle, hub, frame, now>>

\* Mutated form: the cooldown is not looked at.
BeginEmergencyNoCooldown(c) ==
    /\ <<c, "emergency">> \in Commands
    /\ cmd[c] = Nil
    /\ c # "monitor" => ~InPit(frame.place)
    /\ cmd' = [cmd EXCEPT ![c] = [op |-> "emergency", at |-> frame.time, pc |-> "move"]]
    /\ UNCHANGED <<pit, vehicle, hub, frame, now>>

\* The exit monitor's emergency (bot lost for good) is not checked.
BeginEmergency(c) ==
    /\ <<c, "emergency">> \in Commands
    /\ cmd[c] = Nil
    /\ c # "monitor" => ~InPit(frame.place) /\ pit.emergencyUntil <= frame.time
    /\ cmd' = [cmd EXCEPT ![c] = [op |-> "emergency", at |-> frame.time, pc |-> "move"]]
    /\ UNCHANGED <<pit, vehicle, hub, frame, now>>

Moving(c) == cmd[c] # Nil /\ cmd[c].pc = "move"

Teleport(c) ==
    /\ Moving(c)
    /\ \E p \in (IF cmd[c].op = "back" THEN {"track"} ELSE {"fix", "box"}) :
          vehicle' = [vehicle EXCEPT !.place = p]
    /\ cmd' = [cmd EXCEPT ![c].pc = "mark"]
    /\ UNCHANGED <<pit, hub, frame, now>>

\* The engine refuses: the command is rejected and marks nothing.
TeleportRefused(c) ==
    /\ Moving(c)
    /\ Finish(c)
    /\ UNCHANGED <<pit, vehicle, hub, frame, now>>

MarkTeleport(c) ==
    /\ cmd[c] # Nil /\ cmd[c].pc = "mark"
    /\ pit' = IF cmd[c].op = "back"
              THEN mark_back_to_track_applied(pit, cmd[c].at)
              ELSE mark_emergency_pitstop_requested(pit, cmd[c].at)
    /\ Finish(c)
    /\ UNCHANGED <<vehicle, hub, frame, now>>

RequestPitstop ==
    /\ <<"frontend", "request">> \in Commands
    /\ "frontend" \in Clients /\ cmd["frontend"] = Nil
    /\ \E active \in BOOLEAN : pit' = [pit EXCEPT !.request = active]
    /\ UNCHANGED <<vehicle, hub, frame, cmd, now>>

SetNextPitTireType(c) ==
    /\ <<c, "tyre">> \in Commands
    /\ cmd[c] = Nil
    /\ \E t \in Choices :
          \/ c = "frontend" /\ pit' = set_next_tire_from_frontend(pit, t)
          \/ c = "bot" /\ pit' = set_next_tire_from_bot(pit, t)
    /\ UNCHANGED <<vehicle, hub, frame, cmd, now>>

\* The bot's controls are replaced by a full brake during the lock.
ControlsCheck(c) ==
    /\ <<c, "controls">> \in Commands
    /\ c = "bot" /\ cmd[c] = Nil
    /\ cmd' = [cmd EXCEPT ![c] =
                 [op |-> "controls", at |-> frame.time, pc |-> "apply",
                  controls |-> IF pit.lockUntil > frame.time THEN "hold" ELSE "bot"]]
    /\ UNCHANGED <<pit, vehicle, hub, frame, now>>

ControlsApply(c) ==
    /\ cmd[c] # Nil /\ cmd[c].pc = "apply"
    /\ vehicle' = [vehicle EXCEPT !.controls = cmd[c].controls]
    /\ Finish(c)
    /\ UNCHANGED <<pit, hub, frame, now>>

-----------------------------------------------------------------------------
\* The simulation moves the vehicle; a braked one only comes to rest.
Neighbours == [track |-> {"lane"}, lane |-> {"track", "fix"},
               fix |-> {"lane", "box"}, box |-> {"fix"}]

Drive ==
    /\ \E p \in Neighbours[vehicle.place] :
          /\ vehicle.controls = "hold" => p = "box"
          /\ vehicle' = [vehicle EXCEPT !.place = p]
    /\ UNCHANGED <<pit, hub, frame, cmd, now>>

AdvanceClock ==
    /\ now < MaxTime
    /\ now' = now + 1
    /\ UNCHANGED <<pit, vehicle, hub, frame, cmd>>

Hub == HubTick \/ HubRead \/ HubPlan \/ HubApply \/ HubMark \/ HubUpdate
       \/ HubEnforce \/ HubPublish

Client(c) ==
    \/ BeginBackToTrack(c) \/ BeginEmergency(c)
    \/ Teleport(c) \/ TeleportRefused(c) \/ MarkTeleport(c)
    \/ SetNextPitTireType(c)
    \/ ControlsCheck(c) \/ ControlsApply(c)

Next == Hub \/ (\E c \in Clients : Client(c)) \/ RequestPitstop \/ Drive \/ AdvanceClock

Spec == Init /\ [][Next]_vars

\* The hub has its own timer; clients, vehicle and clock owe nothing.
FairSpec == Spec /\ WF_vars(Hub)

-----------------------------------------------------------------------------
(* Properties. *)

Pits == [request: BOOLEAN, emergencyPending: BOOLEAN,
         lockUntil: Nat, backUntil: Nat, emergencyUntil: Nat, idleUntil: Nat,
         mode: {"Auto", "Manual"}, botTyre: Choices \cup {Nil}, nextTyre: Choices,
         lastTyre: Tyres \cup {Nil}, revApplied: BOOLEAN, wasInFix: BOOLEAN,
         session: Sessions \cup {Nil},
         history: Seq([source: Sources, before: Tyres, after: Tyres])]

Sample == [place: Places, tyre: Tyres]

\* What the collection holds at each of its steps.
Hubs ==
         [pc: {"idle", "read"}, time: Nat, seen: {Nil}, want: {Nil}]
    \cup [pc: {"plan", "update", "publish"}, time: Nat, seen: Sample, want: {Nil}]
    \cup [pc: {"apply", "mark"}, time: Nat, seen: Sample, want: Tyres]
    \cup [pc: {"enforce"}, time: Nat, seen: Sample, want: {"idle", "hold"}]

Cmds ==
         [op: {"back", "emergency"}, at: Nat, pc: {"move", "mark"}]
    \cup [op: {"controls"}, at: Nat, pc: {"apply"}, controls: {"bot", "hold"}]

\* Types, the bound on the pit history included.
TypeOK ==
    /\ pit \in Pits
    /\ Len(pit.history) <= HistoryMax
    /\ vehicle \in [place: Places, tyre: Tyres, controls: {"bot", "idle", "hold"}]
    /\ hub \in Hubs
    /\ frame \in [time: Nat, place: Places]
    /\ cmd \in [Clients -> Cmds \cup {Nil}]
    /\ now \in Nat

\* The tyres the store believes done are on the car: when no further change is
\* pending for this stop, the vehicle wears the chosen tyres, although choices
\* arrive between the hub's plan, its engine call and its mark, and the mark
\* records a revision the plan never saw.
NoLostTyreChoice ==
    pit.lastTyre # Nil /\ ~tyre_pending(pit, vehicle.tyre)
        => vehicle.tyre = Desired(pit, vehicle.tyre)

\* The inductive strengthening of NoLostTyreChoice.  Outside the window between
\* the engine call and its mark, what the store recorded is on the car; inside
\* it, what the hub asked for is; and from the plan on, the choice the plan saw
\* is still the current one unless the revision has moved, which makes the next
\* plan ask again.
TyreInv ==
    /\ pit.lastTyre # Nil /\ hub.pc # "mark" => vehicle.tyre = pit.lastTyre
    /\ hub.pc = "mark" => vehicle.tyre = hub.want
    /\ hub.pc \in {"apply", "mark"} =>
          ~pit.revApplied \/ pit.nextTyre \in {"Unspecified", hub.want}

\* When the team withdraws its choice the bot's latest wish is in force, also
\* one it made while overridden, and with it every later one.
WithdrawnChoiceYields ==
    pit.mode = "Auto" =>
        pit.nextTyre = IF pit.botTyre = Nil THEN "Unspecified" ELSE pit.botTyre

\* Consecutive records of the pit history fit together: a visit begins on the
\* tyres the visit before it ended on, although the hub samples the vehicle
\* before it changes the tyres, and visits between two frames go unseen.
HistoryChains ==
    \A i \in 1..(Len(pit.history) - 1) :
        pit.history[i].before = pit.history[i + 1].after

\* With a single source of commands, emergency pitstops are accepted at least
\* the cooldown apart (the cooldown is checked before the engine call and
\* started after it).
CooldownSpacing ==
    [][pit.emergencyUntil # 0 /\ pit'.emergencyUntil # pit.emergencyUntil
        => pit'.emergencyUntil >= pit.emergencyUntil + Cooldown]_vars

\* During an emergency lock the car is held, time and again: bot controls that
\* passed the lock check before the lock existed do not drive it for long.
LockHoldsCar ==
    (pit.lockUntil > now /\ vehicle.controls # "hold")
        ~> (pit.lockUntil <= now \/ vehicle.controls = "hold")

=============================================================================
