------------------------------ MODULE LocalRace ------------------------------
(***************************************************************************)
(* The standalone local race: the in-memory race store (LocalRaceState-    *)
(* Store), the admin handlers that drive it (LocalRaceAdminService), the   *)
(* 200 ms lifecycle task, the bots that join, and the part of the engine   *)
(* worker they share: its revision and its one local race world.           *)
(*                                                                         *)
(* A handler is a sequence of steps, one per await: the store and the      *)
(* worker are each atomic, a handler that talks to both is not.  Only      *)
(* equality of revisions is ever tested, so a held revision is represented *)
(* by whether it is still the current one; any successful compare-and-swap *)
(* makes every other held revision stale.  Race ids are fresh UUIDs: an id *)
(* may be drawn again only when nothing refers to it any more.             *)
(***************************************************************************)
EXTENDS Naturals, FiniteSets

CONSTANTS
    Admins,           \* concurrent admin RPC callers
    RaceIds,          \* pool of race ids
    Cars,             \* public car ids, one per join
    MaxParticipants,  \* max_participants of the race config
    StartSlots,       \* start positions of the map
    Countdowns,       \* countdown_seconds a caller may ask for
    Duration,         \* race_duration_sec
    MaxTime,          \* bound on the wall clock
    Nil

ASSUME RaceAssumption ==
    /\ MaxParticipants \in Nat \ {0}
    /\ StartSlots \in Nat \ {0}
    /\ Countdowns \subseteq Nat
    /\ Duration \in Nat \ {0}
    /\ MaxTime \in Nat
    /\ IsFiniteSet(Cars)
    /\ Nil \notin RaceIds

VARIABLES
    store,         \* LocalRaceState.active
    participants,  \* LocalRaceState.participants: index of each registered car
    nextIndex,     \* LocalRaceState.next_participant_index
    freeze,        \* LocalRaceState.finish_soft_freeze_applied
    engineRace,    \* the worker's active_local_race
    engineCars,    \* vehicles in that race's world
    driven,        \* vehicles whose last applied controls came from their bot
    rpc,           \* the admin request each caller has in flight
    tick,          \* the lifecycle task
    join,          \* each car's join and stream
    now            \* wall clock

engine == <<engineRace, engineCars, driven>>
raceStore == <<store, participants, nextIndex, freeze>>
vars == <<raceStore, engine, rpc, tick, join, now>>

Phases == {"Staging", "Countdown", "Running", "Finished", "Aborted"}
Times == 0..MaxTime
Race == [id: RaceIds, phase: Phases,
         countdownEnd: Times \cup {Nil}, plannedEnd: Times \cup {Nil}]

CreateRpcs == [op: {"create"}, race: RaceIds, fresh: BOOLEAN, pc: {"engine", "store"}]
StartRpcs == [op: {"start"}, race: RaceIds, fresh: BOOLEAN,
              pc: {"check", "update", "bump"}, secs: Countdowns, end: Times \cup {Nil}]
AbortRpcs == [op: {"abort"}, race: RaceIds, fresh: BOOLEAN, pc: {"update", "engine"}]
CloseRpcs == [op: {"close"}, race: RaceIds, fresh: BOOLEAN, pc: {"engine", "clear"},
              phase: {"Finished", "Aborted"}]
Rpcs == CreateRpcs \cup StartRpcs \cup AbortRpcs \cup CloseRpcs

ASSUME NilAssumption == Nil \notin Times /\ Nil \notin Race /\ Nil \notin Rpcs

JoinSteps == {"new", "spawn", "register", "slots", "place", "publish",
              "despawn", "unregister", "joined", "checked", "leaving", "left"}

-----------------------------------------------------------------------------
\* normalize_race_phase_at: one transition, by the clock.
Normalize(r) ==
    IF r.phase = "Countdown" /\ r.countdownEnd # Nil /\ now >= r.countdownEnd
    THEN [r EXCEPT !.phase = "Running",
                   !.plannedEnd = IF @ = Nil THEN r.countdownEnd + Duration ELSE @]
    ELSE IF r.phase = "Running" /\ r.plannedEnd # Nil /\ now >= r.plannedEnd
    THEN [r EXCEPT !.phase = "Finished"]
    ELSE r

Holds(id) == store # Nil /\ store.id = id
Phase == Normalize(store).phase
gameplay_commands_closed(id) == Holds(id) /\ Phase # "Running"

\* A successful compare-and-swap on the worker: all other revisions go stale.
Stale(q) == IF q = Nil THEN Nil ELSE [q EXCEPT !.fresh = FALSE]
Bump == /\ rpc' = [a \in Admins |-> Stale(rpc[a])]
        /\ tick' = [tick EXCEPT !.fresh = FALSE]
BumpAnd(a, q) == /\ rpc' = [b \in Admins |-> IF b = a THEN q ELSE Stale(rpc[b])]
                 /\ tick' = [tick EXCEPT !.fresh = FALSE]

Step(a, q) == rpc' = [rpc EXCEPT ![a] = q] /\ UNCHANGED tick
Done(a) == Step(a, Nil)

Init ==
    /\ store = Nil
    /\ participants = [k \in Cars |-> 0]
    /\ nextIndex = 1
    /\ freeze = FALSE
    /\ engineRace = Nil
    /\ engineCars = {}
    /\ driven = {}
    /\ rpc = [a \in Admins |-> Nil]
    /\ tick = [pc |-> "idle", race |-> Nil, fresh |-> FALSE, cars |-> {}, ok |-> TRUE]
    /\ join = [k \in Cars |-> [pc |-> "new", race |-> Nil, index |-> 0, slot |-> 0]]
    /\ now = 0

ResetParticipants ==
    /\ participants' = [k \in Cars |-> 0]
    /\ nextIndex' = 1
    /\ freeze' = FALSE

-----------------------------------------------------------------------------
(* create_local_race *)

Referenced(id) ==
    \/ Holds(id)
    \/ engineRace = id
    \/ tick.race = id
    \/ \E a \in Admins : rpc[a] # Nil /\ rpc[a].race = id
    \/ \E k \in Cars : join[k].race = id

BeginCreate(a, id) ==
    /\ rpc[a] = Nil
    /\ ~Referenced(id)
    /\ Step(a, [op |-> "create", race |-> id, fresh |-> TRUE, pc |-> "engine"])
    /\ UNCHANGED <<raceStore, engine, join, now>>

At(a, op, pc) == rpc[a] # Nil /\ rpc[a].op = op /\ rpc[a].pc = pc

CreateEngine(a) ==
    /\ At(a, "create", "engine")
    /\ IF rpc[a].fresh /\ engineRace = Nil
       THEN /\ engineRace' = rpc[a].race
            /\ BumpAnd(a, [rpc[a] EXCEPT !.pc = "store", !.fresh = FALSE])
       ELSE Done(a) /\ UNCHANGED engineRace
    /\ UNCHANGED <<raceStore, engineCars, driven, join, now>>

\* set_active_race replaces whatever race the store holds.
CreateStore(a) ==
    /\ At(a, "create", "store")
    /\ store' = [id |-> rpc[a].race, phase |-> "Staging",
                 countdownEnd |-> Nil, plannedEnd |-> Nil]
    /\ ResetParticipants
    /\ Done(a)
    /\ UNCHANGED <<engine, join, now>>

-----------------------------------------------------------------------------
(* start_local_race_countdown: the handler's first step reads the runtime    *)
(* revision and stops unless it is the expected one.                         *)

Horizon(s) == now + s + Duration <= MaxTime

BeginStart(a, id, s) ==
    /\ rpc[a] = Nil
    /\ Horizon(s)
    /\ Holds(id)
    /\ Step(a, [op |-> "start", race |-> id, fresh |-> TRUE, pc |-> "check",
                secs |-> s, end |-> Nil])
    /\ UNCHANGED <<raceStore, engine, join, now>>

\* Mutated form: the staging check is dropped.
StartCheckAnyPhase(a) ==
    /\ At(a, "start", "check")
    /\ IF Holds(rpc[a].race) /\ Horizon(rpc[a].secs)
       THEN Step(a, [rpc[a] EXCEPT !.pc = "update", !.end = now + rpc[a].secs])
       ELSE Done(a)
    /\ UNCHANGED <<raceStore, engine, join, now>>

StartCheck(a) ==
    /\ At(a, "start", "check")
    /\ IF Holds(rpc[a].race) /\ Phase = "Staging" /\ Horizon(rpc[a].secs)
       THEN Step(a, [rpc[a] EXCEPT !.pc = "update", !.end = now + rpc[a].secs])
       ELSE Done(a)
    /\ UNCHANGED <<raceStore, engine, join, now>>

\* The closure given to update_active_race sets the phase whatever it is.
CountdownFrom(r, q) ==
    IF q.secs = 0
    THEN [r EXCEPT !.phase = "Running", !.countdownEnd = q.end,
                   !.plannedEnd = q.end + Duration]
    ELSE [r EXCEPT !.phase = "Countdown", !.countdownEnd = q.end]

StartUpdate(a) ==
    /\ At(a, "start", "update")
    /\ IF Holds(rpc[a].race)
       THEN /\ store' = Normalize(CountdownFrom(Normalize(store), rpc[a]))
            /\ Step(a, [rpc[a] EXCEPT !.pc = "bump"])
       ELSE Done(a) /\ UNCHANGED store
    /\ UNCHANGED <<participants, nextIndex, freeze, engine, join, now>>

StartBump(a) ==
    /\ At(a, "start", "bump")
    /\ IF rpc[a].fresh THEN BumpAnd(a, Nil) ELSE Done(a)
    /\ UNCHANGED <<raceStore, engine, join, now>>

-----------------------------------------------------------------------------
(* abort_local_race *)

BeginAbort(a, id) ==
    /\ rpc[a] = Nil
    /\ Holds(id)
    /\ Step(a, [op |-> "abort", race |-> id, fresh |-> TRUE, pc |-> "update"])
    /\ UNCHANGED <<raceStore, engine, join, now>>

AbortUpdate(a) ==
    /\ At(a, "abort", "update")
    /\ IF Holds(rpc[a].race)
       THEN /\ store' = [Normalize(store) EXCEPT !.phase = "Aborted"]
            /\ Step(a, [rpc[a] EXCEPT !.pc = "engine"])
       ELSE Done(a) /\ UNCHANGED store
    /\ UNCHANGED <<participants, nextIndex, freeze, engine, join, now>>

\* deactivate_local_race: the world goes away with its vehicles.
DropWorld == engineRace' = Nil /\ engineCars' = {} /\ driven' = {}

AbortEngine(a) ==
    /\ At(a, "abort", "engine")
    /\ IF rpc[a].fresh /\ engineRace = rpc[a].race
       THEN DropWorld /\ BumpAnd(a, Nil)
       ELSE Done(a) /\ UNCHANGED engine
    /\ UNCHANGED <<raceStore, join, now>>

-----------------------------------------------------------------------------
(* close_local_race *)

BeginClose(a, id) ==
    /\ rpc[a] = Nil
    /\ Holds(id)
    /\ Phase \in {"Finished", "Aborted"}
    /\ Step(a, [op |-> "close", race |-> id, fresh |-> TRUE, pc |-> "engine",
                phase |-> Phase])
    /\ UNCHANGED <<raceStore, engine, join, now>>

\* A finished race's world is deactivated; for an aborted one the handler
\* only counts a revision, taking the world to be gone already.
CloseEngine(a) ==
    /\ At(a, "close", "engine")
    /\ LET q == [rpc[a] EXCEPT !.pc = "clear", !.fresh = FALSE] IN
       IF rpc[a].fresh /\ (rpc[a].phase = "Finished" => engineRace = rpc[a].race)
       THEN /\ BumpAnd(a, q)
            /\ IF rpc[a].phase = "Finished" THEN DropWorld ELSE UNCHANGED engine
       ELSE Done(a) /\ UNCHANGED engine
    /\ UNCHANGED <<raceStore, join, now>>

CloseClear(a) ==
    /\ At(a, "close", "clear")
    /\ IF Holds(rpc[a].race)
       THEN store' = Nil /\ ResetParticipants
       ELSE UNCHANGED raceStore
    /\ Done(a)
    /\ UNCHANGED <<engine, join, now>>

-----------------------------------------------------------------------------
(* The lifecycle task: reconcile_local_race_lifecycle_tick. *)

\* Mutated form: only the countdown is reconciled.
TickReconcileCountdown ==
    /\ tick.pc = "idle"
    /\ store # Nil
    /\ store.phase = "Countdown"
    /\ Normalize(store) # store
    /\ store' = Normalize(store)
    /\ tick' = [tick EXCEPT !.pc = "read", !.race = store.id]
    /\ UNCHANGED <<participants, nextIndex, freeze, engine, rpc, join, now>>

TickReconcile ==
    /\ tick.pc = "idle"
    /\ store # Nil
    /\ Normalize(store) # store
    /\ store' = Normalize(store)
    /\ freeze' = IF store'.phase = "Finished" THEN FALSE ELSE freeze
    /\ tick' = [tick EXCEPT !.pc = "read", !.race = store.id]
    /\ UNCHANGED <<participants, nextIndex, engine, rpc, join, now>>

\* Nothing to reconcile.
TickSteady ==
    /\ tick.pc = "idle"
    /\ store # Nil
    /\ Normalize(store) = store
    /\ tick' = [tick EXCEPT !.pc = "freeze"]
    /\ UNCHANGED <<raceStore, engine, rpc, join, now>>

\* bump_local_runtime_revision: only if the worker still runs that race.
TickRead ==
    /\ tick.pc = "read"
    /\ tick' = IF engineRace = tick.race
               THEN [tick EXCEPT !.pc = "bump", !.fresh = TRUE]
               ELSE [tick EXCEPT !.pc = "freeze"]
    /\ UNCHANGED <<raceStore, engine, rpc, join, now>>

TickBump ==
    /\ tick.pc = "bump"
    /\ tick' = [tick EXCEPT !.pc = "freeze", !.fresh = FALSE]
    /\ rpc' = IF tick.fresh THEN [a \in Admins |-> Stale(rpc[a])] ELSE rpc
    /\ UNCHANGED <<raceStore, engine, join, now>>

FreezePending == store # Nil /\ ~freeze /\ Phase = "Finished"

Published(id) == {k \in Cars : join[k].race = id /\ join[k].pc \in {"joined", "checked", "leaving"}}

\* finished_race_pending_soft_freeze, then the list of the race's cars.
TickFreeze ==
    /\ tick.pc = "freeze"
    /\ tick' = IF FreezePending
               THEN [tick EXCEPT !.pc = "apply", !.race = store.id, !.ok = TRUE,
                                 !.cars = Published(store.id)]
               ELSE [tick EXCEPT !.pc = "idle", !.race = Nil]
    /\ UNCHANGED <<raceStore, engine, rpc, join, now>>

InWorld(id, k) == engineRace = id /\ k \in engineCars

TickApply(k) ==
    /\ tick.pc = "apply"
    /\ k \in tick.cars
    /\ tick' = [tick EXCEPT !.cars = @ \ {k}, !.ok = @ /\ InWorld(tick.race, k)]
    /\ driven' = IF InWorld(tick.race, k) THEN driven \ {k} ELSE driven
    /\ UNCHANGED <<raceStore, engineRace, engineCars, rpc, join, now>>

TickMark ==
    /\ tick.pc = "apply"
    /\ tick.cars = {}
    /\ freeze' = (freeze \/ (tick.ok /\ Holds(tick.race)))
    /\ tick' = [tick EXCEPT !.pc = "idle", !.race = Nil]
    /\ UNCHANGED <<store, participants, nextIndex, engine, rpc, join, now>>

-----------------------------------------------------------------------------
(* local_race_join *)

Move(k, pc) == join' = [join EXCEPT ![k].pc = pc]
Gone == [pc |-> "left", race |-> Nil, index |-> 0, slot |-> 0]
Leave(k) == join' = [join EXCEPT ![k] = Gone]

BeginJoin(k) ==
    /\ join[k].pc = "new"
    /\ store # Nil
    /\ join' = [join EXCEPT ![k] = [pc |-> "spawn", race |-> store.id,
                              index |-> 0, slot |-> 0]]
    /\ UNCHANGED <<raceStore, engine, rpc, tick, now>>

JoinSpawn(k) ==
    /\ join[k].pc = "spawn"
    /\ IF engineRace = join[k].race
       THEN engineCars' = engineCars \cup {k} /\ Move(k, "register")
       ELSE UNCHANGED engineCars /\ Leave(k)
    /\ UNCHANGED <<raceStore, engineRace, driven, rpc, tick, now>>

Registered == {k \in Cars : participants[k] # 0}

CanRegister(id) ==
    /\ Holds(id)
    /\ Phase = "Staging"
    /\ Cardinality(Registered) < MaxParticipants

\* Mutated form: a refused join leaves its vehicle behind.
JoinRegisterNoDespawn(k) ==
    /\ join[k].pc = "register"
    /\ IF CanRegister(join[k].race)
       THEN /\ participants' = [participants EXCEPT ![k] = nextIndex]
            /\ nextIndex' = nextIndex + 1
            /\ join' = [join EXCEPT ![k].pc = "slots", ![k].index = nextIndex]
       ELSE Leave(k) /\ UNCHANGED <<participants, nextIndex>>
    /\ store' = IF Holds(join[k].race) THEN Normalize(store) ELSE store
    /\ UNCHANGED <<freeze, engine, rpc, tick, now>>

\* A refused registration goes on to take the vehicle back out.
JoinRegister(k) ==
    /\ join[k].pc = "register"
    /\ IF CanRegister(join[k].race)
       THEN /\ participants' = [participants EXCEPT ![k] = nextIndex]
            /\ nextIndex' = nextIndex + 1
            /\ join' = [join EXCEPT ![k].pc = "slots", ![k].index = nextIndex]
       ELSE Move(k, "despawn") /\ UNCHANGED <<participants, nextIndex>>
    /\ store' = IF Holds(join[k].race) THEN Normalize(store) ELSE store
    /\ UNCHANGED <<freeze, engine, rpc, tick, now>>

\* Fails only when the world is gone; the participant entry then stays.
JoinSlots(k) ==
    /\ join[k].pc = "slots"
    /\ IF engineRace = join[k].race
       THEN join' = [join EXCEPT ![k].pc = "place",
                                 ![k].slot = ((join[k].index - 1) % StartSlots) + 1]
       ELSE Leave(k)
    /\ UNCHANGED <<raceStore, engine, rpc, tick, now>>

JoinPlace(k) ==
    /\ join[k].pc = "place"
    /\ Move(k, IF InWorld(join[k].race, k) THEN "publish" ELSE "despawn")
    /\ UNCHANGED <<raceStore, engine, rpc, tick, now>>

\* despawn_car_in: the worker takes the vehicle out if it still runs that race.
Despawn(k) ==
    /\ engineCars' = IF engineRace = join[k].race THEN engineCars \ {k} ELSE engineCars
    /\ driven' = driven \cap engineCars'
    /\ UNCHANGED engineRace

JoinDespawn(k) ==
    /\ join[k].pc = "despawn"
    /\ Despawn(k)
    /\ IF join[k].index = 0 THEN Leave(k) ELSE Move(k, "unregister")
    /\ UNCHANGED <<raceStore, rpc, tick, now>>

JoinUnregister(k) ==
    /\ join[k].pc = "unregister"
    /\ participants' = [participants EXCEPT ![k] = 0]
    /\ Leave(k)
    /\ UNCHANGED <<store, nextIndex, freeze, engine, rpc, tick, now>>

JoinPublish(k) ==
    /\ join[k].pc = "publish"
    /\ Move(k, "joined")
    /\ UNCHANGED <<raceStore, engine, rpc, tick, now>>

\* A bot sends controls: the phase is checked first, the controls reach the
\* worker in a later step.
DriveCheck(k) ==
    /\ join[k].pc = "joined"
    /\ ~gameplay_commands_closed(join[k].race)
    /\ Move(k, "checked")
    /\ UNCHANGED <<raceStore, engine, rpc, tick, now>>

DriveApply(k) ==
    /\ join[k].pc = "checked"
    /\ IF InWorld(join[k].race, k)
       THEN driven' = driven \cup {k} /\ Move(k, "joined")
       ELSE UNCHANGED driven /\ Move(k, "leaving")
    /\ UNCHANGED <<raceStore, engineRace, engineCars, rpc, tick, now>>

\* The bot's stream ends (cleanup_participant_car): its car leaves the world,
\* then the runtime store; its participant entry stays.
Disconnect(k) ==
    /\ join[k].pc = "joined"
    /\ Move(k, "leaving")
    /\ Despawn(k)
    /\ UNCHANGED <<raceStore, rpc, tick, now>>

RemoveCar(k) ==
    /\ join[k].pc = "leaving"
    /\ Leave(k)
    /\ UNCHANGED <<raceStore, engine, rpc, tick, now>>

-----------------------------------------------------------------------------
\* Another service changes the runtime: sandbox operations count revisions.
OtherServiceBumps ==
    /\ \E a \in Admins : rpc[a] # Nil /\ rpc[a].fresh
    /\ Bump
    /\ UNCHANGED <<raceStore, engine, join, now>>

AdvanceClock ==
    /\ now < MaxTime
    /\ now' = now + 1
    /\ UNCHANGED <<raceStore, engine, rpc, tick, join>>

Begin(a) ==
    \E id \in RaceIds :
        \/ BeginCreate(a, id)
        \/ \E s \in Countdowns : BeginStart(a, id, s)
        \/ BeginAbort(a, id)
        \/ BeginClose(a, id)

Handle(a) ==
    \/ CreateEngine(a) \/ CreateStore(a)
    \/ StartCheck(a) \/ StartUpdate(a) \/ StartBump(a)
    \/ AbortUpdate(a) \/ AbortEngine(a)
    \/ CloseEngine(a) \/ CloseClear(a)

Tick ==
    \/ TickReconcile \/ TickSteady \/ TickRead \/ TickBump \/ TickFreeze \/ TickMark
    \/ \E k \in Cars : TickApply(k)

Bot(k) ==
    \/ BeginJoin(k) \/ JoinSpawn(k) \/ JoinRegister(k) \/ JoinSlots(k)
    \/ JoinPlace(k) \/ JoinDespawn(k) \/ JoinUnregister(k) \/ JoinPublish(k)
    \/ DriveCheck(k) \/ DriveApply(k) \/ Disconnect(k) \/ RemoveCar(k)

Next ==
    \/ \E a \in Admins : Begin(a) \/ Handle(a)
    \/ Tick
    \/ \E k \in Cars : Bot(k)
    \/ OtherServiceBumps
    \/ AdvanceClock

Spec == Init /\ [][Next]_vars

\* The lifecycle task has its own timer, a handler or a cleanup that started
\* runs to its end, and time passes.  Callers and bots owe nothing.
Fairness ==
    /\ WF_vars(Tick)
    /\ WF_vars(AdvanceClock)
    /\ \A a \in Admins : WF_vars(Handle(a))
    /\ \A k \in Cars : WF_vars(RemoveCar(k))
FairSpec == Spec /\ Fairness

-----------------------------------------------------------------------------
(* Properties. *)

TypeOK ==
    /\ store \in Race \cup {Nil}
    /\ participants \in [Cars -> 0..Cardinality(Cars)]
    /\ nextIndex \in 1..(Cardinality(Cars) + 1)
    /\ freeze \in BOOLEAN
    /\ engineRace \in RaceIds \cup {Nil}
    /\ engineCars \subseteq Cars
    /\ driven \subseteq engineCars
    /\ rpc \in [Admins -> Rpcs \cup {Nil}]
    /\ tick \in [pc: {"idle", "read", "bump", "freeze", "apply"},
                 race: RaceIds \cup {Nil}, fresh: BOOLEAN, cars: SUBSET Cars,
                 ok: BOOLEAN]
    /\ join \in [Cars -> [pc: JoinSteps, race: RaceIds \cup {Nil},
                          index: 0..Cardinality(Cars), slot: 0..StartSlots]]
    /\ now \in Times

\* Two bots whose joins ran side by side never start on the same grid slot,
\* as long as the race takes no more participants than the map has slots
\* (register_participant hands out the index the slot is computed from, the
\* slot is applied steps later).
GridSlotsDistinct ==
    MaxParticipants <= StartSlots =>
        \A j, k \in Cars :
            /\ j # k
            /\ join[j].race = engineRace /\ join[k].race = engineRace
            /\ join[j].slot # 0 /\ join[k].slot # 0
            => join[j].slot # join[k].slot

\* Every vehicle in the race's world belongs to a bot that is joining or has
\* joined that race: a join refused half-way (limit, race started, aborted or
\* replaced meanwhile) leaves no driverless vehicle on the track.
NoOrphanVehicles ==
    \A k \in engineCars :
        join[k].race = engineRace /\ join[k].pc \notin {"new", "spawn", "left"}

Rank == [p \in Phases |->
            CASE p = "Staging" -> 0 [] p = "Countdown" -> 1 [] p = "Running" -> 2
              [] p = "Finished" -> 3 [] p = "Aborted" -> 4]

\* With one admin at a time a race never goes back to an earlier phase,
\* whatever the lifecycle task and the joins, which also write the phase, do.
PhaseOrder ==
    [][store # Nil /\ store' # Nil /\ store'.id = store.id
        => Rank[store'.phase] >= Rank[store.phase]]_vars

\* A race is finished only after running its whole configured duration from
\* the end of its countdown, however late handlers and lifecycle task run.
RunsFullDuration ==
    store # Nil /\ store.phase = "Finished" =>
        store.countdownEnd # Nil /\ now >= store.countdownEnd + Duration

\* A started race ends: the lifecycle task carries it to Finished with no
\* client polling it, unless it is aborted or replaced.
StartedRaceEnds ==
    \A id \in RaceIds :
        (Holds(id) /\ store.phase \in {"Countdown", "Running"})
            ~> (~Holds(id) \/ store.phase \in {"Finished", "Aborted"})

\* The finish freeze reaches every finished race, although reconcile resets
\* the flag and cars may leave while it is applied.
FinishedRaceFreezes ==
    \A id \in RaceIds :
        (Holds(id) /\ store.phase = "Finished")
            ~> (~Holds(id) \/ store.phase = "Aborted" \/ freeze)

\* The race as a whole, at every moment: cars have a grid slot each, no vehicle is
\* without its bot, and no finish comes early.
RaceIsSound == TypeOK /\ GridSlotsDistinct /\ NoOrphanVehicles /\ RunsFullDuration

\* The lifecycle task alone brings a started race to its end and then stops its cars.
RaceRunsItsCourse == StartedRaceEnds /\ FinishedRaceFreezes

=============================================================================
