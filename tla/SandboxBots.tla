---------------------------- MODULE SandboxBots ----------------------------
\* Team bots in the official sandboxes: the OfficialSandboxCommandService of
\* services/submission.rs.  A join spawns a vehicle, registers a car in the
\* runtime store and starts the team's bot container; a leave, the container's
\* exit monitor and a poller take all of it down again; the poller also swaps
\* the container when the team selects another slot and the car stands in the
\* pit.  All of these hold join_command_lock, and await while they hold it.
\* The frame hub, the bots' participant streams, the engine worker and docker
\* do not take that lock: their steps fall between any two awaits.
\*
\* A join's public car id and engine vehicle id are both fresh and are modelled
\* by one number.  The temporary "switching-..." container id is not modelled:
\* it is written and restored under the lock and read only under the lock.

EXTENDS Integers, FiniteSets

CONSTANTS
    Teams,
    Sandboxes,
    Slots,          \* slots that hold a succeeded submission
    MaxCars,        \* bound: vehicles ever spawned
    MaxBots,        \* bound: containers ever started
    MaxActivations, \* bound: sandbox activations
    MaxCancels,     \* bound: commands whose caller goes away
    Nil             \* absence (None)

ASSUME BotsAssumption ==
    /\ MaxCars \in Nat /\ MaxBots \in Nat
    /\ MaxActivations \in Nat /\ MaxCancels \in Nat
    /\ Nil \notin Sandboxes /\ Nil \notin Slots /\ Nil \notin Nat

Cars == 1..MaxCars
BotIds == 1..MaxBots

VARIABLES
    active,     \* sandboxes with a running world
    activations,
    vehicle,    \* engine: car -> the sandbox its vehicle stands in, or Nil
    late,       \* despawn commands given up on (or not awaited) and still queued
    known,      \* store: known_cars
    target,     \* store: car_targets with car_engine_ids
    owner,      \* store: team of car_identity
    switching,  \* store: cars with bot_switch_in_progress
    registry,   \* join_registry: team -> join or Nil
    docker,     \* team -> the container of the team's name, or Nil
    refused,    \* teams whose last `docker rm -f` failed
    monitors,   \* exit monitors still waiting on their container
    capture,    \* log_capture_tasks: team -> container being followed, or Nil
    streams,    \* participant streams of bots
    selected,   \* persisted selected slot
    hub,        \* car the frame hub has decided to remove, or Nil
    lock,       \* the holder of join_command_lock and where it is, or Nil
    cars, bots, \* cars and containers created so far
    cancels,    \* commands cancelled so far
    dropped     \* cars and containers of joins cancelled half-way

store == <<known, target, owner, switching>>
engine == <<active, activations, vehicle, late>>
boxes == <<docker, refused, monitors, capture>>
counters == <<cars, bots, cancels, dropped>>
vars == <<active, activations, vehicle, late, known, target, owner, switching,
          registry, docker, refused, monitors, capture, streams, selected, hub,
          lock, cars, bots, cancels, dropped>>

Joins == [car: Cars, sandbox: Sandboxes, slot: Slots, bot: BotIds]
Bots == [id: BotIds, running: BOOLEAN, slot: Slots]

\* Where an operation stands when it awaits: the step it takes next.
Ops == {"join", "leave", "monitor", "reconcile", "switch"}
Steps == {"inspect", "container", "despawn", "forget", "orphans", "resolve",
          "spawn", "place", "known", "target", "start", "capture", "persist",
          "undo_container", "undo_despawn", "undo_forget",
          "swap", "follow"}
Holders == [op: Ops, at: Steps, team: Teams, sandbox: Sandboxes \cup {Nil},
            slot: Slots \cup {Nil}, car: Cars \cup {Nil}, failed: BOOLEAN]

\* None is no team and no record: Option types of the code.
ASSUME NilAssumption ==
    Nil \notin Teams /\ Nil \notin Joins /\ Nil \notin Bots /\ Nil \notin Holders

TypeOK ==
    /\ active \subseteq Sandboxes
    /\ activations \in 0..MaxActivations
    /\ vehicle \in [Cars -> Sandboxes \cup {Nil}]
    /\ late \subseteq Cars /\ known \subseteq Cars /\ switching \subseteq Cars
    /\ target \in [Cars -> Sandboxes \cup {Nil}]
    /\ owner \in [Cars -> Teams \cup {Nil}]
    /\ registry \in [Teams -> Joins \cup {Nil}]
    /\ docker \in [Teams -> Bots \cup {Nil}]
    /\ refused \subseteq Teams
    /\ monitors \subseteq [team: Teams, bot: BotIds]
    /\ capture \in [Teams -> BotIds \cup {Nil}]
    /\ streams \subseteq [car: Cars, team: Teams, bot: BotIds]
    /\ selected \in [Teams -> Slots \cup {Nil}]
    /\ hub \in Cars \cup {Nil}
    /\ lock \in Holders \cup {Nil}
    /\ cars \in 0..MaxCars /\ bots \in 0..MaxBots /\ cancels \in 0..MaxCancels
    /\ dropped \in [cars: SUBSET Cars, bots: SUBSET BotIds]

Init ==
    /\ active = {} /\ activations = 0
    /\ vehicle = [n \in Cars |-> Nil] /\ late = {}
    /\ known = {} /\ switching = {}
    /\ target = [n \in Cars |-> Nil] /\ owner = [n \in Cars |-> Nil]
    /\ registry = [t \in Teams |-> Nil]
    /\ docker = [t \in Teams |-> Nil] /\ refused = {}
    /\ monitors = {} /\ capture = [t \in Teams |-> Nil]
    /\ streams = {} /\ selected = [t \in Teams |-> Nil]
    /\ hub = Nil /\ lock = Nil /\ cars = 0 /\ bots = 0
    /\ cancels = 0 /\ dropped = [cars |-> {}, bots |-> {}]

-----------------------------------------------------------------------------
\* Shared helpers.

Running(t) == docker[t] # Nil /\ docker[t].running

\* Whether the store still maps the car to a world and a vehicle.
CarPresent(n) == target[n] # Nil

\* RaceRuntimeStore::remove_car.
remove_car(n) ==
    /\ known' = known \ {n}
    /\ target' = [target EXCEPT ![n] = Nil]
    /\ owner' = [owner EXCEPT ![n] = Nil]
    /\ switching' = switching \ {n}

\* A despawn command under a timeout: executed, refused because vehicle or
\* world is gone, or given up on while the worker still has it queued (the
\* worker's queue is taken to have room, so that the command is in it).
Despawn(n) ==
    \/ vehicle' = [vehicle EXCEPT ![n] = Nil] /\ late' = late
    \/ vehicle[n] # Nil /\ late' = late \cup {n} /\ vehicle' = vehicle

Goto(step) == lock' = [lock EXCEPT !.at = step]
Release == lock' = Nil

At(step) == lock # Nil /\ lock.at = step
Team == lock.team
Join == registry[lock.team]

Hold(op, step, t, sb, slot) ==
    lock' = [op |-> op, at |-> step, team |-> t, sandbox |-> sb,
             slot |-> slot, car |-> Nil, failed |-> FALSE]

\* remove_bot_container: `docker rm -f` of the team's name, which docker may
\* refuse.
RemoveContainer(t) ==
    \/ docker' = [docker EXCEPT ![t] = Nil] /\ refused' = refused \ {t}
    \/ docker' = docker /\ refused' = refused \cup {t}

StopCapture(t) == capture' = [capture EXCEPT ![t] = Nil]

\* start_bot_container: remove the name, pull, run.  The removal may be refused;
\* pull or run may fail; run may time out although docker started the bot.
StartContainer(t, slot) ==
    /\ docker' = [docker EXCEPT ![t] =
                    [id |-> bots + 1, running |-> TRUE, slot |-> slot]]
    /\ refused' = refused \ {t}
    /\ bots' = bots + 1

StartFails(t, slot) ==
    \/ docker' = docker /\ refused' = refused \cup {t} /\ bots' = bots
    \/ docker' = [docker EXCEPT ![t] = Nil] /\ refused' = refused \ {t} /\ bots' = bots
    \/ StartContainer(t, slot)

-----------------------------------------------------------------------------
\* join_official_sandbox.

\* Takes the lock, reads the runtime state once, and looks at an existing join:
\* a live one is inspected, a broken one cleaned up.  The sandbox is kept only
\* if that one reading shows it active.
JoinBegin(t, sb, slot) ==
    /\ lock = Nil /\ cars < MaxCars /\ bots < MaxBots
    /\ Hold("join",
            IF registry[t] = Nil THEN "orphans"
            ELSE IF registry[t].sandbox \in active /\ CarPresent(registry[t].car)
                 THEN "inspect" ELSE "container",
            t, IF sb \in active THEN sb ELSE Nil, slot)
    /\ UNCHANGED <<engine, store, registry, boxes, streams, selected, hub, counters>>

\* The existing bot runs, or docker cannot tell: the join is refused.
JoinInspect ==
    /\ At("inspect") /\ lock.op = "join"
    /\ \/ Release
       \/ ~Running(Team) /\ Goto("container")
    /\ UNCHANGED <<engine, store, registry, boxes, streams, selected, hub, counters>>

\* cleanup_orphan_team_sandbox_cars, one car at a time: despawn, then forget.
IsOrphan(n, t) == n \in known /\ owner[n] = t /\ target[n] # Nil

CleanOrphan ==
    /\ At("orphans")
    /\ \E n \in Cars : IsOrphan(n, Team) /\ Despawn(n) /\ remove_car(n)
    /\ UNCHANGED <<active, activations, registry, boxes, streams, selected, hub,
                   lock, counters>>

OrphansDone ==
    /\ At("orphans")
    /\ ~ \E n \in Cars : IsOrphan(n, Team)
    /\ IF lock.op = "join" THEN Goto("resolve") ELSE Release
    /\ UNCHANGED <<engine, store, registry, boxes, streams, selected, hub, counters>>

\* The sandbox must have been active, the slot's submission and the two tokens
\* must be obtained.
JoinResolve ==
    /\ At("resolve")
    /\ \/ lock.sandbox # Nil /\ Goto("spawn")
       \/ Release
    /\ UNCHANGED <<engine, store, registry, boxes, streams, selected, hub, counters>>

JoinSpawn ==
    /\ At("spawn")
    /\ IF lock.sandbox \in active
       THEN /\ cars' = cars + 1
            /\ vehicle' = [vehicle EXCEPT ![cars + 1] = lock.sandbox]
            /\ lock' = [lock EXCEPT !.at = "place", !.car = cars + 1]
       ELSE Release /\ UNCHANGED <<cars, vehicle>>
    /\ UNCHANGED <<active, activations, late, store, registry, boxes, streams,
                   selected, hub, bots, cancels, dropped>>

\* Mutated form: a failed placement returns without despawning.
JoinPlaceLeavesVehicle ==
    /\ At("place")
    /\ \/ vehicle[lock.car] # Nil /\ Goto("known") /\ UNCHANGED vehicle
       \/ Release /\ UNCHANGED vehicle
    /\ UNCHANGED <<active, activations, late, store, registry, boxes, streams,
                   selected, hub, counters>>

\* Placing fails when the world is gone, and may fail otherwise; the vehicle is
\* then despawned, and no car has been registered yet.
JoinPlace ==
    /\ At("place")
    /\ \/ vehicle[lock.car] # Nil /\ Goto("known") /\ UNCHANGED vehicle
       \/ vehicle' = [vehicle EXCEPT ![lock.car] = Nil] /\ Release
    /\ UNCHANGED <<active, activations, late, store, registry, boxes, streams,
                   selected, hub, counters>>

\* The store's maps are filled one after the other, the known cars before the
\* targets; the frame hub, on another thread, may look in between.
JoinKnown ==
    /\ At("known")
    /\ owner' = [owner EXCEPT ![lock.car] = Team]
    /\ known' = known \cup {lock.car}
    /\ Goto("target")
    /\ UNCHANGED <<engine, target, switching, registry, boxes, streams, selected,
                   hub, counters>>

JoinTarget ==
    /\ At("target")
    /\ target' = [target EXCEPT ![lock.car] = lock.sandbox]
    /\ Goto("start")
    /\ UNCHANGED <<engine, known, owner, switching, registry, boxes, streams,
                   selected, hub, counters>>

JoinStart ==
    /\ At("start")
    /\ \/ StartContainer(Team, lock.slot) /\ Goto("capture")
       \/ StartFails(Team, lock.slot) /\ Goto("undo_container")
    /\ UNCHANGED <<engine, store, registry, monitors, capture, streams, selected,
                   hub, cars, cancels, dropped>>

\* Mutated form: the rollback forgets the container.
JoinCaptureLeavesBot ==
    /\ At("capture")
    /\ \/ capture' = [capture EXCEPT ![Team] = bots] /\ Goto("persist")
       \/ StopCapture(Team) /\ Goto("undo_despawn")
    /\ UNCHANGED <<engine, store, registry, docker, refused, monitors, streams,
                   selected, hub, counters>>

\* start_bot_log_capture follows the container just started.
JoinCapture ==
    /\ At("capture")
    /\ \/ capture' = [capture EXCEPT ![Team] = bots] /\ Goto("persist")
       \/ StopCapture(Team) /\ Goto("undo_container")
    /\ UNCHANGED <<engine, store, registry, docker, refused, monitors, streams,
                   selected, hub, counters>>

\* The selected slot is persisted; then the join is registered and its exit
\* monitor spawned, without an await in between.
JoinCommit ==
    /\ At("persist")
    /\ selected' = [selected EXCEPT ![Team] = lock.slot]
    /\ registry' = [registry EXCEPT ![Team] =
                      [car |-> lock.car, sandbox |-> lock.sandbox,
                       slot |-> lock.slot, bot |-> bots]]
    /\ monitors' = monitors \cup {[team |-> Team, bot |-> bots]}
    /\ Release
    /\ UNCHANGED <<engine, store, docker, refused, capture, streams, hub, counters>>

JoinPersistFails ==
    /\ At("persist")
    /\ StopCapture(Team)
    /\ Goto("undo_container")
    /\ UNCHANGED <<engine, store, registry, docker, refused, monitors, streams,
                   selected, hub, counters>>

\* rollback_join_runtime: container, vehicle, car.
UndoContainer ==
    /\ At("undo_container")
    /\ RemoveContainer(Team)
    /\ Goto("undo_despawn")
    /\ UNCHANGED <<engine, store, registry, monitors, capture, streams, selected,
                   hub, counters>>

UndoDespawn ==
    /\ At("undo_despawn")
    /\ Despawn(lock.car)
    /\ Goto("undo_forget")
    /\ UNCHANGED <<active, activations, store, registry, boxes, streams, selected,
                   hub, counters>>

UndoForget ==
    /\ At("undo_forget")
    /\ remove_car(lock.car)
    /\ Release
    /\ UNCHANGED <<engine, registry, boxes, streams, selected, hub, counters>>

-----------------------------------------------------------------------------
\* cleanup_join_state_locked: container and log capture, vehicle, then store and
\* registry.  A removal docker refuses is only logged.

CleanContainer ==
    /\ At("container")
    /\ RemoveContainer(Team)
    /\ StopCapture(Team)
    /\ Goto("despawn")
    /\ UNCHANGED <<engine, store, registry, monitors, streams, selected, hub,
                   counters>>

\* An inactive world answers with a text that is_sandbox_runtime_not_active does
\* not recognise, so the cleanup reports an error although it completes.
CleanDespawn ==
    /\ At("despawn")
    /\ Despawn(Join.car)
    /\ lock' = [lock EXCEPT !.at = "forget", !.failed = Join.sandbox \notin active]
    /\ UNCHANGED <<active, activations, store, registry, boxes, streams, selected,
                   hub, counters>>

CleanForget ==
    /\ At("forget")
    /\ remove_car(Join.car)
    /\ registry' = [registry EXCEPT ![Team] = Nil]
    /\ IF lock.op = "join" /\ ~lock.failed THEN Goto("orphans") ELSE Release
    /\ UNCHANGED <<engine, boxes, streams, selected, hub, counters>>

-----------------------------------------------------------------------------
\* leave_official_sandbox.
LeaveBegin(t) ==
    /\ lock = Nil
    /\ Hold("leave", IF registry[t] = Nil THEN "orphans" ELSE "container", t, Nil, Nil)
    /\ UNCHANGED <<engine, store, registry, boxes, streams, selected, hub, counters>>

\* The exit monitor of a container wakes when the container is gone, or when
\* waiting for it failed, which proves nothing and is settled by an inspection.
\* A monitor whose container is no longer the team's ends.
Gone(m) == ~(Running(m.team) /\ docker[m.team].id = m.bot)

MonitorWakes(m) ==
    /\ lock = Nil /\ m \in monitors
    /\ monitors' = monitors \ {m}
    /\ IF registry[m.team] # Nil /\ registry[m.team].bot = m.bot
       THEN \/ Gone(m) /\ Hold("monitor", "container", m.team, Nil, Nil)
            \/ Hold("monitor", "inspect", m.team, Nil, Nil)
       ELSE lock' = lock
    /\ UNCHANGED <<engine, store, registry, docker, refused, capture, streams,
                   selected, hub, counters>>

MonitorInspect ==
    /\ At("inspect") /\ lock.op = "monitor"
    /\ \/ Release
       \/ ~Running(Team) /\ Goto("container")
    /\ UNCHANGED <<engine, store, registry, boxes, streams, selected, hub, counters>>

\* Mutated form: only the container is looked at.
ReconcileBeginBlind(t) ==
    /\ lock = Nil /\ registry[t] # Nil
    /\ Hold("reconcile", "inspect", t, Nil, Nil)
    /\ UNCHANGED <<engine, store, registry, boxes, streams, selected, hub, counters>>

\* reconcile_join_liveness_for_team, called by the poller for every join.
ReconcileBegin(t) ==
    /\ lock = Nil /\ registry[t] # Nil
    /\ Hold("reconcile", IF CarPresent(registry[t].car) THEN "inspect" ELSE "container",
            t, Nil, Nil)
    /\ UNCHANGED <<engine, store, registry, boxes, streams, selected, hub, counters>>

\* A dead container is cleaned up; a running one without log capture gets a new
\* capture, if that can be started.
ReconcileInspect ==
    /\ At("inspect") /\ lock.op = "reconcile"
    /\ \/ ~Running(Team) /\ Goto("container") /\ UNCHANGED capture
       \/ Running(Team) /\ capture[Team] = Nil /\ Release
            /\ capture' = [capture EXCEPT ![Team] = Join.bot]
       \/ Running(Team) /\ Release /\ UNCHANGED capture
    /\ UNCHANGED <<engine, store, registry, docker, refused, monitors, streams,
                   selected, hub, counters>>

\* docker cannot tell: the reconciliation ends with an error.
ReconcileFails ==
    /\ At("inspect") /\ lock.op = "reconcile"
    /\ Release
    /\ UNCHANGED <<engine, store, registry, boxes, streams, selected, hub, counters>>

\* try_apply_pending_selected_slot_for_team: with the car in the pit and another
\* slot selected, the container is replaced while the car is kept.  The car's pit
\* state may outlive the car (the hub updates it after reading the engine), so
\* any join's car may be found in the fix zone; the flag is part of the identity.
SwitchBegin(t) ==
    /\ lock = Nil /\ registry[t] # Nil /\ bots < MaxBots
    /\ selected[t] \notin {Nil, registry[t].slot}
    /\ switching' = switching \cup {n \in {registry[t].car} : owner[n] # Nil}
    /\ Hold("switch", "swap", t, Nil, selected[t])
    /\ UNCHANGED <<engine, known, target, owner, registry, boxes, streams, selected,
                   hub, counters>>

SwitchOver == switching' = switching \ {Join.car}

SwitchSwap ==
    /\ At("swap")
    /\ \/ /\ StartContainer(Team, lock.slot) /\ Goto("follow")
          /\ UNCHANGED switching
       \/ /\ \/ StartFails(Team, lock.slot)
             \/ UNCHANGED <<docker, refused, bots>>   \* a token was not issued
          /\ SwitchOver /\ Release
    /\ UNCHANGED <<engine, known, target, owner, registry, monitors, capture,
                   streams, selected, hub, cars, cancels, dropped>>

\* The old capture is stopped and the new container followed; only then is the
\* join rewritten.  A failure leaves the old join with the new container.
SwitchFollow ==
    /\ At("follow")
    /\ SwitchOver /\ Release
    /\ \/ /\ capture' = [capture EXCEPT ![Team] = bots]
          /\ registry' = [registry EXCEPT ![Team].slot = lock.slot, ![Team].bot = bots]
          /\ monitors' = monitors \cup {[team |-> Team, bot |-> bots]}
       \/ StopCapture(Team) /\ UNCHANGED <<registry, monitors>>
    /\ UNCHANGED <<engine, known, target, owner, docker, refused, streams, selected,
                   hub, counters>>

-----------------------------------------------------------------------------
\* Steps that do not take the lock.

\* A running bot opens its participant stream on the car of its team's join.
Connect(t) ==
    /\ Running(t) /\ registry[t] # Nil /\ active # {}
    /\ CarPresent(registry[t].car)
    /\ ~ \E s \in streams : s.bot = docker[t].id
    /\ streams' = streams \cup
         {[car |-> registry[t].car, team |-> t, bot |-> docker[t].id]}
    /\ UNCHANGED <<engine, store, registry, boxes, selected, hub, lock, counters>>

\* Mutated form: the switch flag is not looked at.
EndStreamAlways(s) ==
    /\ streams' = streams \ {s}
    /\ remove_car(s.car)
    /\ late' = IF vehicle[s.car] = Nil THEN late ELSE late \cup {s.car}
    /\ UNCHANGED <<active, activations, vehicle, registry, boxes, selected, hub,
                   lock, counters>>

\* cleanup_participant_car: during a switch the car is kept; otherwise it is
\* forgotten at once and its despawn follows.
EndStream(s) ==
    /\ streams' = streams \ {s}
    /\ IF s.car \in switching
       THEN UNCHANGED <<store, late>>
       ELSE /\ remove_car(s.car)
            /\ late' = IF vehicle[s.car] = Nil THEN late ELSE late \cup {s.car}
    /\ UNCHANGED <<active, activations, vehicle, registry, boxes, selected, hub,
                   lock, counters>>

\* Mutated form: cars are enumerated by target.
InFrameByTarget(n) == target[n] # Nil /\ vehicle[n] # Nil

\* The hub's frame shows known cars whose state the engine returned.
InFrame(n) == n \in known /\ target[n] # Nil /\ vehicle[n] # Nil

\* The bot is gone, or its car has left the frame.
StreamBreaks(s) ==
    /\ s \in streams
    /\ \/ Gone([team |-> s.team, bot |-> s.bot])
       \/ ~InFrame(s.car)
    /\ EndStream(s)

\* A bot may hang up, or be dropped for a protocol error, at any time.
StreamQuits(s) == s \in streams /\ EndStream(s)

\* The frame hub meets a known car without target, or one whose vehicle the
\* engine does not find, and removes it from the store; a car of an inactive
\* sandbox is skipped, as its error text is not the one looked for.
HubSees(n) ==
    /\ hub = Nil /\ n \in known
    /\ \/ target[n] = Nil
       \/ target[n] \in active /\ vehicle[n] = Nil
    /\ hub' = n
    /\ UNCHANGED <<engine, store, registry, boxes, streams, selected, lock, counters>>

HubRemoves ==
    /\ hub # Nil
    /\ remove_car(hub)
    /\ hub' = Nil
    /\ UNCHANGED <<engine, registry, boxes, streams, selected, lock, counters>>

\* The engine worker gets to a queued despawn.
WorkerDespawns(n) ==
    /\ n \in late
    /\ late' = late \ {n}
    /\ vehicle' = [vehicle EXCEPT ![n] = Nil]
    /\ UNCHANGED <<active, activations, store, registry, boxes, streams, selected,
                   hub, lock, counters>>

\* Sandboxes come and go by the admin's commands; a world takes its vehicles
\* with it.
Activate(sb) ==
    /\ sb \notin active /\ activations < MaxActivations
    /\ active' = active \cup {sb}
    /\ activations' = activations + 1
    /\ UNCHANGED <<vehicle, late, store, registry, boxes, streams, selected, hub,
                   lock, counters>>

Deactivate(sb) ==
    /\ sb \in active
    /\ active' = active \ {sb}
    /\ vehicle' = [n \in Cars |-> IF vehicle[n] = sb THEN Nil ELSE vehicle[n]]
    /\ UNCHANGED <<activations, late, store, registry, boxes, streams, selected,
                   hub, lock, counters>>

\* A bot container stops by itself.
BotExits(t) ==
    /\ Running(t)
    /\ docker' = [docker EXCEPT ![t].running = FALSE]
    /\ UNCHANGED <<engine, store, registry, refused, monitors, capture, streams,
                   selected, hub, lock, counters>>

\* `docker logs -f` ends.
CaptureEnds(t) ==
    /\ capture[t] # Nil
    /\ StopCapture(t)
    /\ UNCHANGED <<engine, store, registry, docker, refused, monitors, streams,
                   selected, hub, lock, counters>>

\* select_slot persists the choice, without the lock.
select_slot(t, slot) ==
    /\ selected' = [selected EXCEPT ![t] = slot]
    /\ UNCHANGED <<engine, store, registry, boxes, streams, hub, lock, counters>>

-----------------------------------------------------------------------------
\* A caller that goes away takes its handler with it: the future is dropped at
\* the await it stands at and the lock is released.  A command already on its
\* way to docker or to the worker is carried out all the same.  Monitor, poller
\* and switch run in tasks of their own and are not cancelled.
InFlight ==
    \/ UNCHANGED <<vehicle, late, docker, refused, cars, bots>>
    \/ /\ At("spawn") /\ lock.sandbox \in active
       /\ cars' = cars + 1
       /\ vehicle' = [vehicle EXCEPT ![cars + 1] = lock.sandbox]
       /\ UNCHANGED <<late, docker, refused, bots>>
    \/ /\ At("start") /\ StartContainer(Team, lock.slot)
       /\ UNCHANGED <<vehicle, late, cars>>
    \/ /\ At("container") \/ At("undo_container")
       /\ RemoveContainer(Team) /\ UNCHANGED <<vehicle, late, cars, bots>>
    \/ /\ At("despawn") /\ Despawn(Join.car)
       /\ UNCHANGED <<docker, refused, cars, bots>>
    \/ /\ At("undo_despawn") /\ Despawn(lock.car)
       /\ UNCHANGED <<docker, refused, cars, bots>>

CallerGone ==
    /\ lock # Nil /\ lock.op \in {"join", "leave"} /\ cancels < MaxCancels
    /\ lock.at \notin {"known", "target", "forget", "undo_forget"}
    /\ InFlight
    /\ cancels' = cancels + 1
    /\ dropped' =
         [cars |-> dropped.cars \cup ({lock.car} \ {Nil}) \cup (cars + 1)..cars',
          bots |-> dropped.bots \cup (bots + 1)..bots'
                     \cup {b \in BotIds :
                             /\ lock.at \in {"capture", "persist", "undo_container"}
                             /\ docker[Team] # Nil /\ docker[Team].id = b}]
    /\ Release
    /\ UNCHANGED <<active, activations, store, registry, monitors, capture, streams,
                   selected, hub>>

-----------------------------------------------------------------------------
\* The steps of an operation that holds the lock.
HolderStep ==
    \/ JoinInspect \/ CleanOrphan \/ OrphansDone \/ JoinResolve \/ JoinSpawn
    \/ JoinPlace \/ JoinKnown \/ JoinTarget \/ JoinStart \/ JoinCapture
    \/ JoinCommit \/ JoinPersistFails \/ UndoContainer \/ UndoDespawn \/ UndoForget
    \/ CleanContainer \/ CleanDespawn \/ CleanForget
    \/ MonitorInspect \/ ReconcileInspect \/ ReconcileFails
    \/ SwitchSwap \/ SwitchFollow

Next ==
    \/ HolderStep \/ CallerGone
    \/ \E t \in Teams, sb \in Sandboxes, slot \in Slots : JoinBegin(t, sb, slot)
    \/ \E t \in Teams : LeaveBegin(t) \/ ReconcileBegin(t) \/ SwitchBegin(t)
                          \/ Connect(t) \/ BotExits(t) \/ CaptureEnds(t)
    \/ \E m \in monitors : MonitorWakes(m)
    \/ \E s \in streams : StreamBreaks(s) \/ StreamQuits(s)
    \/ \E n \in Cars : HubSees(n) \/ WorkerDespawns(n)
    \/ HubRemoves
    \/ \E sb \in Sandboxes : Activate(sb) \/ Deactivate(sb)
    \/ \E t \in Teams, slot \in Slots : select_slot(t, slot)

Spec == Init /\ [][Next]_vars

\* An operation under the lock goes on (its docker commands and its despawn are
\* under timeouts), the poller reaches every join, docker answers an inspection
\* now and then, and the stream tasks, the hub and the worker run.
Fairness ==
    /\ WF_vars(HolderStep)
    /\ \A t \in Teams : SF_vars(ReconcileBegin(t))
    /\ SF_vars(ReconcileInspect)
    /\ \A s \in [car: Cars, team: Teams, bot: BotIds] : WF_vars(StreamBreaks(s))
    /\ WF_vars(HubRemoves)
    /\ \A n \in Cars : WF_vars(HubSees(n)) /\ WF_vars(WorkerDespawns(n))

FairSpec == Spec /\ Fairness

-----------------------------------------------------------------------------
\* A team never has two vehicles on the tracks, leaving aside the ones whose
\* despawn is on its way: stale joins and orphans are dealt with before a join
\* spawns, whatever failed or vanished in between.
Holding(t) == {n \in Cars : vehicle[n] # Nil /\ n \notin late
                 /\ \/ registry[t] # Nil /\ registry[t].car = n
                    \/ owner[n] = t
                    \/ lock # Nil /\ lock.team = t /\ lock.car = n}
OneVehiclePerTeam == \A t \in Teams : Cardinality(Holding(t)) <= 1

\* No vehicle is left in a world by itself: while no operation is under way it
\* belongs to a registered join, or its despawn is on its way, or the caller of
\* its join went away half-way.
NoStrayVehicle ==
    lock = Nil => \A n \in Cars : vehicle[n] # Nil =>
        \/ n \in late \cup dropped.cars
        \/ \E t \in Teams : registry[t] # Nil /\ registry[t].car = n

\* A bot runs without a join only where docker itself refused its removal or
\* the caller of its join went away half-way.
NoStrayBot ==
    lock = Nil => \A t \in Teams :
        Running(t) =>
            registry[t] # Nil \/ t \in refused \/ docker[t].id \in dropped.bots

\* The logs captured for a team are those of the container of its join, and of
\* no other: a failed join or switch leaves no capture of its bot behind, a
\* cancelled one at most that of its own.
LogsFollowBot ==
    lock = Nil => \A t \in Teams :
        capture[t] # Nil =>
            \/ registry[t] # Nil /\ registry[t].bot = capture[t]
            \/ capture[t] \in dropped.bots

\* The slot a join reports (currently_loaded in the slot stream) is the slot its
\* bot was built from.
LoadedSlotIsTrue ==
    \A t \in Teams :
        registry[t] # Nil /\ docker[t] # Nil /\ docker[t].id = registry[t].bot
            => docker[t].slot = registry[t].slot

\* bot_switch_in_progress outlives no switch, failed ones included: a flag left
\* behind would keep the car of every later disconnected bot on the track.
SwitchFlagOwned ==
    switching # {} => lock # Nil /\ lock.op = "switch" /\ switching = {Join.car}

\* A bot that is being replaced does not take its car with it: during a switch
\* no step but the hub's removes the car.
SwitchKeepsCar ==
    [][\A n \in switching : target'[n] = target[n] \/ hub = n]_vars

\* A join whose car left the store or whose container stopped is cleaned up or
\* whole again in the end.
Broken(t) == ~CarPresent(registry[t].car) \/ ~Running(t)
BrokenJoinCleaned ==
    \A t \in Teams : (registry[t] # Nil /\ Broken(t)) ~> (registry[t] = Nil \/ ~Broken(t))

\* A car the hub lost sight of while it was being registered does not stay
\* invisible under a connected bot.
Hidden(n) == target[n] # Nil /\ n \notin known
HiddenCarDropped ==
    \A n \in Cars : (Hidden(n) /\ \E s \in streams : s.car = n) ~> ~Hidden(n)

\* Cars and teams: none doubled, none left behind by a failed or vanished operation.
CarsAreOwned == TypeOK /\ OneVehiclePerTeam /\ NoStrayVehicle

\* Bots and what is known of them: no bot without its join, and logs, loaded slot
\* and switch flag are those of the bot the team has.
BotsAreOwned == NoStrayBot /\ LogsFollowBot /\ LoadedSlotIsTrue /\ SwitchFlagOwned

=============================================================================
