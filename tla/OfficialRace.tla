---------------------------- MODULE OfficialRace ----------------------------
\* Official race sessions: the official half of services/race_participant.rs.
\* A launcher task watches two signal files; ".prepare" builds the race world,
\* puts the teams of the roster on the grid and starts their bot containers,
\* ".start" restarts the bots and starts the clock, and the session is closed
\* when its time is up.  Around it run one exit monitor per container, which
\* restarts a dead bot or parks its car, a poller that reconciles the registry
\* with the runtime store and swaps bots when a team selects another slot, the
\* frame hub, and the administrators' sandbox commands.  prepare_command_lock
\* is held by prepare, close and the slot switch; monitors, the reconciliation
\* and the refresh before the start run without it.
\*
\* One step is what happens between two awaits.  A car's public id and its
\* vehicle id are both fresh and are one number.

EXTENDS Integers, Sequences, FiniteSets

CONSTANTS
    Teams,
    Rosters,        \* contents the roster file may have: sequences of teams
    Slots,          \* slots that hold a succeeded submission
    StartSlots,     \* start positions of the map
    MaxAttempts,    \* OFFICIAL_RACE_BOT_AUTO_RESTART_MAX_ATTEMPTS
    MaxCars,        \* bound: cars ever spawned
    MaxBoxes,       \* bound: containers ever started
    MaxSignals,     \* bound: times a signal file appears
    MaxFaults,      \* bound: refused commands, failed reads, writes and tokens
    MaxEvents,      \* bound: bot exits, foreign removals, preemptions
    Switching,      \* placeholder id "switching-...": the bot is being replaced
    Awaiting,       \* placeholder id "awaiting-slot-switch-...": it was given up
    Nil             \* absence (None)

ASSUME RaceAssumption ==
    /\ StartSlots \in Nat /\ MaxAttempts \in Nat
    /\ MaxCars \in Nat /\ MaxBoxes \in Nat /\ MaxSignals \in Nat
    /\ MaxFaults \in Nat /\ MaxEvents \in Nat
    /\ Rosters \subseteq Seq(Teams) /\ Slots \subseteq Nat /\ Slots # {}
    /\ {Nil, Switching, Awaiting} \cap (Teams \cup Nat) = {}
    /\ Switching # Awaiting

Cars == 1..MaxCars
Boxes == 1..MaxBoxes
Sessions == 1..MaxSignals

VARIABLES
    race,       \* engine: the activity kind is OfficialRace
    vehicle,    \* engine: vehicles of the race world
    stored,     \* store: car -> its team while it is registered, or Nil
    switching,  \* store: cars with bot_switch_in_progress
    session,    \* store: "none", "prepared" or "started"
    elapsed,    \* the started race's time is up
    bots,       \* official_race_bots: team -> entry or Nil
    docker,     \* team -> the container of the team's name, or Nil
    selected,   \* persisted selected slot of a team, or Nil
    monitors,   \* exit monitors
    lost,       \* containers whose monitor ended because docker/wait failed
    launcher,   \* the launcher task's locals and where it stands
    poller,     \* the poller task's locals and where it stands
    lock,       \* holder of prepare_command_lock, or Nil
    signals,    \* which signal files are present
    results,    \* status in the results file of each session
    unwritten,  \* sessions one of whose result writes failed
    used,       \* how much of each bound has been used
    fresh       \* history: ".start" appeared and has started no race yet

engine == <<race, vehicle>>
store == <<stored, switching, session, elapsed>>
files == <<signals, results, unwritten, fresh>>
vars == <<race, vehicle, stored, switching, session, elapsed, bots, docker,
          selected, monitors, lost, launcher, poller, lock, signals, results,
          unwritten, used, fresh>>

Entries == [car: Cars, slot: Slots, box: Boxes \cup {Switching, Awaiting},
            attempts: 0..MaxAttempts]
Marks == [prepare: BOOLEAN, start: BOOLEAN]
NoMarks == [prepare |-> FALSE, start |-> FALSE]
MonitorSteps == {"wait", "delay", "check", "start", "follow", "giveup",
                 "park", "forget", "despawn"}
Monitors == [team: Teams, box: Boxes, at: MonitorSteps, cur: Entries \cup {Nil},
             started: BOOLEAN, new: Boxes \cup {Nil}]
LauncherSteps == {"tick", "load", "clean", "despawn", "stale", "switch",
                  "grid", "run", "follow", "select", "undo",
                  "refresh", "refollow", "tail", "close", "off"}
Launchers == [at: LauncherSteps, saw: Marks, prev: Marks, prepared: BOOLEAN,
              started: BOOLEAN, rec: Sessions \cup {Nil},
              why: {"prepare", "implicit", "close"},
              roster: Rosters \cup {<<>>}, index: Nat, seen: SUBSET Teams,
              todo: SUBSET [team: Teams, entry: Entries],
              team: Teams \cup {Nil}, cur: Entries \cup {Nil}]
Pollers == [at: {"idle", "remove", "mark", "swap", "follow"},
            team: Teams \cup {Nil}, cur: Entries \cup {Nil},
            slot: Slots \cup {Nil}, new: Boxes \cup {Nil}]

TypeOK ==
    /\ race \in BOOLEAN /\ vehicle \subseteq Cars
    /\ stored \in [Cars -> Teams \cup {Nil}] /\ switching \subseteq Cars
    /\ session \in {"none", "prepared", "started"} /\ elapsed \in BOOLEAN
    /\ bots \in [Teams -> Entries \cup {Nil}]
    /\ docker \in [Teams -> [id: Boxes, running: BOOLEAN, slot: Slots] \cup {Nil}]
    /\ selected \in [Teams -> Slots \cup {Nil}]
    /\ monitors \subseteq Monitors /\ lost \subseteq Boxes
    /\ launcher \in Launchers /\ poller \in Pollers
    /\ lock \in {"launcher", "poller", Nil}
    /\ signals \in Marks
    /\ results \in [Sessions -> {"absent", "running", "finalized"}]
    /\ unwritten \subseteq Sessions
    /\ used \in [cars: 0..MaxCars, boxes: 0..MaxBoxes, signals: 0..MaxSignals,
                 faults: 0..MaxFaults, events: 0..MaxEvents,
                 sessions: 0..MaxSignals]
    /\ fresh \in BOOLEAN

Init ==
    /\ race = FALSE /\ vehicle = {}
    /\ stored = [c \in Cars |-> Nil] /\ switching = {}
    /\ session = "none" /\ elapsed = FALSE
    /\ bots = [t \in Teams |-> Nil] /\ docker = [t \in Teams |-> Nil]
    /\ selected = [t \in Teams |-> Nil]
    /\ monitors = {} /\ lost = {}
    /\ launcher = [at |-> "tick", saw |-> NoMarks, prev |-> NoMarks,
                   prepared |-> FALSE, started |-> FALSE, rec |-> Nil,
                   why |-> "prepare", roster |-> <<>>, index |-> 1, seen |-> {},
                   todo |-> {}, team |-> Nil, cur |-> Nil]
    /\ poller = [at |-> "idle", team |-> Nil, cur |-> Nil, slot |-> Nil, new |-> Nil]
    /\ lock = Nil
    /\ signals = NoMarks
    /\ results = [s \in Sessions |-> "absent"] /\ unwritten = {}
    /\ used = [cars |-> 0, boxes |-> 0, signals |-> 0, faults |-> 0, events |-> 0,
               sessions |-> 0]
    /\ fresh = FALSE

-----------------------------------------------------------------------------
\* Shared helpers.

Running(t) == docker[t] # Nil /\ docker[t].running

\* A failure of something outside the server.
Fault == used.faults < MaxFaults /\ used' = [used EXCEPT !.faults = @ + 1]

\* remove_car.
ForgetCar(c) ==
    /\ stored' = [stored EXCEPT ![c] = Nil]
    /\ switching' = switching \ {c}
    /\ UNCHANGED <<session, elapsed>>

\* remove_bot_container: `docker rm -f` of the team's name.  A refusal is only
\* logged.
RemoveContainer(t) ==
    \/ docker' = [docker EXCEPT ![t] = Nil] /\ UNCHANGED used
    \/ Fault /\ UNCHANGED docker

\* Tokens, then start_bot_container_with_options: remove the name, pull, run.
StartContainer(t, slot) ==
    /\ used.boxes < MaxBoxes
    /\ used' = [used EXCEPT !.boxes = @ + 1]
    /\ docker' = [docker EXCEPT ![t] =
                    [id |-> used.boxes + 1, running |-> TRUE, slot |-> slot]]

\* No token, a refused removal or a name taken by another start; a failed pull
\* or run; a run that timed out although docker started the bot.
StartFails(t, slot) ==
    \/ Fault /\ UNCHANGED docker
    \/ Fault /\ docker' = [docker EXCEPT ![t] = Nil]
    \/ /\ used.faults < MaxFaults /\ used.boxes < MaxBoxes
       /\ used' = [used EXCEPT !.faults = @ + 1, !.boxes = @ + 1]
       /\ docker' = [docker EXCEPT ![t] =
                       [id |-> used.boxes + 1, running |-> TRUE, slot |-> slot]]

Entry(c, slot, b, n) == [car |-> c, slot |-> slot, box |-> b, attempts |-> n]
Insert(t, e) == bots' = [bots EXCEPT ![t] = e]

\* spawn_official_race_bot_exit_monitor.
Monitor(t, b) == [team |-> t, box |-> b, at |-> "wait", cur |-> Nil,
                  started |-> FALSE, new |-> Nil]

\* Whether the store still has the entry's car.
CarMatches(e) == stored[e.car] # Nil

-----------------------------------------------------------------------------
\* The launcher task.

LAt(step) == launcher.at = step
LUpd(f) == launcher' = f
Rising(f, s) == f.saw[s] /\ ~f.prev[s]

\* A copy of the registry.
Snapshot == {[team |-> t, entry |-> bots[t]] : t \in {u \in Teams : bots[u] # Nil}}

\* The launcher without the locals of a prepare.
Idle == [launcher EXCEPT !.why = "prepare", !.roster = <<>>, !.index = 1, !.seen = {},
                         !.team = Nil, !.cur = Nil]

\* OfficialRaceResultsRecorder::finalize; a failed write is only logged.
Finalize ==
    \/ /\ launcher.rec = Nil /\ UNCHANGED <<results, unwritten, used>>
    \/ /\ launcher.rec # Nil
       /\ results' = [results EXCEPT ![launcher.rec] = "finalized"]
       /\ UNCHANGED <<unwritten, used>>
    \/ /\ launcher.rec # Nil /\ Fault
       /\ unwritten' = unwritten \cup {launcher.rec} /\ UNCHANGED results

\* Mutated form: the file's presence is enough.
AfterPrepareLevel(f) ==
    IF ~f.saw.start THEN [f EXCEPT !.at = "tail"]
    ELSE IF ~f.prepared THEN [f EXCEPT !.at = "load", !.why = "implicit"]
    ELSE IF f.started THEN [f EXCEPT !.at = "tail"]
    ELSE [f EXCEPT !.at = "refresh", !.todo = Snapshot]

\* The appearance of ".start": an implicit prepare if there is none, then the
\* start; nothing in a race that is on.
AfterPrepare(f) ==
    IF ~Rising(f, "start") THEN [f EXCEPT !.at = "tail"]
    ELSE IF ~f.prepared THEN [f EXCEPT !.at = "load", !.why = "implicit"]
    ELSE IF f.started THEN [f EXCEPT !.at = "tail"]
    ELSE [f EXCEPT !.at = "refresh", !.todo = Snapshot]

\* A tick reads both signal files; the appearance of ".prepare" ends the running
\* session's results and prepares.
Tick ==
    LET f == [launcher EXCEPT !.saw = signals] IN
    /\ LAt("tick")
    /\ IF Rising(f, "prepare")
       THEN Finalize /\ LUpd([f EXCEPT !.at = "load", !.rec = Nil])
       ELSE LUpd(AfterPrepare(f)) /\ UNCHANGED <<results, unwritten, used>>
    /\ UNCHANGED <<engine, store, bots, docker, selected, monitors, lost, poller,
                   lock, signals, fresh>>

\* A failed prepare: an explicit one withdraws "prepared", an implicit one
\* leaves the locals as they are.
AfterFailure ==
    IF launcher.why = "prepare"
    THEN AfterPrepare([Idle EXCEPT !.prepared = FALSE, !.started = FALSE])
    ELSE [Idle EXCEPT !.at = "tail"]

\* cleanup_official_race_session_locked begins: the session is cleared, the
\* registry is copied.
BeginCleanup(f) ==
    /\ session' = "none" /\ elapsed' = FALSE
    /\ launcher' = [f EXCEPT !.at = "clean", !.todo = Snapshot]

\* handle_official_race_prepare_signal: the race configuration, the roster and
\* the ghost settings are read, and may be missing or invalid; then the lock.
LoadFails ==
    /\ LAt("load") /\ Fault /\ LUpd(AfterFailure)
    /\ UNCHANGED <<engine, store, bots, docker, selected, monitors, lost, poller,
                   lock, files>>

Load ==
    /\ LAt("load") /\ lock = Nil /\ lock' = "launcher"
    /\ \E r \in Rosters :
         BeginCleanup([launcher EXCEPT !.roster = r, !.index = 1, !.seen = {}])
    /\ UNCHANGED <<engine, stored, switching, bots, docker, selected, monitors, lost,
                   poller, files, used>>

\* The copied entries one after the other: registry entry and container, then
\* vehicle and car.
CleanRemove ==
    /\ LAt("clean")
    /\ IF launcher.todo = {}
       THEN LUpd([launcher EXCEPT !.at = "stale"]) /\ UNCHANGED <<bots, docker, used>>
       ELSE \E w \in launcher.todo :
              /\ Insert(w.team, Nil) /\ RemoveContainer(w.team)
              /\ LUpd([launcher EXCEPT !.at = "despawn", !.cur = w.entry,
                                       !.todo = @ \ {w}])
    /\ UNCHANGED <<engine, store, selected, monitors, lost, poller, lock, files>>

CleanDespawn ==
    /\ LAt("despawn")
    /\ vehicle' = vehicle \ {launcher.cur.car}
    /\ ForgetCar(launcher.cur.car)
    /\ LUpd([launcher EXCEPT !.at = "clean", !.cur = Nil])
    /\ UNCHANGED <<race, bots, docker, selected, monitors, lost, poller, lock,
                   files, used>>

\* The race cars still in the store, registry entry or not; then on to the new
\* session, or, after a close, to the next tick with the files as last seen
\* before this one.
CleanStale ==
    /\ LAt("stale")
    /\ IF \E c \in Cars : stored[c] # Nil
       THEN /\ \E c \in Cars : /\ stored[c] # Nil
                               /\ vehicle' = vehicle \ {c} /\ ForgetCar(c)
            /\ UNCHANGED <<launcher, lock>>
       ELSE /\ UNCHANGED <<vehicle, store>>
            /\ IF launcher.why = "close"
               THEN /\ LUpd([Idle EXCEPT !.at = "tick", !.saw = NoMarks, !.prepared = FALSE,
                                         !.started = FALSE])
                    /\ lock' = Nil
               ELSE LUpd([launcher EXCEPT !.at = "switch"]) /\ UNCHANGED lock
    /\ UNCHANGED <<race, bots, docker, selected, monitors, lost, poller, files,
                   used>>

\* switch_runtime builds the race world anew; another command may have changed
\* the revision, the map may be bad or have no start positions.
SwitchRuntime ==
    /\ LAt("switch")
    /\ race' = TRUE /\ vehicle' = {}
    /\ LUpd([launcher EXCEPT !.at = "grid"])
    /\ UNCHANGED <<store, bots, docker, selected, monitors, lost, poller, lock,
                   files, used>>

SwitchFails ==
    /\ LAt("switch") /\ Fault
    /\ \/ UNCHANGED <<race, vehicle>>
       \/ race' = TRUE /\ vehicle' = {}
    /\ LUpd(AfterFailure) /\ lock' = Nil
    /\ UNCHANGED <<store, bots, docker, selected, monitors, lost, poller,
                   files>>

-----------------------------------------------------------------------------
\* The roster, one line after the other; the line number is the grid position.

NextLine(f) == [f EXCEPT !.at = "grid", !.index = @ + 1, !.team = Nil, !.cur = Nil]
Line == launcher.roster[launcher.index]

\* resolve_lowest_runnable_slot_submission.
LowestSlot == CHOOSE s \in Slots : \A r \in Slots : s <= r

\* A line beyond the grid, a repeated team, a team without a runnable slot and a
\* refused spawn are skipped; otherwise the vehicle is spawned and its car
\* registered.
Grid ==
    /\ LAt("grid") /\ launcher.index <= Len(launcher.roster)
    /\ IF \/ launcher.index > StartSlots \/ Line \in launcher.seen
          \/ ~race \/ used.cars = MaxCars
       THEN /\ LUpd(NextLine([launcher EXCEPT !.seen =
                 IF launcher.index > StartSlots THEN @ ELSE @ \cup {Line}]))
            /\ UNCHANGED <<vehicle, stored, used>>
       ELSE /\ used' = [used EXCEPT !.cars = @ + 1]
            /\ vehicle' = vehicle \cup {used.cars + 1}
            /\ stored' = [stored EXCEPT ![used.cars + 1] = Line]
            /\ LUpd([launcher EXCEPT !.at = "run", !.seen = @ \cup {Line},
                  !.team = Line, !.cur = Entry(used.cars + 1, LowestSlot, Switching, 0)])
    /\ UNCHANGED <<race, switching, session, elapsed, bots, docker, selected,
                   monitors, lost, poller, lock, files>>

\* The team has no runnable slot: the line is skipped.  A failed query ends the
\* whole prepare, with the cars placed so far on the grid.
GridNoSlot ==
    /\ LAt("grid") /\ launcher.index <= Len(launcher.roster) /\ Fault
    /\ \/ LUpd(NextLine([launcher EXCEPT !.seen = @ \cup {Line}])) /\ UNCHANGED lock
       \/ LUpd(AfterFailure) /\ lock' = Nil
    /\ UNCHANGED <<engine, store, bots, docker, selected, monitors, lost, poller,
                   files>>

\* set_car_at_start_pos_in, which fails when the world is gone; tokens and
\* container.  A failed start is followed by a removal of the name.
Run ==
    /\ LAt("run")
    /\ \/ /\ launcher.cur.car \in vehicle
          /\ StartContainer(launcher.team, launcher.cur.slot)
          /\ LUpd([launcher EXCEPT !.at = "follow", !.cur.box = used'.boxes])
       \/ /\ launcher.cur.car \notin vehicle
          /\ LUpd([launcher EXCEPT !.at = "undo"]) /\ UNCHANGED <<docker, used>>
       \/ /\ Fault
          /\ docker' \in {docker, [docker EXCEPT ![launcher.team] = Nil]}
          /\ LUpd([launcher EXCEPT !.at = "undo"])
    /\ UNCHANGED <<engine, store, bots, selected, monitors, lost, poller,
                   lock, files>>

LaunchFollow ==
    /\ LAt("follow")
    /\ Insert(launcher.team, launcher.cur)
    /\ LUpd([launcher EXCEPT !.at = "select"])
    /\ UNCHANGED <<engine, store, docker, selected, monitors, lost, poller, lock,
                   files, used>>

\* The slot becomes the selected one (a failure is only logged); only then is
\* the exit monitor spawned.
LaunchSelect ==
    /\ LAt("select")
    /\ \/ selected' = [selected EXCEPT ![launcher.team] = launcher.cur.slot]
          /\ UNCHANGED used
       \/ Fault /\ UNCHANGED selected
    /\ monitors' = monitors \cup {Monitor(launcher.team, launcher.cur.box)}
    /\ LUpd(NextLine(launcher))
    /\ UNCHANGED <<engine, store, bots, docker, lost, poller, lock, files>>

\* cleanup_spawned_official_race_car.
Undo ==
    /\ LAt("undo")
    /\ vehicle' = vehicle \ {launcher.cur.car}
    /\ ForgetCar(launcher.cur.car)
    /\ LUpd(NextLine(launcher))
    /\ UNCHANGED <<race, bots, docker, selected, monitors, lost, poller, lock,
                   files, used>>

\* The session is public as prepared before its first results are written; when
\* that write fails the prepare fails with the session up, and the file may have
\* been written all the same (it is written before "latest.json").
Record ==
    /\ LAt("grid") /\ launcher.index > Len(launcher.roster)
    /\ session' = "prepared" /\ elapsed' = FALSE
    /\ used.sessions < MaxSignals
    /\ lock' = Nil
    /\ \/ /\ results' = [results EXCEPT ![used.sessions + 1] = "running"]
          /\ used' = [used EXCEPT !.sessions = @ + 1]
          /\ LUpd(AfterPrepare([Idle EXCEPT !.prepared = TRUE, !.started = FALSE,
                                            !.rec = used.sessions + 1]))
          /\ UNCHANGED unwritten
       \/ /\ used.faults < MaxFaults
          /\ used' = [used EXCEPT !.faults = @ + 1, !.sessions = @ + 1]
          /\ \E status \in {"absent", "running"} :
               results' = [results EXCEPT ![used.sessions + 1] = status]
          /\ unwritten' = unwritten \cup {used.sessions + 1}
          /\ LUpd(AfterFailure)
    /\ UNCHANGED <<engine, stored, switching, bots, docker, selected, monitors, lost,
                   poller, signals, fresh>>

-----------------------------------------------------------------------------
\* refresh_official_race_bots_before_start_locked: each copied entry's bot is
\* started again; a failure is only logged.
Refresh ==
    /\ LAt("refresh") /\ launcher.todo # {}
    /\ \E w \in launcher.todo :
         \/ /\ StartContainer(w.team, w.entry.slot)
            /\ LUpd([launcher EXCEPT !.at = "refollow", !.team = w.team,
                       !.todo = @ \ {w},
                       !.cur = [w.entry EXCEPT !.box = used'.boxes, !.attempts = 0]])
         \/ /\ StartFails(w.team, w.entry.slot)
            /\ LUpd([launcher EXCEPT !.todo = @ \ {w}])
    /\ UNCHANGED <<engine, store, bots, selected, monitors, lost, poller,
                   lock, files>>

\* Mutated form: the restarted bot gets no exit monitor.
RefollowUnwatched ==
    /\ LAt("refollow")
    /\ Insert(launcher.team, launcher.cur)
    /\ LUpd([launcher EXCEPT !.at = "refresh", !.team = Nil, !.cur = Nil])
    /\ UNCHANGED <<engine, store, docker, selected, monitors, lost, poller, lock,
                   files, used>>

Refollow ==
    /\ LAt("refollow")
    /\ Insert(launcher.team, launcher.cur)
    /\ monitors' = monitors \cup {Monitor(launcher.team, launcher.cur.box)}
    /\ LUpd([launcher EXCEPT !.at = "refresh", !.team = Nil, !.cur = Nil])
    /\ UNCHANGED <<engine, store, docker, selected, lost, poller, lock, files, used>>

\* Tyres are forced to hard, the start time is taken from the latest frame.
Go ==
    /\ LAt("refresh") /\ launcher.todo = {}
    /\ session' = "started"
    /\ elapsed' = FALSE
    /\ fresh' = FALSE
    /\ LUpd([launcher EXCEPT !.at = "tail", !.started = TRUE])
    /\ UNCHANGED <<engine, stored, switching, bots, docker, selected, monitors, lost,
                   poller, lock, signals, results, unwritten, used>>

\* The rest of a tick.  A race whose time is up is closed; a session whose world
\* the latest frame does not show is given up, its bots and cars left as they
\* are; the edges are remembered, but not by the tick that closes.  The frame
\* may be older than the last switch of the runtime, or lack a runtime state.
TimeIsUp == launcher.started /\ session = "started" /\ elapsed

TickTail ==
    /\ LAt("tail")
    /\ \/ /\ launcher.rec # Nil /\ TimeIsUp
          /\ Finalize
          /\ LUpd([launcher EXCEPT !.at = "close", !.rec = Nil])
          /\ UNCHANGED <<session, elapsed>>
       \/ /\ launcher.rec # Nil /\ ~TimeIsUp
          /\ Finalize
          /\ session' = "none" /\ elapsed' = FALSE
          /\ LUpd([launcher EXCEPT !.at = "tick", !.prev = launcher.saw, !.saw = NoMarks, !.rec = Nil,
                                   !.prepared = FALSE, !.started = FALSE])
       \/ /\ launcher.rec = Nil \/ ~TimeIsUp
          /\ LUpd([launcher EXCEPT !.at = "tick", !.prev = launcher.saw, !.saw = NoMarks])
          /\ UNCHANGED <<session, elapsed, results, unwritten, used>>
    /\ UNCHANGED <<engine, stored, switching, bots, docker, selected, monitors, lost,
                   poller, lock, signals, fresh>>

\* close_official_race_session_locked: the runtime is switched to None if the
\* race is still on (a failure is only logged), then the session is cleaned up.
Close ==
    /\ LAt("close") /\ lock = Nil /\ lock' = "launcher"
    /\ \/ race' = FALSE /\ vehicle' = {} /\ UNCHANGED used
       \/ Fault /\ UNCHANGED <<race, vehicle>>
    /\ BeginCleanup([launcher EXCEPT !.why = "close"])
    /\ UNCHANGED <<stored, switching, bots, docker, selected, monitors, lost,
                   poller, files>>

\* Shutdown between two ticks.
Shutdown ==
    /\ LAt("tick")
    /\ Finalize
    /\ session' = "none" /\ elapsed' = FALSE
    /\ LUpd([launcher EXCEPT !.at = "off", !.rec = Nil, !.prev = NoMarks])
    /\ UNCHANGED <<engine, stored, switching, bots, docker, selected, monitors, lost,
                   poller, lock, signals, fresh>>

LauncherStep ==
    \/ Tick \/ LoadFails \/ Load \/ CleanRemove \/ CleanDespawn
    \/ CleanStale \/ SwitchRuntime \/ SwitchFails \/ Grid \/ GridNoSlot \/ Run
    \/ LaunchFollow \/ LaunchSelect \/ Undo \/ Record
    \/ Refresh \/ Refollow \/ Go \/ TickTail \/ Close

-----------------------------------------------------------------------------
\* Exit monitors: one task per container.

Move(m, n) == monitors' = (monitors \ {m}) \cup {n}
End(m) == monitors' = monitors \ {m}
Dead(t, b) == ~(docker[t] # Nil /\ docker[t].id = b /\ docker[t].running)
Owns(m) == bots[m.team] # Nil /\ bots[m.team].box = m.box

\* wait_bot_container_exit_code returns, and the registry still names the
\* container; or it fails and the monitor ends.
MonitorWakes(m) ==
    /\ m.at = "wait" /\ Dead(m.team, m.box)
    /\ IF Owns(m) THEN Move(m, [m EXCEPT !.at = "delay"]) ELSE End(m)
    /\ UNCHANGED <<engine, store, bots, docker, selected, lost, launcher, poller,
                   lock, files, used>>

WaitFails(m) ==
    /\ m.at = "wait" /\ Fault
    /\ End(m) /\ lost' = lost \cup {m.box}
    /\ UNCHANGED <<engine, store, bots, docker, selected, launcher, poller, lock,
                   files>>

\* After the backoff the entry is read again; a started race allows MaxAttempts
\* restarts in a row.
MonitorDelay(m) ==
    /\ m.at = "delay"
    /\ IF ~Owns(m) THEN End(m)
       ELSE Move(m, [m EXCEPT !.cur = bots[m.team], !.started = (session = "started"),
               !.at = IF session = "started" /\ bots[m.team].attempts >= MaxAttempts
                      THEN "giveup" ELSE "check"])
    /\ UNCHANGED <<engine, store, bots, docker, selected, lost, launcher, poller,
                   lock, files, used>>

MonitorCheck(m) ==
    /\ m.at = "check"
    /\ Move(m, [m EXCEPT !.at = IF race THEN "start" ELSE "giveup"])
    /\ UNCHANGED <<engine, store, bots, docker, selected, lost, launcher, poller,
                   lock, files, used>>

MonitorStart(m) ==
    /\ m.at = "start"
    /\ \/ /\ StartContainer(m.team, m.cur.slot)
          /\ Move(m, [m EXCEPT !.at = "follow", !.new = used'.boxes])
       \/ StartFails(m.team, m.cur.slot) /\ Move(m, [m EXCEPT !.at = "giveup"])
    /\ UNCHANGED <<engine, store, bots, selected, lost, launcher, poller,
                   lock, files>>

\* The entry read before the restart is written back, whatever became of the
\* team's entry since; the new container's monitor follows.
MonitorFollow(m) ==
    /\ m.at = "follow"
    /\ Insert(m.team, [m.cur EXCEPT !.box = m.new,
                         !.attempts = IF m.started THEN @ + 1 ELSE 0])
    /\ Move(m, Monitor(m.team, m.new))
    /\ UNCHANGED <<engine, store, docker, selected, lost, launcher, poller, lock,
                   files, used>>

\* Mutated form: an entry that changed hands is parked all the same.
GiveUpAnyEntry(m) ==
    /\ m.at = "giveup"
    /\ IF session = "started" /\ CarMatches(m.cur) /\ bots[m.team] # Nil
       THEN /\ Insert(m.team, [bots[m.team] EXCEPT !.box = Awaiting, !.attempts = 0])
            /\ Move(m, [m EXCEPT !.at = "park"])
       ELSE /\ UNCHANGED bots
            /\ IF Owns(m) THEN Move(m, [m EXCEPT !.cur = bots[m.team], !.at = "forget"])
               ELSE End(m)
    /\ UNCHANGED <<engine, store, docker, selected, lost, launcher, poller, lock,
                   files, used>>

\* handle_unrecoverable_official_race_bot_exit: in a started race a car that is
\* still there is kept and its entry waits for the team to select another slot;
\* otherwise entry and car are dropped.  An entry that changed hands is left.
MonitorGivesUp(m) ==
    /\ m.at = "giveup"
    /\ IF ~Owns(m) THEN End(m) /\ UNCHANGED bots
       ELSE IF session = "started" /\ CarMatches(m.cur)
       THEN /\ Insert(m.team, [bots[m.team] EXCEPT !.box = Awaiting, !.attempts = 0])
            /\ Move(m, [m EXCEPT !.at = "park"])
       ELSE /\ Move(m, [m EXCEPT !.cur = bots[m.team], !.at = "forget"])
            /\ UNCHANGED bots
    /\ UNCHANGED <<engine, store, docker, selected, lost, launcher, poller, lock,
                   files, used>>

\* Parking: container, vehicle to the pit (its position is not modelled).
ParkRemove(m) ==
    /\ m.at = "park"
    /\ RemoveContainer(m.team) /\ End(m)
    /\ UNCHANGED <<engine, store, bots, selected, lost, launcher, poller,
                   lock, files>>

\* Dropping: the team's entry, then vehicle and car.
DropForget(m) ==
    /\ m.at = "forget"
    /\ Insert(m.team, Nil) /\ Move(m, [m EXCEPT !.at = "despawn"])
    /\ UNCHANGED <<engine, store, docker, selected, lost, launcher, poller, lock,
                   files, used>>

DropDespawn(m) ==
    /\ m.at = "despawn"
    /\ vehicle' = vehicle \ {m.cur.car} /\ ForgetCar(m.cur.car)
    /\ End(m)
    /\ UNCHANGED <<race, bots, docker, selected, lost, launcher, poller, lock,
                   files, used>>

MonitorStep(m) ==
    \/ MonitorWakes(m) \/ MonitorDelay(m) \/ MonitorCheck(m) \/ MonitorStart(m)
    \/ MonitorFollow(m) \/ MonitorGivesUp(m) \/ ParkRemove(m)
    \/ DropForget(m) \/ DropDespawn(m)

-----------------------------------------------------------------------------
\* The poller task: each registered team in turn.

PIdle == [at |-> "idle", team |-> Nil, cur |-> Nil, slot |-> Nil, new |-> Nil]

\* reconcile_official_race_bot_liveness: an entry whose car is gone is removed
\* with its container.
Reconcile(t) ==
    /\ poller.at = "idle" /\ bots[t] # Nil /\ ~CarMatches(bots[t])
    /\ poller' = [PIdle EXCEPT !.team = t, !.at = "remove"]
    /\ UNCHANGED <<engine, store, bots, docker, selected, monitors, lost, launcher,
                   lock, files, used>>

ReconcileRemove ==
    /\ poller.at = "remove"
    /\ Insert(poller.team, Nil) /\ RemoveContainer(poller.team)
    /\ poller' = PIdle
    /\ UNCHANGED <<engine, store, selected, monitors, lost, launcher, lock,
                   files>>

\* try_apply_pending_selected_slot_for_team: under the lock the entry is read;
\* its car stands in the pit's fix zone and the team has selected another slot.
SwitchBegin(t) ==
    /\ poller.at = "idle" /\ lock = Nil
    /\ bots[t] # Nil /\ CarMatches(bots[t])
    /\ selected[t] \notin {Nil, bots[t].slot}
    /\ lock' = "poller"
    /\ switching' = switching \cup {bots[t].car}
    /\ poller' = [PIdle EXCEPT !.at = "mark", !.team = t, !.cur = bots[t],
                               !.slot = selected[t]]
    /\ UNCHANGED <<engine, stored, session, elapsed, bots, docker, selected, monitors,
                   lost, launcher, files, used>>

\* With the tokens in hand the entry's container id is made a placeholder, so
\* that the old container's monitor does not restart it.
SwitchMark ==
    /\ poller.at = "mark"
    /\ \/ /\ bots' = [bots EXCEPT ![poller.team] =
                        IF @ = Nil THEN Nil ELSE [@ EXCEPT !.box = Switching]]
          /\ poller' = [poller EXCEPT !.at = "swap"]
          /\ UNCHANGED <<switching, lock, used>>
       \/ /\ Fault /\ poller' = PIdle /\ lock' = Nil
          /\ switching' = switching \ {poller.cur.car} /\ UNCHANGED bots
    /\ UNCHANGED <<engine, stored, session, elapsed, docker, selected, monitors, lost,
                   launcher, files>>

\* The new bot is started and the flag taken back; after a failure the
\* placeholder stays.
SwitchSwap ==
    /\ poller.at = "swap"
    /\ switching' = switching \ {poller.cur.car}
    /\ \/ /\ StartContainer(poller.team, poller.slot) /\ UNCHANGED lock
          /\ poller' = [poller EXCEPT !.at = "follow", !.new = used'.boxes]
       \/ StartFails(poller.team, poller.slot) /\ poller' = PIdle /\ lock' = Nil
    /\ UNCHANGED <<engine, stored, session, elapsed, bots, selected,
                   monitors, lost, launcher, files>>

SwitchFollow ==
    /\ poller.at = "follow"
    /\ Insert(poller.team, Entry(poller.cur.car, poller.slot, poller.new, 0))
    /\ monitors' = monitors \cup {Monitor(poller.team, poller.new)}
    /\ poller' = PIdle /\ lock' = Nil
    /\ UNCHANGED <<engine, store, docker, selected, lost, launcher, files, used>>

PollerStep ==
    ReconcileRemove \/ SwitchMark \/ SwitchSwap \/ SwitchFollow

-----------------------------------------------------------------------------
\* Everyone else.

Event == used.events < MaxEvents /\ used' = [used EXCEPT !.events = @ + 1]

BotExits(t) ==
    /\ Running(t) /\ Event
    /\ docker' = [docker EXCEPT ![t].running = FALSE]
    /\ UNCHANGED <<engine, store, bots, selected, monitors, lost, launcher,
                   poller, lock, files>>

\* The team's sandbox bot has the same container name: the clean-up of a
\* sandbox join the race has overtaken removes the race's container.
SandboxCleanupRemoves(t) ==
    /\ docker[t] # Nil /\ Event
    /\ docker' = [docker EXCEPT ![t] = Nil]
    /\ UNCHANGED <<engine, store, bots, selected, monitors, lost, launcher,
                   poller, lock, files>>

\* A scheduled sandbox operation takes the runtime away from the race.
Preempt ==
    /\ race /\ Event
    /\ race' = FALSE /\ vehicle' = {}
    /\ UNCHANGED <<store, bots, docker, selected, monitors, lost, launcher,
                   poller, lock, files>>

select_slot(t, slot) ==
    /\ selected[t] # slot /\ Event
    /\ selected' = [selected EXCEPT ![t] = slot]
    /\ UNCHANGED <<engine, store, bots, docker, monitors, lost, launcher, poller,
                   lock, files>>

\* A race outlasts the tick that started it.
TimePasses ==
    /\ session = "started" /\ LAt("tick") /\ ~elapsed /\ elapsed' = TRUE
    /\ UNCHANGED <<engine, stored, switching, session, bots, docker, selected,
                   monitors, lost, launcher, poller, lock, files, used>>

\* The operator creates and deletes the signal files; they are read by a tick
\* and at no other time.
Signal(s) ==
    /\ LAt("tick")
    /\ \/ /\ ~signals[s] /\ used.signals < MaxSignals
          /\ used' = [used EXCEPT !.signals = @ + 1]
          /\ fresh' = (fresh \/ s = "start")
       \/ signals[s] /\ UNCHANGED <<used, fresh>>
    /\ signals' = [signals EXCEPT ![s] = ~@]
    /\ UNCHANGED <<engine, store, bots, docker, selected, monitors, lost, launcher,
                   poller, lock, results, unwritten>>

Next ==
    \/ LauncherStep \/ Shutdown \/ PollerStep
    \/ \E m \in monitors : MonitorStep(m) \/ WaitFails(m)
    \/ \E t \in Teams : Reconcile(t) \/ SwitchBegin(t) \/ BotExits(t) \/ SandboxCleanupRemoves(t)
    \/ Preempt \/ TimePasses
    \/ \E t \in Teams, slot \in Slots : select_slot(t, slot)
    \/ \E s \in {"prepare", "start"} : Signal(s)

Spec == Init /\ [][Next]_vars

-----------------------------------------------------------------------------
\* A team has one race car at most (resolve_team_official_race_car answers
\* "multiple active official-race cars found for team" otherwise): whatever the
\* roster lists, and whatever a failed or preempted session left behind.
OneRaceCarPerTeam ==
    \A t \in Teams : Cardinality({c \in Cars : stored[c] = t}) <= 1

\* The container a registry entry names is watched by an exit monitor, through
\* restarts, refreshes, switches and stale writes; only a failed docker/wait
\* takes the watch away.
Watched(t) ==
    \/ bots[t].box \in lost
    \/ \E m \in monitors : m.team = t /\ m.box = bots[t].box
    \/ launcher.at = "select" /\ launcher.cur.box = bots[t].box
BotIsWatched ==
    \A t \in Teams : bots[t] # Nil /\ bots[t].box \in Boxes => Watched(t)

\* Between two ticks a session the launcher calls prepared or started is
\* published as such and recorded.  (The converse fails: a prepare that cannot
\* read its files during a race leaves the race published as started and nobody
\* timing it.)  A results file says "running" only while the recorder works on
\* it, or where writing failed: no session, closed, preempted or overtaken, is
\* left open.
SessionsRecorded ==
    /\ launcher.at = "tick" /\ launcher.prepared =>
         /\ session = IF launcher.started THEN "started" ELSE "prepared"
         /\ launcher.rec # Nil /\ results[launcher.rec] = "running"
    /\ \A s \in Sessions : results[s] = "running" => s = launcher.rec \/ s \in unwritten

\* The teams of a race session, at every moment: one car each at most, a bot that
\* somebody watches, and results that are being written.
RaceTeamsAreSound == TypeOK /\ OneRaceCarPerTeam /\ BotIsWatched /\ SessionsRecorded

\* Every start of a race has its own appearance of ".start": a file left in
\* place does not start the next race.
StartNeedsSignal == [][launcher'.started /\ ~launcher.started => fresh]_vars

\* Only a bot that is dead is given up for its slot: a monitor that comes late
\* does not park the car of the bot that replaced its own.
OnlyDeadBotsParked ==
    [][\A t \in Teams :
         bots'[t] # Nil /\ bots'[t].box = Awaiting /\ bots'[t] # bots[t]
           => bots[t] # Nil /\ Dead(t, bots[t].box)]_vars

=============================================================================
