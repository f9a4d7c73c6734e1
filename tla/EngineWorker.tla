---------------------------- MODULE EngineWorker ----------------------------
(***************************************************************************)
(* The engine worker (game-server/src/runtime/engine_worker.rs): the one   *)
(* task that owns every simulated world and the runtime metadata that the  *)
(* gRPC services read and compare-and-swap on.  Commands arrive through a  *)
(* queue and are handled one at a time; after each command, and after each *)
(* simulation tick, the worker runs the scheduled sandbox operations that  *)
(* have become due, and takes no other command until that batch is over.   *)
(*                                                                         *)
(* A world is represented by the map it was built with.  Vehicles, ghost   *)
(* settings and physics are left out.                                      *)
(***************************************************************************)
EXTENDS Naturals, FiniteSets

CONSTANTS
    SandboxIds,   \* non-empty sandbox ids the clients may name
    RaceIds,      \* non-empty local race ids
    Maps,         \* map ids (storage keys)
    BrokenMaps,   \* maps build_engine fails on (asset missing or unloadable)
    InvalidMaps,  \* map ids validate_map_id rejects
    Presets,      \* the specified time-of-day presets
    Weathers,     \* weather snapshots the local flavour can set
    Clients,      \* services holding an EngineClient
    DefaultMap,   \* DEFAULT_MAP_ID
    MaxRevision,  \* bound on the revision counter (u64::MAX in the code)
    MaxTime,      \* bound on the wall clock
    Nil           \* Option::None

Unspecified == "Unspecified"
TimesOfDay == Presets \cup {Unspecified}
Times == 0..MaxTime

\* build_engine starts by calling validate_map_id, so it rejects those too.
ASSUME MapAssumption ==
    /\ BrokenMaps \subseteq Maps
    /\ InvalidMaps \subseteq BrokenMaps
    /\ DefaultMap \in Maps
    /\ Nil \notin Maps

ASSUME PresetAssumption ==
    /\ Unspecified \notin Presets
    /\ Nil \notin TimesOfDay

ASSUME BoundAssumption == MaxRevision \in Nat /\ MaxTime \in Nat

ActivityKinds == {"None", "OfficialRace", "LocalRace", "Sandbox"}

\* EngineActiveSandboxState, EngineActiveLocalRaceState and the two shapes of
\* EnginePendingSandboxActivation that set_pending_sandbox_activation accepts.
SandboxState ==
    [map: Maps, tod: Presets, weather: Weathers \cup {Nil}]
LocalRaceState == [race: RaceIds, map: Maps, tod: Presets]
PendingActivation ==
    [activate: {TRUE}, at: Times, map: Maps, tod: Presets]
PendingDeactivation ==
    [activate: {FALSE}, at: Times, map: {Nil}, tod: {Nil}]
Pending == PendingActivation \cup PendingDeactivation

\* A client's copy of the metadata, as GetRuntimeState returns it.  The
\* weather shown for a sandbox is no part of what a client swaps on.
SandboxView == [map: Maps, tod: Presets]
Snapshot ==
    [revision: 0..MaxRevision, activity: ActivityKinds, map: Maps,
     tod: TimesOfDay, race: LocalRaceState \cup {Nil},
     sandboxes: [SandboxIds -> SandboxView \cup {Nil}],
     pending: [SandboxIds -> Pending \cup {Nil}]]

ASSUME NilAssumption ==
    /\ Nil \notin SandboxState
    /\ Nil \notin LocalRaceState
    /\ Nil \notin Pending
    /\ Nil \notin SandboxView

VARIABLES
    revision,         \* EngineRuntimeState.revision
    activity,         \* .activity_kind
    mapId,            \* .map_id
    tod,              \* .time_of_day_preset
    localRace,        \* .active_local_race
    sandboxes,        \* .active_sandboxes, by id
    pending,          \* .pending_sandbox_activations, by id
    official,         \* official_engine: the map of its world
    sandboxEngines,   \* sandbox_engines: the map of each world
    raceEngines,      \* local_race_engines: the map of each world
    due,              \* ids still to run in the batch of due operations
    now,              \* wall clock
    stopped,          \* the worker has left its loop
    seen              \* the last runtime state each client was given

state == <<revision, activity, mapId, tod, localRace, sandboxes, pending>>
worlds == <<official, sandboxEngines, raceEngines>>
vars == <<state, worlds, due, now, stopped, seen>>

-----------------------------------------------------------------------------
ViewOf(boxes) ==
    [i \in SandboxIds |->
        IF boxes[i] = Nil THEN Nil
        ELSE [map |-> boxes[i].map, tod |-> boxes[i].tod]]

RuntimeState ==
    [revision |-> revision, activity |-> activity, map |-> mapId, tod |-> tod,
     race |-> localRace, sandboxes |-> ViewOf(sandboxes), pending |-> pending]

Active == {i \in SandboxIds : sandboxes[i] # Nil}
is_sandbox_active(i) == sandboxes[i] # Nil

Init ==
    /\ revision = 0
    /\ activity = "None"
    /\ mapId = DefaultMap
    /\ tod = Unspecified
    /\ localRace = Nil
    /\ sandboxes = [i \in SandboxIds |-> Nil]
    /\ pending = [i \in SandboxIds |-> Nil]
    /\ official = Nil
    /\ sandboxEngines = [i \in SandboxIds |-> Nil]
    /\ raceEngines = [r \in RaceIds |-> Nil]
    /\ due = {}
    /\ now = 0
    /\ stopped = FALSE
    /\ seen = [c \in Clients |-> RuntimeState]

\* The select loop is at its select: the worker can take the next event.
Idle == ~stopped /\ due = {}

\* Mutated form: an operation due exactly now is taken for not yet due.
DueIdsLate(p) == {i \in SandboxIds : p[i] # Nil /\ p[i].at < now}

DueIds(p) == {i \in SandboxIds : p[i] # Nil /\ p[i].at <= now}

\* What follows every command and tick: the batch of due operations is
\* collected and, if there is one, runs before anything else.
ThenCollectDue ==
    /\ due' = DueIds(pending')
    /\ UNCHANGED <<now, stopped>>

\* Every compare-and-swap command compares the revision the client was given
\* with the current one, and increments it on success.
RevisionMatches(c) == seen[c].revision = revision
Bump ==
    /\ revision < MaxRevision
    /\ revision' = revision + 1
Cas(c) == Idle /\ RevisionMatches(c) /\ Bump

\* A successful command replies with the runtime state it produced.
Reply(c) == seen' = [seen EXCEPT ![c] = RuntimeState']

-----------------------------------------------------------------------------
(* Effects shared by commands and by scheduled operations. *)

\* Mutated form: the schedule keeps its entry for the sandbox just activated.
UpsertSandboxKeepsSchedule(i, m, t) ==
    /\ sandboxEngines' = [sandboxEngines EXCEPT ![i] = m]
    /\ sandboxes' = [sandboxes EXCEPT ![i] = [map |-> m, tod |-> t, weather |-> Nil]]
    /\ activity' = "Sandbox"
    /\ tod' = t
    /\ UNCHANGED <<mapId, localRace, pending, official, raceEngines>>

\* The Sandbox branch of switch_runtime after its checks.
UpsertSandbox(i, m, t) ==
    /\ sandboxEngines' = [sandboxEngines EXCEPT ![i] = m]
    /\ sandboxes' = [sandboxes EXCEPT ![i] = [map |-> m, tod |-> t, weather |-> Nil]]
    /\ activity' = "Sandbox"
    /\ tod' = t
    /\ pending' = [pending EXCEPT ![i] = Nil]
    /\ UNCHANGED <<mapId, localRace, official, raceEngines>>

\* Mutated form: the paused official world is kept.
FallBackKeepsOfficial ==
    /\ UNCHANGED official
    /\ IF localRace # Nil
       THEN /\ activity' = "LocalRace"
            /\ mapId' = localRace.map
            /\ tod' = localRace.tod
       ELSE /\ activity' = "None"
            /\ tod' = Unspecified
            /\ UNCHANGED mapId

\* Falling back when the last sandbox of a sandbox runtime goes away.
FallBack ==
    /\ official' = Nil
    /\ IF localRace # Nil
       THEN /\ activity' = "LocalRace"
            /\ mapId' = localRace.map
            /\ tod' = localRace.tod
       ELSE /\ activity' = "None"
            /\ tod' = Unspecified
            /\ UNCHANGED mapId

RemoveSandbox(i) ==
    /\ sandboxes' = [sandboxes EXCEPT ![i] = Nil]
    /\ sandboxEngines' = [sandboxEngines EXCEPT ![i] = Nil]
    /\ pending' = [pending EXCEPT ![i] = Nil]
    /\ IF Active \subseteq {i} /\ activity = "Sandbox"
       THEN FallBack
       ELSE UNCHANGED <<activity, mapId, tod, official>>
    /\ UNCHANGED <<localRace, raceEngines>>

\* Mutated form: the sandboxes are unlisted but their worlds keep running.
DropSandboxesKeepsWorlds ==
    /\ sandboxes' = [i \in SandboxIds |-> Nil]
    /\ UNCHANGED <<localRace, pending, sandboxEngines, raceEngines>>

\* switch_runtime to None and to OfficialRace: every sandbox world is torn
\* down; the active local race and the schedule are left alone.
DropSandboxes ==
    /\ sandboxes' = [i \in SandboxIds |-> Nil]
    /\ sandboxEngines' = [i \in SandboxIds |-> Nil]
    /\ UNCHANGED <<localRace, pending, raceEngines>>

-----------------------------------------------------------------------------
(* Commands. *)

SwitchToNone(c, m, t) ==
    /\ Cas(c)
    /\ m \notin InvalidMaps
    /\ DropSandboxes
    /\ official' = Nil
    /\ activity' = "None"
    /\ mapId' = m
    /\ tod' = t
    /\ ThenCollectDue
    /\ Reply(c)

SwitchToOfficialRace(c, m, t) ==
    /\ Cas(c)
    /\ m \notin BrokenMaps
    /\ DropSandboxes
    /\ official' = m
    /\ activity' = "OfficialRace"
    /\ mapId' = m
    /\ tod' = t
    /\ ThenCollectDue
    /\ Reply(c)

SwitchToSandbox(c, i, m, t) ==
    /\ Cas(c)
    /\ m \notin BrokenMaps
    /\ ~is_sandbox_active(i)
    /\ UpsertSandbox(i, m, t)
    /\ ThenCollectDue
    /\ Reply(c)

\* Succeeds, and increments the revision, also for a sandbox that is not there.
DeactivateSandbox(c, i) ==
    /\ Cas(c)
    /\ RemoveSandbox(i)
    /\ ThenCollectDue
    /\ Reply(c)

ActivateLocalRace(c, r, m, t) ==
    /\ Cas(c)
    /\ localRace = Nil
    /\ m \notin BrokenMaps
    /\ raceEngines' = [raceEngines EXCEPT ![r] = m]
    /\ localRace' = [race |-> r, map |-> m, tod |-> t]
    /\ IF Active = {} /\ activity # "OfficialRace"
       THEN /\ activity' = "LocalRace"
            /\ mapId' = m
            /\ tod' = t
       ELSE UNCHANGED <<activity, mapId, tod>>
    /\ UNCHANGED <<sandboxes, pending, official, sandboxEngines>>
    /\ ThenCollectDue
    /\ Reply(c)

DeactivateLocalRace(c, r) ==
    /\ Cas(c)
    /\ localRace # Nil
    /\ localRace.race = r
    /\ localRace' = Nil
    /\ raceEngines' = [raceEngines EXCEPT ![r] = Nil]
    /\ IF Active = {} /\ activity = "LocalRace"
       THEN /\ activity' = "None"
            /\ tod' = Unspecified
       ELSE UNCHANGED <<activity, tod>>
    /\ UNCHANGED <<mapId, sandboxes, pending, official, sandboxEngines>>
    /\ ThenCollectDue
    /\ Reply(c)

BumpRevision(c) ==
    /\ Cas(c)
    /\ UNCHANGED <<activity, mapId, tod, localRace, sandboxes, pending>>
    /\ UNCHANGED worlds
    /\ ThenCollectDue
    /\ Reply(c)

\* The sandbox to change may be left out when exactly one is active; the
\* command then means that one, so every accepted request names an active one.
SetRuntimeTimeOfDay(c, i, t) ==
    /\ Cas(c)
    /\ activity = "Sandbox"
    /\ is_sandbox_active(i)
    /\ sandboxes' = [sandboxes EXCEPT ![i].tod = t]
    /\ tod' = t
    /\ UNCHANGED <<activity, mapId, localRace, pending>>
    /\ UNCHANGED worlds
    /\ ThenCollectDue
    /\ Reply(c)

SetPendingSandboxActivation(c, i, p) ==
    /\ Cas(c)
    /\ p.activate => ~is_sandbox_active(i)
    /\ pending' = [pending EXCEPT ![i] = p]
    /\ UNCHANGED <<activity, mapId, tod, localRace, sandboxes>>
    /\ UNCHANGED worlds
    /\ ThenCollectDue
    /\ Reply(c)

\* Cancelling an operation that is not scheduled replies with the unchanged
\* state, like GetRuntimeState.
CancelPendingSandboxActivation(c, i) ==
    /\ Cas(c)
    /\ pending[i] # Nil
    /\ pending' = [pending EXCEPT ![i] = Nil]
    /\ UNCHANGED <<activity, mapId, tod, localRace, sandboxes>>
    /\ UNCHANGED worlds
    /\ ThenCollectDue
    /\ Reply(c)

\* SetWeather needs no revision and does not increment it.
SetWeather(i, w) ==
    /\ Idle
    /\ sandboxEngines[i] # Nil
    /\ is_sandbox_active(i)
    /\ sandboxes' = [sandboxes EXCEPT ![i].weather = w]
    /\ UNCHANGED <<revision, activity, mapId, tod, localRace, pending, worlds, seen>>
    /\ ThenCollectDue

GetRuntimeState(c) ==
    /\ Idle
    /\ UNCHANGED <<state, worlds>>
    /\ ThenCollectDue
    /\ Reply(c)

\* A simulation tick, a command to one world, or a refused command: none
\* changes the metadata, all are followed by the due operations.
Tick ==
    /\ Idle
    /\ UNCHANGED <<state, worlds, seen>>
    /\ ThenCollectDue

-----------------------------------------------------------------------------
(* Scheduled operations: one step per entry of the due batch, earliest      *)
(* first.  An error ends the batch and leaves the failed entry scheduled.   *)

EarliestDue(i) ==
    /\ i \in due
    /\ \A j \in due : pending[i].at <= pending[j].at

RunDueActivation(i) ==
    /\ EarliestDue(i)
    /\ pending[i].activate
    /\ IF is_sandbox_active(i)
       THEN /\ pending' = [pending EXCEPT ![i] = Nil]
            /\ UNCHANGED <<revision, activity, mapId, tod, localRace, sandboxes, worlds>>
       ELSE /\ pending[i].map \notin BrokenMaps
            /\ Bump
            /\ UpsertSandbox(i, pending[i].map, pending[i].tod)
    /\ due' = due \ {i}
    /\ UNCHANGED <<now, stopped, seen>>

DueActivationFails(i) ==
    /\ EarliestDue(i)
    /\ pending[i].activate
    /\ ~is_sandbox_active(i)
    /\ pending[i].map \in BrokenMaps
    /\ due' = {}
    /\ UNCHANGED <<state, worlds, now, stopped, seen>>

\* Mutated form: a scheduled deactivation does not count as a change.
RunDueDeactivationUncounted(i) ==
    /\ EarliestDue(i)
    /\ ~pending[i].activate
    /\ UNCHANGED revision
    /\ RemoveSandbox(i)
    /\ due' = due \ {i}
    /\ UNCHANGED <<now, stopped, seen>>

RunDueDeactivation(i) ==
    /\ EarliestDue(i)
    /\ ~pending[i].activate
    /\ Bump
    /\ RemoveSandbox(i)
    /\ due' = due \ {i}
    /\ UNCHANGED <<now, stopped, seen>>

-----------------------------------------------------------------------------
AdvanceClock ==
    /\ now < MaxTime
    /\ now' = now + 1
    /\ UNCHANGED <<state, worlds, due, stopped, seen>>

\* Shutdown broadcast, debug window closed, or command channel closed.
Stop ==
    /\ Idle
    /\ stopped' = TRUE
    /\ sandboxEngines' = [i \in SandboxIds |-> Nil]
    /\ raceEngines' = [r \in RaceIds |-> Nil]
    /\ official' = Nil
    /\ UNCHANGED <<state, due, now, seen>>

Command(c) ==
    \/ \E m \in Maps, t \in TimesOfDay : SwitchToNone(c, m, t)
    \/ \E m \in Maps, t \in TimesOfDay : SwitchToOfficialRace(c, m, t)
    \/ \E i \in SandboxIds, m \in Maps, t \in Presets : SwitchToSandbox(c, i, m, t)
    \/ \E i \in SandboxIds : DeactivateSandbox(c, i)
    \/ \E r \in RaceIds, m \in Maps, t \in Presets : ActivateLocalRace(c, r, m, t)
    \/ \E r \in RaceIds : DeactivateLocalRace(c, r)
    \/ BumpRevision(c)
    \/ \E i \in SandboxIds, t \in Presets : SetRuntimeTimeOfDay(c, i, t)
    \/ \E i \in SandboxIds, p \in Pending : SetPendingSandboxActivation(c, i, p)
    \/ \E i \in SandboxIds : CancelPendingSandboxActivation(c, i)
    \/ GetRuntimeState(c)

RunDue ==
    \E i \in SandboxIds :
        RunDueActivation(i) \/ DueActivationFails(i) \/ RunDueDeactivation(i)

Next ==
    \/ \E c \in Clients : Command(c)
    \/ \E i \in SandboxIds, w \in Weathers : SetWeather(i, w)
    \/ Tick
    \/ RunDue
    \/ AdvanceClock
    \/ Stop

Spec == Init /\ [][Next]_vars

\* The ticker fires forever and a started batch runs to its end without
\* waiting on anyone (there is no await in it); time passes.
Fairness == WF_vars(Tick) /\ WF_vars(RunDue) /\ WF_vars(AdvanceClock)
FairSpec == Spec /\ Fairness

-----------------------------------------------------------------------------
(* Properties. *)

StateOK ==
    /\ revision \in 0..MaxRevision
    /\ activity \in ActivityKinds
    /\ mapId \in Maps
    /\ tod \in TimesOfDay
    /\ localRace \in LocalRaceState \cup {Nil}
    /\ sandboxes \in [SandboxIds -> SandboxState \cup {Nil}]
    /\ pending \in [SandboxIds -> Pending \cup {Nil}]

WorldsOK ==
    /\ official \in Maps \cup {Nil}
    /\ sandboxEngines \in [SandboxIds -> Maps \cup {Nil}]
    /\ raceEngines \in [RaceIds -> Maps \cup {Nil}]

TypeOK ==
    /\ StateOK
    /\ WorldsOK
    /\ due \subseteq SandboxIds
    /\ now \in Times
    /\ stopped \in BOOLEAN
    /\ seen \in [Clients -> Snapshot]

\* The worlds the worker keeps stepping are exactly those its metadata lists,
\* each built with the map listed for it: no sandbox or local race is
\* advertised without a world, and no world outlives its entry, whatever
\* commands and scheduled operations ran (switch_runtime, deactivate_sandbox,
\* activate_local_race and deactivate_local_race update two structures each).
WorldsMatchState ==
    ~stopped =>
        /\ \A i \in SandboxIds :
              sandboxEngines[i] = IF sandboxes[i] = Nil THEN Nil ELSE sandboxes[i].map
        /\ \A r \in RaceIds :
              raceEngines[r] = IF localRace # Nil /\ localRace.race = r
                               THEN localRace.map ELSE Nil

\* activity_kind, which decides what the tick steps and which commands reach
\* the official world, agrees with the rest of the state: it is Sandbox while,
\* and only while, a sandbox is active; LocalRace and OfficialRace report the
\* map of a world that exists; and an official world is kept at most while a
\* race or the sandboxes that replaced it are active, so it is never leaked
\* past deactivate_sandbox's fallback.
ActivityCoherent ==
    /\ activity = "Sandbox" <=> Active # {}
    /\ activity = "LocalRace" =>
          localRace # Nil /\ mapId = localRace.map /\ tod = localRace.tod
    /\ activity = "OfficialRace" /\ ~stopped => official = mapId
    /\ official # Nil => activity \in {"OfficialRace", "Sandbox"}

\* An activation is never scheduled for a sandbox that is active: scheduling,
\* immediate activation and replacement of an entry close every order in which
\* that could happen, so the "already active" skip of
\* maybe_execute_due_pending_sandbox_activation is never taken.
NoActivationOfActive ==
    \A i \in SandboxIds :
        pending[i] # Nil /\ pending[i].activate => ~is_sandbox_active(i)

\* The compare-and-swap is sound: while the revision a client holds is
\* current, the runtime state it was given is current too, so a command that
\* passes the revision check acts on what its caller decided from.  Scheduled
\* operations change the state with no caller and must count as well.
SnapshotsAreSafe ==
    \A c \in Clients : seen[c].revision = revision => seen[c] = RuntimeState

\* A scheduled operation stuck behind one that fails: the batch ends at the
\* first error, and the failed entry is retried first at every tick.
Blocked(i) ==
    \E j \in SandboxIds :
        /\ pending[j] # Nil
        /\ pending[j].activate
        /\ pending[j].map \in BrokenMaps
        /\ pending[j].at <= now
        /\ pending[i] # Nil => pending[j].at <= pending[i].at

\* Every scheduled operation leaves the schedule (it ran, or was replaced or
\* cancelled) once it is due, unless an activation whose world cannot be built
\* is due no later, the worker stops, or the revision bound is reached.
DueOperationsRun ==
    \A i \in SandboxIds :
        (pending[i] # Nil /\ pending[i].at <= now)
            ~> (\/ pending[i] = Nil
                \/ pending[i].at > now
                \/ Blocked(i)
                \/ stopped
                \/ revision = MaxRevision)

=============================================================================
