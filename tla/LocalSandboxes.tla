--------------------------- MODULE LocalSandboxes ---------------------------
\* The sandboxes of a local backend: LocalSandboxAdminService and the JSON file
\* in which it keeps their configurations (services/local_sandbox_admin.rs,
\* local/sandbox_config_store/store.rs).
\*
\* A handler changes the store in memory under the write lock, lets the lock go
\* and then writes the file under the read lock, by truncating it and writing
\* it again on a blocking thread.  Handlers are concurrent, one step per await;
\* a handler is dropped with its caller, a write may fail, the process may
\* crash.  The fields of a configuration are left out: a content of the store
\* is its revision and the sandboxes it knows.

EXTENDS Naturals, FiniteSets

CONSTANTS
    Sandboxes,   \* sandbox ids
    Admins,      \* concurrent requests
    MaxActive,   \* max_active_sandboxes
    MaxRevision, \* bound: changes of the store
    MaxRuntime,  \* bound: revisions of the engine's runtime
    MaxFaults,   \* bound: failed writes, dropped handlers and crashes
    EmptyFile,       \* a file truncated with nothing written yet
    Partial,     \* a file cut off: no longer JSON
    Nil

\* Assumed of the constants.
LocalSandboxesAssumption ==
    /\ {MaxActive, MaxRevision, MaxRuntime, MaxFaults} \subseteq Nat
    /\ EmptyFile # Partial
    /\ {EmptyFile, Partial, Nil} \cap [rev: 0..MaxRevision, known: SUBSET Sandboxes] = {}

VARIABLES
    store,    \* LocalSandboxConfigState in memory, Nil while the process is down
    file,     \* the JSON file
    admin,    \* the request of each administrator
    orphan,   \* a write whose handler was dropped, or Nil
    runtime,  \* the engine: revision and active sandboxes
    started,  \* started_at_utc
    acked,    \* history: the last revision a request was told of
    hurt,     \* history: a write was cut short, failed or outlived its handler
    faults

vars == <<store, file, admin, orphan, runtime, started, acked, hurt, faults>>

Contents == [rev: 0..MaxRevision, known: SUBSET Sandboxes]
Idle == [at |-> "idle"]
Kinds == {"create", "update", "delete", "time", "weather", "spawn"}

TypeOK ==
    /\ store \in Contents \cup {Nil}
    /\ file \in Contents \cup {EmptyFile, Partial}
    /\ admin \in [Admins -> {Idle}
           \cup [at: {"change", "persist", "apply"}, kind: Kinds, id: Sandboxes, rev: 0..MaxRevision]
           \cup [at: {"write"}, kind: Kinds, id: Sandboxes, rev: 0..MaxRevision, raw: Contents]
           \cup [at: {"set", "switch", "weather", "undo", "forget"}, id: Sandboxes,
                 rev: 0..MaxRuntime]]
    /\ orphan \in Contents \cup {Nil}
    /\ runtime \in [rev: 0..MaxRuntime, active: SUBSET Sandboxes]
    /\ started \subseteq Sandboxes
    /\ acked \in 0..MaxRevision
    /\ hurt \in BOOLEAN
    /\ faults \in 0..MaxFaults

NoConfigs == [rev |-> 0, known |-> {}]

\* load_or_create found no file and wrote an empty store.
Init ==
    /\ store = NoConfigs /\ file = NoConfigs
    /\ admin = [a \in Admins |-> Idle]
    /\ orphan = Nil
    /\ runtime = [rev |-> 0, active |-> {}]
    /\ started = {}
    /\ acked = 0 /\ hurt = FALSE
    /\ faults = 0

Up == store # Nil
Free(a) == admin' = [admin EXCEPT ![a] = Idle]
Fault == faults < MaxFaults /\ faults' = faults + 1
Writers == {a \in Admins : admin[a].at = "write"}

(***************************************************************************)
(* Changing a configuration                                                *)
(***************************************************************************)

require_sandbox_not_active(s) == s \notin runtime.active

\* The handlers up to the store.  A request names the store's revision; with an
\* earlier one it changes nothing.  create and update fetch the map in between,
\* which may take long or fail.
Ask(a, k, s) ==
    /\ Up /\ admin[a].at = "idle"
    /\ admin' = [admin EXCEPT ![a] = [at |-> "change", kind |-> k, id |-> s,
                                      rev |-> store.rev]]
    /\ UNCHANGED <<store, file, orphan, runtime, started, acked, hurt, faults>>

create_local_sandbox_config(a) ==
    Up /\ \E s \in Sandboxes \ store.known : Ask(a, "create", s)

update_local_sandbox_config(a) ==
    \E s \in Sandboxes : require_sandbox_not_active(s) /\ Ask(a, "update", s)

delete_local_sandbox_config(a) ==
    \E s \in Sandboxes : require_sandbox_not_active(s) /\ Ask(a, "delete", s)

update_local_sandbox_time_of_day(a) == \E s \in Sandboxes : Ask(a, "time", s)
update_local_sandbox_weather(a) == \E s \in Sandboxes : Ask(a, "weather", s)
update_local_sandbox_spawn_mode(a) == \E s \in Sandboxes : Ask(a, "spawn", s)

\* The write lock: no file write is under way.
Locked(q) ==
    /\ Writers = {}
    /\ store.rev < MaxRevision
    /\ q.rev = store.rev

create_config(q) ==
    /\ q.kind = "create" /\ Locked(q)
    /\ q.id \notin store.known
    /\ store' = [rev |-> store.rev + 1, known |-> store.known \cup {q.id}]

delete_config(q) ==
    /\ q.kind = "delete" /\ Locked(q)
    /\ q.id \in store.known
    /\ store' = [rev |-> store.rev + 1, known |-> store.known \ {q.id}]

\* update_config, update_time_of_day, update_weather and update_spawn_mode.
update_config(q) ==
    /\ q.kind \notin {"create", "delete"} /\ Locked(q)
    /\ q.id \in store.known
    /\ store' = [store EXCEPT !.rev = @ + 1]

Change(a) ==
    LET q == admin[a] IN
    /\ q.at = "change"
    /\ create_config(q) \/ delete_config(q) \/ update_config(q)
    /\ admin' = [admin EXCEPT ![a] = [q EXCEPT !.at = "persist", !.rev = store.rev + 1]]
    /\ UNCHANGED <<file, orphan, runtime, started, acked, hurt, faults>>

\* The store refuses the request, the map cannot be fetched, or the caller goes
\* away where nothing is under way.
GivesUp(a) ==
    /\ admin[a].at \notin {"idle", "write"}
    /\ Free(a)
    /\ UNCHANGED <<store, file, orphan, runtime, started, acked, hurt, faults>>

\* Mutated form: the state is serialised where it was changed.
persistOwnChange(a) ==
    LET q == admin[a] IN
    /\ q.at = "persist"
    /\ admin' = [admin EXCEPT ![a] =
           [at |-> "write", kind |-> q.kind, id |-> q.id, rev |-> q.rev,
            raw |-> [store EXCEPT !.rev = q.rev]]]
    /\ file' = EmptyFile
    /\ UNCHANGED <<store, orphan, runtime, started, acked, hurt, faults>>

\* persist: the state is serialised under the read lock and the file opened for
\* writing, which truncates it.
persist(a) ==
    LET q == admin[a] IN
    /\ q.at = "persist"
    /\ admin' = [admin EXCEPT ![a] =
           [at |-> "write", kind |-> q.kind, id |-> q.id, rev |-> q.rev, raw |-> store]]
    /\ file' = EmptyFile
    /\ UNCHANGED <<store, orphan, runtime, started, acked, hurt, faults>>

\* The write is done and the change acknowledged, after a deletion with the
\* start time removed.  A new time of day or weather goes to the engine first.
Written(a) ==
    LET q == admin[a] IN
    /\ q.at = "write"
    /\ file' = q.raw
    /\ acked' = IF q.rev > acked THEN q.rev ELSE acked
    /\ started' = IF q.kind = "delete" THEN started \ {q.id} ELSE started
    /\ admin' = [admin EXCEPT ![a] =
           IF q.kind \in {"time", "weather"}
           THEN [at |-> "apply", kind |-> q.kind, id |-> q.id, rev |-> q.rev] ELSE Idle]
    /\ UNCHANGED <<store, orphan, runtime, hurt, faults>>

\* The write fails: the request fails, the change stays in memory.
WriteFails(a) ==
    /\ admin[a].at = "write" /\ Fault
    /\ file' \in {EmptyFile, Partial}
    /\ Free(a)
    /\ hurt' = TRUE
    /\ UNCHANGED <<store, orphan, runtime, started, acked>>

\* The handler is dropped and its lock with it; the blocking write goes on.
Dropped(a) ==
    /\ admin[a].at = "write" /\ orphan = Nil /\ Fault
    /\ orphan' = admin[a].raw
    /\ Free(a)
    /\ hurt' = TRUE
    /\ UNCHANGED <<store, file, runtime, started, acked>>

OrphanWrites ==
    /\ orphan # Nil
    /\ file' = orphan
    /\ orphan' = Nil
    /\ UNCHANGED <<store, admin, runtime, started, acked, hurt, faults>>

(***************************************************************************)
(* The runtime                                                             *)
(***************************************************************************)

Bump(active) ==
    runtime.rev < MaxRuntime /\ runtime' = [rev |-> runtime.rev + 1, active |-> active]

\* apply_time_of_day_if_active and apply_weather_if_active: the runtime is read;
\* the weather of a world has no revision.
Apply(a) ==
    LET q == admin[a] IN
    /\ q.at = "apply"
    /\ admin' = [admin EXCEPT ![a] =
           IF q.kind = "time" /\ q.id \in runtime.active
           THEN [at |-> "set", id |-> q.id, rev |-> runtime.rev] ELSE Idle]
    /\ UNCHANGED <<store, file, orphan, runtime, started, acked, hurt, faults>>

set_runtime_time_of_day(a) ==
    LET q == admin[a] IN
    /\ q.at = "set"
    /\ q.rev = runtime.rev
    /\ Bump(runtime.active)
    /\ Free(a)
    /\ UNCHANGED <<store, file, orphan, started, acked, hurt, faults>>

\* set_local_sandbox_activation: the configuration is found, the map fetched,
\* the runtime read and its revision and the limit checked.
Activate(a) ==
    /\ Up /\ admin[a].at = "idle"
    /\ \E s \in store.known :
           /\ s \in runtime.active \/ Cardinality(runtime.active) < MaxActive
           /\ admin' = [admin EXCEPT ![a] = [at |-> "switch", id |-> s, rev |-> runtime.rev]]
    /\ UNCHANGED <<store, file, orphan, runtime, started, acked, hurt, faults>>

SwitchRuntime(a) ==
    LET q == admin[a] IN
    /\ q.at = "switch"
    /\ q.rev = runtime.rev
    /\ Bump(runtime.active \cup {q.id})
    /\ admin' = [admin EXCEPT ![a] = [at |-> "weather", id |-> q.id, rev |-> runtime.rev + 1]]
    /\ UNCHANGED <<store, file, orphan, started, acked, hurt, faults>>

\* The weather of the new world is set and its start recorded; when that fails
\* the activation is rolled back.
SetWeather(a) ==
    LET q == admin[a] IN
    /\ q.at = "weather"
    /\ \/ q.id \in runtime.active /\ started' = started \cup {q.id} /\ Free(a)
       \/ UNCHANGED started /\ admin' = [admin EXCEPT ![a].at = "undo"]
    /\ UNCHANGED <<store, file, orphan, runtime, acked, hurt, faults>>

\* The rollback succeeds only while nothing else changed the runtime.
Rollback(a) ==
    LET q == admin[a] IN
    /\ q.at = "undo"
    /\ \/ q.rev = runtime.rev /\ q.id \in runtime.active /\ Bump(runtime.active \ {q.id})
       \/ UNCHANGED runtime
    /\ Free(a)
    /\ UNCHANGED <<store, file, orphan, started, acked, hurt, faults>>

Deactivate(a) ==
    /\ Up /\ admin[a].at = "idle"
    /\ \E s \in runtime.active :
           /\ Bump(runtime.active \ {s})
           /\ admin' = [admin EXCEPT ![a] = [at |-> "forget", id |-> s, rev |-> runtime.rev]]
    /\ UNCHANGED <<store, file, orphan, started, acked, hurt, faults>>

ForgetStart(a) ==
    /\ admin[a].at = "forget"
    /\ started' = started \ {admin[a].id}
    /\ Free(a)
    /\ UNCHANGED <<store, file, orphan, runtime, acked, hurt, faults>>

(***************************************************************************)
(* Crash and restart                                                       *)
(***************************************************************************)

\* A write under way leaves what it had written.
Crash ==
    /\ Up /\ Fault
    /\ store' = Nil
    /\ admin' = [a \in Admins |-> Idle]
    /\ orphan' = Nil
    /\ runtime' = [rev |-> 0, active |-> {}]
    /\ started' = {}
    /\ IF Writers # {} \/ orphan # Nil
       THEN hurt' = TRUE /\ file' \in {file, Partial}
       ELSE UNCHANGED <<hurt, file>>
    /\ UNCHANGED acked

\* load_or_create: an empty file is an empty store; a file that is not JSON
\* keeps the process from starting.
load_or_create ==
    /\ ~Up /\ file # Partial
    /\ store' = IF file = EmptyFile THEN NoConfigs ELSE file
    /\ UNCHANGED <<file, admin, orphan, runtime, started, acked, hurt, faults>>

AdminStep(a) ==
    \/ create_local_sandbox_config(a) \/ update_local_sandbox_config(a)
    \/ delete_local_sandbox_config(a) \/ update_local_sandbox_time_of_day(a)
    \/ update_local_sandbox_weather(a) \/ update_local_sandbox_spawn_mode(a)
    \/ Change(a) \/ GivesUp(a) \/ persist(a) \/ Written(a) \/ WriteFails(a) \/ Dropped(a)
    \/ Apply(a) \/ set_runtime_time_of_day(a)
    \/ Activate(a) \/ SwitchRuntime(a) \/ SetWeather(a) \/ Rollback(a)
    \/ Deactivate(a) \/ ForgetStart(a)

Next == (\E a \in Admins : AdminStep(a)) \/ OrphanWrites \/ Crash \/ load_or_create

Spec == Init /\ [][Next]_vars

(***************************************************************************)
(* Properties                                                              *)
(***************************************************************************)

\* An acknowledged change is durable: while no write was cut short by a crash,
\* failed or outlived its handler, the file holds it whenever no write is under
\* way, and a restarted process knows it, although changes are written outside
\* the lock under which they were made.
AcknowledgedIsDurable ==
    ~hurt => /\ Writers = {} => file \in Contents /\ file.rev >= acked
             /\ Up => store.rev >= acked

\* Not more than max_active_sandboxes sandboxes are active, although the limit
\* is checked in one engine command and the sandbox activated by a later one.
ActiveLimit == Cardinality(runtime.active) <= MaxActive

=============================================================================
