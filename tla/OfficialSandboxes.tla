-------------------------- MODULE OfficialSandboxes --------------------------
\* The sandboxes of the official backend: SandboxConfigAdminService and
\* RuntimeAdminService, the repository of sandbox configurations and the cache
\* through which the public menu reads it (services/sandbox_admin.rs,
\* db/repos/sandbox_config.rs, services/public_menu.rs).
\*
\* Handlers are concurrent, one step per await; a transaction and an engine
\* command are one step each.  A configuration is its time-of-day preset and
\* "rest" (name, map and ghost mode); operations scheduled for later are in
\* EngineWorker.

EXTENDS Naturals, FiniteSets

CONSTANTS
    Sandboxes,   \* sandbox ids (fresh UUIDs)
    Rests, Presets,
    Admins,      \* concurrent administrator requests
    Menus,       \* concurrent readers of the menu
    MaxRevision, \* bound: persisted changes
    MaxRuntime,  \* bound: revisions of the engine's runtime
    Nil

\* Assumed of the constants.
SandboxesAssumption ==
    /\ MaxRevision \in Nat /\ MaxRuntime \in Nat
    /\ Nil \notin Presets \cup Rests /\ Nil \notin [rest: Rests, preset: Presets]

Configs == [rest: Rests, preset: Presets]

VARIABLES
    configs,   \* sandbox_configs
    revision,  \* sandbox_config_state.revision
    runtime,   \* the engine: revision and the preset of each active sandbox
    admin,     \* the request of each administrator
    gen,       \* SandboxConfigCacheInvalidation.generation
    cache,     \* SandboxConfigCacheState
    menu       \* the poll of each reader

store == <<configs, revision>>
vars == <<configs, revision, runtime, admin, gen, cache, menu>>

Idle == [at |-> "idle"]
Kinds == {"create", "update", "delete", "time"}
Requests == [at: {"commit", "read", "set"}, kind: Kinds, id: Sandboxes,
             config: Configs \cup {Nil}, expected: 0..MaxRevision,
             runtime: 0..MaxRuntime]
Switches == [at: {"switch"}, id: Sandboxes, config: Configs, runtime: 0..MaxRuntime]
Tables == [Sandboxes -> Configs \cup {Nil}]

TypeOK ==
    /\ configs \in Tables
    /\ revision \in 0..MaxRevision
    /\ runtime \in [rev: 0..MaxRuntime, active: [Sandboxes -> Presets \cup {Nil}]]
    /\ admin \in [Admins -> {Idle} \cup Requests \cup Switches
                            \cup [at: {"invalidate"}, kind: Kinds, id: Sandboxes,
                                  config: Configs \cup {Nil}]]
    /\ gen \in 0..MaxRevision
    /\ cache \in [gen: 0..MaxRevision, fresh: BOOLEAN, rows: Tables]
    /\ menu \in [Menus -> {Idle} \cup [at: {"snapshot", "store"}, gen: 0..MaxRevision,
                                       rows: Tables \cup {Nil}]]

NoRows == [s \in Sandboxes |-> Nil]

\* The backend starts with what an earlier process left in the database, whose
\* revision counts from there; the cache is older than its time to live.
Init ==
    /\ configs \in Tables
    /\ revision = 0
    /\ runtime = [rev |-> 0, active |-> NoRows]
    /\ admin = [a \in Admins |-> Idle]
    /\ gen = 0
    /\ cache = [gen |-> 0, fresh |-> FALSE, rows |-> NoRows]
    /\ menu = [m \in Menus |-> Idle]

Free(a) == admin' = [admin EXCEPT ![a] = Idle]

(***************************************************************************)
(* Configurations                                                          *)
(***************************************************************************)

ensure_expected_revision(expected) == expected = revision

require_sandbox_not_active(s) == runtime.active[s] = Nil

\* A request that passed the checks of its handler and goes to the repository.
\* Its revision is the current one: with an earlier one it changes nothing.
Submit(a, k, s, c) ==
    /\ admin' = [admin EXCEPT ![a] = [at |-> "commit", kind |-> k, id |-> s, config |-> c,
                                      expected |-> revision, runtime |-> 0]]
    /\ UNCHANGED <<store, runtime, gen, cache, menu>>

create_sandbox_config(a) ==
    /\ admin[a].at = "idle"
    /\ \E s \in Sandboxes, c \in Configs :
           configs[s] = Nil /\ Submit(a, "create", s, c)

update_sandbox_config(a) ==
    /\ admin[a].at = "idle"
    /\ \E s \in Sandboxes, c \in Configs :
           require_sandbox_not_active(s) /\ Submit(a, "update", s, c)

delete_sandbox_config(a) ==
    /\ admin[a].at = "idle"
    /\ \E s \in Sandboxes :
           require_sandbox_not_active(s) /\ Submit(a, "delete", s, Nil)

\* The rest of the new configuration comes from a snapshot, of whose revision
\* nothing is asked.
update_sandbox_time_of_day(a) ==
    /\ admin[a].at = "idle"
    /\ \E s \in Sandboxes, p \in Presets :
           /\ configs[s] # Nil
           /\ Submit(a, "time", s, [configs[s] EXCEPT !.preset = p])

bump_revision == revision < MaxRevision /\ revision' = revision + 1

create_config(q) ==
    /\ q.kind = "create"
    /\ ensure_expected_revision(q.expected)
    /\ configs[q.id] = Nil
    /\ configs' = [configs EXCEPT ![q.id] = q.config]
    /\ bump_revision

\* Mutated form: the transaction does not look at the revision.
update_configUnchecked(q) ==
    /\ q.kind \in {"update", "time"}
    /\ configs[q.id] # Nil
    /\ configs' = [configs EXCEPT ![q.id] = q.config]
    /\ bump_revision

update_config(q) ==
    /\ q.kind \in {"update", "time"}
    /\ ensure_expected_revision(q.expected)
    /\ configs[q.id] # Nil
    /\ configs' = [configs EXCEPT ![q.id] = q.config]
    /\ bump_revision

delete_config(q) ==
    /\ q.kind = "delete"
    /\ ensure_expected_revision(q.expected)
    /\ configs[q.id] # Nil
    /\ configs' = [configs EXCEPT ![q.id] = Nil]
    /\ bump_revision

Commit(a) ==
    LET q == admin[a] IN
    /\ q.at = "commit"
    /\ create_config(q) \/ update_config(q) \/ delete_config(q)
    /\ admin' = [admin EXCEPT ![a] = [at |-> "invalidate", kind |-> q.kind, id |-> q.id,
                                      config |-> q.config]]
    /\ UNCHANGED <<runtime, gen, cache, menu>>

\* The transaction is refused, or the caller goes away before it.
RequestFails(a) ==
    /\ admin[a].at \in {"commit", "switch", "read", "set"}
    /\ Free(a)
    /\ UNCHANGED <<store, runtime, gen, cache, menu>>

\* A changed time of day is applied to the runtime next.
Invalidate(a) ==
    LET q == admin[a] IN
    /\ q.at = "invalidate"
    /\ gen' = gen + 1
    /\ \/ q.kind # "time" /\ Free(a)
       \/ q.kind = "time" /\ admin' = [admin EXCEPT ![a] =
              [at |-> "read", kind |-> "time", id |-> q.id, config |-> q.config,
               expected |-> 0, runtime |-> 0]]
    /\ UNCHANGED <<store, runtime, cache, menu>>

ReadRuntime(a) ==
    LET q == admin[a] IN
    /\ q.at = "read"
    /\ \/ /\ runtime.active[q.id] # Nil
          /\ admin' = [admin EXCEPT ![a].at = "set", ![a].runtime = runtime.rev]
       \/ runtime.active[q.id] = Nil /\ Free(a)
    /\ UNCHANGED <<store, runtime, gen, cache, menu>>

\* The engine checks its own revision and that the sandbox is active.
set_runtime_time_of_day(a) ==
    LET q == admin[a] IN
    /\ q.at = "set" /\ runtime.rev < MaxRuntime
    /\ q.runtime = runtime.rev /\ runtime.active[q.id] # Nil
    /\ runtime' = [rev |-> runtime.rev + 1,
                   active |-> [runtime.active EXCEPT ![q.id] = q.config.preset]]
    /\ Free(a)
    /\ UNCHANGED <<store, gen, cache, menu>>

(***************************************************************************)
(* Activation                                                              *)
(***************************************************************************)

\* schedule_sandbox_activation without a time: the configuration is read from
\* a snapshot, then the engine is asked to switch.
Activate(a) ==
    /\ admin[a].at = "idle"
    /\ \E s \in Sandboxes :
           /\ configs[s] # Nil
           /\ admin' = [admin EXCEPT ![a] = [at |-> "switch", id |-> s, config |-> configs[s],
                                             runtime |-> runtime.rev]]
    /\ UNCHANGED <<store, runtime, gen, cache, menu>>

SwitchRuntime(a) ==
    LET q == admin[a] IN
    /\ q.at = "switch" /\ runtime.rev < MaxRuntime
    /\ q.runtime = runtime.rev
    /\ runtime' = [rev |-> runtime.rev + 1,
                   active |-> [runtime.active EXCEPT ![q.id] = q.config.preset]]
    /\ Free(a)
    /\ UNCHANGED <<store, gen, cache, menu>>

\* The administrator's revision is the engine's.
Deactivate(a) ==
    /\ admin[a].at = "idle" /\ runtime.rev < MaxRuntime
    /\ \E s \in Sandboxes :
           /\ runtime.active[s] # Nil
           /\ runtime' = [rev |-> runtime.rev + 1,
                          active |-> [runtime.active EXCEPT ![s] = Nil]]
    /\ UNCHANGED <<store, admin, gen, cache, menu>>

(***************************************************************************)
(* The public menu                                                         *)
(***************************************************************************)

CacheHit == cache.gen = gen /\ cache.fresh

\* get_sandbox_configs reads the generation first, then looks the cache up.  A
\* hit is answered from the cache and changes nothing.
ReadCache(m) ==
    /\ menu[m].at = "idle"
    /\ ~CacheHit
    /\ menu' = [menu EXCEPT ![m] = [at |-> "snapshot", gen |-> gen, rows |-> Nil]]
    /\ UNCHANGED <<store, runtime, admin, gen, cache>>

ReadSnapshot(m) ==
    /\ menu[m].at = "snapshot"
    /\ menu' = [menu EXCEPT ![m].at = "store", ![m].rows = configs]
    /\ UNCHANGED <<store, runtime, admin, gen, cache>>

\* Mutated form: the entry is stored under the generation of the moment.
FillCacheLate(m) ==
    /\ menu[m].at = "store"
    /\ cache' = [gen |-> gen, fresh |-> TRUE, rows |-> menu[m].rows]
    /\ menu' = [menu EXCEPT ![m] = Idle]
    /\ UNCHANGED <<store, runtime, admin, gen>>

FillCache(m) ==
    /\ menu[m].at = "store"
    /\ cache' = [gen |-> menu[m].gen, fresh |-> TRUE, rows |-> menu[m].rows]
    /\ menu' = [menu EXCEPT ![m] = Idle]
    /\ UNCHANGED <<store, runtime, admin, gen>>

\* SANDBOX_CONFIG_CACHE_TTL_MS pass.
CacheExpires ==
    /\ cache.fresh
    /\ cache' = [cache EXCEPT !.fresh = FALSE]
    /\ UNCHANGED <<store, runtime, admin, gen, menu>>

AdminStep(a) ==
    \/ create_sandbox_config(a) \/ update_sandbox_config(a) \/ delete_sandbox_config(a)
    \/ update_sandbox_time_of_day(a) \/ Commit(a) \/ RequestFails(a) \/ Invalidate(a)
    \/ ReadRuntime(a) \/ set_runtime_time_of_day(a)
    \/ Activate(a) \/ SwitchRuntime(a) \/ Deactivate(a)

Next ==
    \/ \E a \in Admins : AdminStep(a)
    \/ \E m \in Menus : ReadCache(m) \/ ReadSnapshot(m) \/ FillCache(m)
    \/ CacheExpires

Spec == Init /\ [][Next]_vars

(***************************************************************************)
(* Properties                                                              *)
(***************************************************************************)

\* A change of the time of day changes nothing else: although the rest of the
\* configuration is taken from a snapshot whose revision is not compared with
\* the request's, no update committed in between is undone.
TimeOfDayKeepsRest ==
    [][\A a \in Admins, s \in Sandboxes :
           admin[a].at = "commit" /\ admin'[a].at = "invalidate" /\ admin[a].kind = "time"
               => configs'[s] = configs[s]
                  \/ (s = admin[a].id /\ configs'[s].rest = configs[s].rest)]_vars

\* Once no administrator stands between commit and invalidation, a cache entry
\* of the current generation holds the persisted configurations, whatever
\* polls and changes overlapped while it was filled.
CacheShowsConfigs ==
    (\A a \in Admins : admin[a].at # "invalidate") /\ CacheHit => cache.rows = configs

=============================================================================
