--------------------------- MODULE RecordsProofs ---------------------------
(***************************************************************************)
(* Proofs about the official services that cache what is kept elsewhere or *)
(* is costly to make, for every number of administrators, readers,         *)
(* requests and records: the race schedule (RaceSchedule), the             *)
(* configurations of the sandboxes (OfficialSandboxes), the tokens and     *)
(* teams asked of other services (ServiceTokens), the weather schedule     *)
(* with its forecasts (WeatherCache, Forecast) and the hashes and          *)
(* downloads of the asset service (AssetService).                          *)
(*                                                                         *)
(* The caches of the menu are right for the same reason.  A change commits *)
(* and then takes a new generation; a poll reads the generation before the *)
(* records.  So whatever a poll or the cache holds under the CURRENT       *)
(* generation can differ from the records only by changes that are         *)
(* committed and have not taken their generation yet.                      *)
(***************************************************************************)
EXTENDS MCRecords, Integers, Sequences, FiniteSets, FiniteSetTheorems,
        NaturalsInduction, WellFoundedInduction, TLAPS

-----------------------------------------------------------------------------
(* The sandbox configurations. *)

\* What the record of an administrator may be.
Invalidations ==
    [at: {"invalidate"}, kind: Official!Kinds, id: OfficialIds,
     config: Official!Configs \cup {Nil}]
AdminStates ==
    {Official!Idle} \cup Official!Requests \cup Official!Switches \cup Invalidations
Polls == [at: {"snapshot", "store"}, gen: 0..MaxRevision, rows: Official!Tables \cup {Nil}]

\* A change of the time of day carries a configuration until it is applied; one
\* whose revision is still the current one carries the rest of the persisted
\* configuration.
RequestOK(q) ==
    /\ q.at \in {"commit", "invalidate"} /\ q.kind = "time" => q.config \in Official!Configs
    /\ q.at \in {"read", "set"} => q.config \in Official!Configs
    /\ q.at = "commit" => q.expected <= revision
    /\ q.at = "commit" /\ q.kind = "time" /\ q.expected = revision =>
           configs[q.id] # Nil /\ q.config.rest = configs[q.id].rest

RequestsOK == \A a \in Admins : RequestOK(admin[a])

Unannounced == {a \in Admins : admin[a].at = "invalidate"}

\* Every generation is that of a committed change.
GenerationsCount ==
    IsFiniteSet(Unannounced) /\ gen + Cardinality(Unannounced) <= revision

\* What the cache and the polls hold: nothing of a later generation, and, under
\* the current one, the persisted configurations.
EntriesOK ==
    /\ cache.gen <= gen
    /\ \A m \in Menus : menu[m].at # "idle" => menu[m].gen <= gen
    /\ \A m \in Menus : menu[m].at = "store" => menu[m].rows \in Official!Tables
    /\ (\A a \in Admins : admin[a].at # "invalidate") =>
          /\ cache.gen = gen /\ cache.fresh => cache.rows = configs
          /\ \A m \in Menus : menu[m].at = "store" /\ menu[m].gen = gen =>
                                  menu[m].rows = configs

OfficialInv == Official!TypeOK /\ RequestsOK /\ GenerationsCount /\ EntriesOK

\* The step of a request tells what its record is.
LEMMA AdminRecord ==
    ASSUME Official!TypeOK, NEW a \in Admins
    PROVE  /\ admin[a] \in AdminStates
           /\ admin[a].at \in {"idle", "commit", "read", "set", "switch", "invalidate"}
           /\ admin[a].at \in {"commit", "read", "set"} => admin[a] \in Official!Requests
           /\ admin[a].at = "switch" => admin[a] \in Official!Switches
           /\ admin[a].at = "invalidate" => admin[a] \in Invalidations
<1>1. admin[a] \in AdminStates
  BY DEF Official!TypeOK, AdminStates, Invalidations
<1>2. QED
  BY <1>1 DEF AdminStates, Invalidations, Official!Idle, Official!Requests,
              Official!Switches

\* The step of a poll tells what its record is.
LEMMA PollRecord ==
    ASSUME Official!TypeOK, NEW m \in Menus
    PROVE  /\ menu[m].at \in {"idle", "snapshot", "store"}
           /\ menu[m].at # "idle" => menu[m] \in Polls
<1>1. menu[m] \in {Official!Idle} \cup Polls
  BY DEF Official!TypeOK, Polls
<1>2. QED
  BY <1>1 DEF Polls, Official!Idle

\* A request whose record changes outside the stretch between its commit and its
\* invalidation, and the runtime with it or not, leaves the invariant as it is.
LEMMA RequestMoves ==
    ASSUME OfficialInv, NEW a \in Admins, NEW q \in AdminStates,
           q.at # "invalidate", admin[a].at # "invalidate", RequestOK(q),
           admin' = [admin EXCEPT ![a] = q],
           runtime' \in [rev: 0..MaxRuntime, active: [OfficialIds -> Presets \cup {Nil}]],
           UNCHANGED <<configs, revision, gen, cache, menu>>
    PROVE  OfficialInv'
<1> USE DEF OfficialInv
<1>1. admin' \in [Admins -> AdminStates]
  BY AdminRecord DEF Official!TypeOK, AdminStates, Invalidations
<1>2. Official!TypeOK'
  BY <1>1 DEF Official!TypeOK, AdminStates, Invalidations
<1>3. RequestsOK'
  BY DEF RequestsOK, RequestOK, Official!TypeOK
<1>4. \A b \in Admins : admin'[b].at = "invalidate" <=> admin[b].at = "invalidate"
  BY DEF Official!TypeOK
<1>5. GenerationsCount'
  <2>1. Unannounced' = Unannounced
    BY <1>4 DEF Unannounced
  <2>2. QED
    BY <2>1 DEF GenerationsCount
<1>6. EntriesOK'
  BY <1>4 DEF EntriesOK
<1>7. QED
  BY <1>2, <1>3, <1>5, <1>6

\* The handlers up to the repository, the end of a request and the activations.
LEMMA RequestSteps ==
    ASSUME OfficialInv, NEW a \in Admins,
           \/ Official!create_sandbox_config(a) \/ Official!update_sandbox_config(a)
           \/ Official!delete_sandbox_config(a) \/ Official!update_sandbox_time_of_day(a)
           \/ Official!RequestFails(a) \/ Official!ReadRuntime(a)
           \/ Official!set_runtime_time_of_day(a) \/ Official!Activate(a)
           \/ Official!SwitchRuntime(a) \/ Official!Deactivate(a)
    PROVE  OfficialInv'
<1> USE DEF OfficialInv
<1>t. /\ configs \in [OfficialIds -> Official!Configs \cup {Nil}]
      /\ revision \in 0..MaxRevision /\ MaxRevision \in Nat /\ MaxRuntime \in Nat
      /\ runtime \in [rev: 0..MaxRuntime, active: [OfficialIds -> Presets \cup {Nil}]]
      /\ admin \in [Admins -> AdminStates]
      /\ Nil \notin Presets /\ Nil \notin Official!Configs
  BY Assumptions DEF Official!TypeOK, Official!Tables, AdminStates, Invalidations,
                     Official!SandboxesAssumption, Official!Configs
<1>r. admin[a] \in AdminStates /\ RequestOK(admin[a])
  BY <1>t DEF RequestsOK
<1>i. Official!Idle \in AdminStates /\ Official!Idle.at = "idle" /\ RequestOK(Official!Idle)
  BY DEF AdminStates, Official!Idle, RequestOK
<1>f. ASSUME admin' = [admin EXCEPT ![a] = Official!Idle], admin[a].at # "invalidate",
             runtime' \in [rev: 0..MaxRuntime, active: [OfficialIds -> Presets \cup {Nil}]],
             UNCHANGED <<configs, revision, gen, cache, menu>>
      PROVE  OfficialInv'
  BY <1>i, <1>f, RequestMoves
<1>s. ASSUME NEW k \in Official!Kinds, NEW s \in OfficialIds,
             NEW c \in Official!Configs \cup {Nil},
             k = "time" => /\ c \in Official!Configs /\ configs[s] # Nil
                           /\ c.rest = configs[s].rest,
             admin[a].at = "idle", Official!Submit(a, k, s, c)
      PROVE  OfficialInv'
  <2> DEFINE q == [at |-> "commit", kind |-> k, id |-> s, config |-> c,
                   expected |-> revision, runtime |-> 0]
  <2>1. q \in AdminStates
    BY <1>t DEF AdminStates, Official!Requests
  <2>2. RequestOK(q)
    BY <1>s, <1>t DEF RequestOK
  <2>3. /\ admin' = [admin EXCEPT ![a] = q]
        /\ UNCHANGED <<configs, revision, gen, cache, menu, runtime>>
    BY <1>s DEF Official!Submit, Official!store
  <2> HIDE DEF q
  <2>4. q.at = "commit"
    BY DEF q
  <2>5. QED
    BY <1>s, <1>t, <2>1, <2>2, <2>3, <2>4, RequestMoves
<1>p. ASSUME NEW s, NEW p \in Presets \cup {Nil}, runtime.rev < MaxRuntime,
             runtime' = [rev |-> runtime.rev + 1,
                         active |-> [runtime.active EXCEPT ![s] = p]]
      PROVE  runtime' \in [rev: 0..MaxRuntime, active: [OfficialIds -> Presets \cup {Nil}]]
  <2>1. runtime.rev \in 0..MaxRuntime /\ runtime.active \in [OfficialIds -> Presets \cup {Nil}]
    BY <1>t
  <2> DEFINE f == [runtime.active EXCEPT ![s] = p]
  <2>2. f \in [OfficialIds -> Presets \cup {Nil}]
    BY <2>1
  <2> HIDE DEF f
  <2>3. runtime' = [rev |-> runtime.rev + 1, active |-> f]
    BY <1>p DEF f
  <2>4. QED
    BY <2>1, <2>2, <2>3, <1>p, <1>t
<1>1. CASE Official!create_sandbox_config(a)
  BY <1>1, <1>s DEF Official!create_sandbox_config, Official!Kinds
<1>2. CASE Official!update_sandbox_config(a)
  BY <1>2, <1>s DEF Official!update_sandbox_config, Official!Kinds
<1>3. CASE Official!delete_sandbox_config(a)
  BY <1>3, <1>s DEF Official!delete_sandbox_config, Official!Kinds
<1>4. CASE Official!update_sandbox_time_of_day(a)
  <2>1. PICK s \in OfficialIds, p \in Presets :
            /\ configs[s] # Nil
            /\ Official!Submit(a, "time", s, [configs[s] EXCEPT !.preset = p])
    BY <1>4 DEF Official!update_sandbox_time_of_day
  <2>2. configs[s] \in Official!Configs
    BY <1>t, <2>1
  <2> DEFINE c == [configs[s] EXCEPT !.preset = p]
  <2>3. c \in Official!Configs /\ c.rest = configs[s].rest
    BY <2>2 DEF Official!Configs
  <2>4. admin[a].at = "idle"
    BY <1>4 DEF Official!update_sandbox_time_of_day
  <2> HIDE DEF c
  <2>5. Official!Submit(a, "time", s, c)
    BY <2>1 DEF c
  <2>6. QED
    BY <2>1, <2>3, <2>4, <2>5, <1>s DEF Official!Kinds
<1>5. CASE Official!RequestFails(a)
  BY <1>5, <1>f, <1>t DEF Official!RequestFails, Official!Free, Official!store
<1>6. CASE Official!ReadRuntime(a)
  <2>1. CASE Official!Free(a)
    BY <1>6, <2>1, <1>f, <1>t DEF Official!ReadRuntime, Official!Free, Official!store
  <2>2. CASE admin' = [admin EXCEPT ![a].at = "set", ![a].runtime = runtime.rev]
    <3> DEFINE q == [admin[a] EXCEPT !.at = "set", !.runtime = runtime.rev]
    <3>1. admin[a].at = "read" /\ admin[a] \in Official!Requests
      BY <1>6, AdminRecord DEF Official!ReadRuntime
    <3>2. q \in Official!Requests /\ q.at = "set" /\ q.config = admin[a].config
      BY <3>1, <1>t DEF Official!Requests
    <3>3. admin' = [admin EXCEPT ![a] = q]
      BY <2>2, <1>t
    <3> HIDE DEF q
    <3>4. RequestOK(q)
      BY <3>1, <3>2, <1>r DEF RequestOK
    <3>5. q \in AdminStates
      BY <3>2 DEF AdminStates
    <3>6. QED
      BY <1>6, <3>1, <3>2, <3>3, <3>4, <3>5, <1>t, RequestMoves
         DEF Official!ReadRuntime, Official!store
  <2>3. QED
    BY <1>6, <2>1, <2>2 DEF Official!ReadRuntime
<1>7. CASE Official!set_runtime_time_of_day(a)
  <2>1. admin[a].at = "set" /\ admin[a] \in Official!Requests
    BY <1>7, AdminRecord DEF Official!set_runtime_time_of_day
  <2>2. admin[a].config.preset \in Presets
    BY <2>1, <1>r DEF RequestOK, Official!Configs
  <2>3. runtime' \in [rev: 0..MaxRuntime, active: [OfficialIds -> Presets \cup {Nil}]]
    BY <1>7, <2>2, <1>p DEF Official!set_runtime_time_of_day
  <2>4. QED
    BY <1>7, <2>1, <2>3, <1>f
       DEF Official!set_runtime_time_of_day, Official!Free, Official!store
<1>8. CASE Official!Activate(a)
  <2>1. PICK s \in OfficialIds :
            /\ configs[s] # Nil
            /\ admin' = [admin EXCEPT ![a] = [at |-> "switch", id |-> s,
                                              config |-> configs[s],
                                              runtime |-> runtime.rev]]
    BY <1>8 DEF Official!Activate
  <2> DEFINE q == [at |-> "switch", id |-> s, config |-> configs[s],
                   runtime |-> runtime.rev]
  <2>2. q \in AdminStates
    BY <2>1, <1>t DEF AdminStates, Official!Switches
  <2>3. q.at = "switch" /\ RequestOK(q)
    BY DEF RequestOK
  <2> HIDE DEF q
  <2>4. QED
    BY <1>8, <2>1, <2>2, <2>3, <1>t, RequestMoves DEF q, Official!Activate, Official!store
<1>9. CASE Official!SwitchRuntime(a)
  <2>1. admin[a].at = "switch" /\ admin[a] \in Official!Switches
    BY <1>9, AdminRecord DEF Official!SwitchRuntime
  <2>2. admin[a].config.preset \in Presets
    BY <2>1 DEF Official!Switches, Official!Configs
  <2>3. runtime' \in [rev: 0..MaxRuntime, active: [OfficialIds -> Presets \cup {Nil}]]
    BY <1>9, <2>2, <1>p DEF Official!SwitchRuntime
  <2>4. QED
    BY <1>9, <2>1, <2>3, <1>f DEF Official!SwitchRuntime, Official!Free, Official!store
<1>10. CASE Official!Deactivate(a)
  <2>1. UNCHANGED <<configs, revision, admin, gen, cache, menu>>
    BY <1>10 DEF Official!Deactivate, Official!store
  <2>2. runtime' \in [rev: 0..MaxRuntime, active: [OfficialIds -> Presets \cup {Nil}]]
    BY <1>10, <1>p DEF Official!Deactivate
  <2>3. Official!TypeOK'
    BY <2>1, <2>2 DEF Official!TypeOK
  <2>4. QED
    BY <2>1, <2>3 DEF RequestsOK, RequestOK, GenerationsCount, Unannounced, EntriesOK
<1>11. QED
  BY <1>1, <1>2, <1>3, <1>4, <1>5, <1>6, <1>7, <1>8, <1>9, <1>10

\* A commit makes every other request's revision old, and its own change is not
\* announced yet.
LEMMA CommitStep ==
    ASSUME OfficialInv, NEW a \in Admins, Official!Commit(a)
    PROVE  /\ OfficialInv'
           /\ admin[a].kind = "time" =>
                  \A s \in OfficialIds : \/ configs'[s] = configs[s]
                                         \/ /\ s = admin[a].id
                                            /\ configs'[s].rest = configs[s].rest
<1> USE DEF OfficialInv
<1> DEFINE q == [at |-> "invalidate", kind |-> admin[a].kind, id |-> admin[a].id,
                 config |-> admin[a].config]
<1>1. /\ admin[a].at = "commit" /\ admin[a] \in Official!Requests
      /\ RequestOK(admin[a])
  BY AdminRecord DEF Official!Commit, RequestsOK
<1>2. /\ admin' = [admin EXCEPT ![a] = q]
      /\ UNCHANGED <<runtime, gen, cache, menu>>
      /\ admin[a].expected = revision
      /\ revision < MaxRevision /\ revision' = revision + 1
      /\ \/ admin[a].kind = "delete" /\ configs' = [configs EXCEPT ![admin[a].id] = Nil]
         \/ configs' = [configs EXCEPT ![admin[a].id] = admin[a].config]
  BY DEF Official!Commit, Official!create_config, Official!update_config,
         Official!delete_config, Official!ensure_expected_revision,
         Official!bump_revision
<1>3. q \in Invalidations /\ q.at = "invalidate" /\ q.kind = admin[a].kind
      /\ q.config = admin[a].config
  BY <1>1 DEF Invalidations, Official!Requests
<1> HIDE DEF q
<1>t. /\ configs \in [OfficialIds -> Official!Configs \cup {Nil}]
      /\ revision \in 0..MaxRevision /\ MaxRevision \in Nat
      /\ admin \in [Admins -> AdminStates]
      /\ admin[a].id \in OfficialIds
      /\ admin[a].config \in Official!Configs \cup {Nil}
      /\ gen \in Nat
  BY <1>1, Assumptions DEF Official!TypeOK, Official!Tables, AdminStates, Invalidations,
                           Official!SandboxesAssumption, Official!Requests
<1>4. Official!TypeOK'
  <2>1. admin' \in [Admins -> AdminStates]
    BY <1>2, <1>3, <1>t DEF AdminStates
  <2>2. configs' \in Official!Tables /\ revision' \in 0..MaxRevision
    BY <1>2, <1>t DEF Official!Tables
  <2>3. QED
    BY <1>2, <2>1, <2>2 DEF Official!TypeOK, AdminStates, Invalidations
<1>5. RequestsOK'
  <2> SUFFICES ASSUME NEW b \in Admins PROVE RequestOK(admin[b])'
    BY DEF RequestsOK
  <2>1. CASE b = a
    BY <2>1, <1>1, <1>2, <1>3, <1>t DEF RequestOK
  <2>2. CASE b # a
    <3>1. admin'[b] = admin[b] /\ RequestOK(admin[b])
      BY <2>2, <1>2, <1>t DEF RequestsOK
    <3>2. admin[b].at = "commit" => admin[b].expected \in Nat
      BY AdminRecord DEF Official!Requests
    <3>3. QED
      BY <3>1, <3>2, <1>2, <1>t DEF RequestOK
  <2>3. QED
    BY <2>1, <2>2
<1>6. admin'[a].at = "invalidate"
  BY <1>2, <1>3, <1>t
<1>7. GenerationsCount'
  <2>1. Unannounced' = Unannounced \cup {a} /\ a \notin Unannounced
    BY <1>1, <1>2, <1>3, <1>t DEF Unannounced
  <2>2. /\ IsFiniteSet(Unannounced')
        /\ Cardinality(Unannounced') = Cardinality(Unannounced) + 1
        /\ Cardinality(Unannounced) \in Nat
    BY <2>1, FS_AddElement, FS_CardinalityType DEF GenerationsCount
  <2>3. gen' + Cardinality(Unannounced') <= revision'
    BY <2>2, <1>2, <1>t DEF GenerationsCount
  <2>4. QED
    BY <2>2, <2>3 DEF GenerationsCount
<1>8. EntriesOK'
  BY <1>2, <1>6 DEF EntriesOK
<1>9. ASSUME admin[a].kind = "time", NEW s \in OfficialIds
      PROVE  \/ configs'[s] = configs[s]
             \/ s = admin[a].id /\ configs'[s].rest = configs[s].rest
  BY <1>9, <1>1, <1>2, <1>t DEF RequestOK
<1>10. QED
  BY <1>4, <1>5, <1>7, <1>8, <1>9

\* A new generation leaves nothing of the current one in the cache or a poll.
LEMMA InvalidateStep ==
    ASSUME OfficialInv, NEW a \in Admins, Official!Invalidate(a)
    PROVE  OfficialInv'
<1> USE DEF OfficialInv
<1>t. /\ revision \in 0..MaxRevision /\ MaxRevision \in Nat /\ MaxRuntime \in Nat
      /\ admin \in [Admins -> AdminStates]
      /\ gen \in Nat
  BY Assumptions DEF Official!TypeOK, AdminStates, Invalidations,
                     Official!SandboxesAssumption
<1>1. admin[a].at = "invalidate" /\ admin[a] \in Invalidations /\ RequestOK(admin[a])
  BY AdminRecord DEF Official!Invalidate, RequestsOK
<1>2. /\ gen' = gen + 1
      /\ UNCHANGED <<configs, revision, runtime, cache, menu>>
  BY DEF Official!Invalidate, Official!store
<1>3. PICK q \in AdminStates :
          /\ q.at # "invalidate" /\ RequestOK(q)
          /\ admin' = [admin EXCEPT ![a] = q]
  <2>1. CASE Official!Free(a)
    <3>1. /\ Official!Idle \in AdminStates /\ Official!Idle.at # "invalidate"
          /\ RequestOK(Official!Idle)
      BY DEF AdminStates, Official!Idle, RequestOK
    <3>2. QED
      BY <2>1, <3>1 DEF Official!Free
  <2>2. CASE /\ admin[a].kind = "time"
             /\ admin' = [admin EXCEPT ![a] =
                   [at |-> "read", kind |-> "time", id |-> admin[a].id,
                    config |-> admin[a].config, expected |-> 0, runtime |-> 0]]
    <3> DEFINE q == [at |-> "read", kind |-> "time", id |-> admin[a].id,
                     config |-> admin[a].config, expected |-> 0, runtime |-> 0]
    <3>1. q \in AdminStates /\ q.at # "invalidate" /\ RequestOK(q)
      BY <2>2, <1>1, <1>t DEF AdminStates, Official!Requests, Invalidations, RequestOK,
                              Official!Kinds
    <3>2. admin' = [admin EXCEPT ![a] = q]
      BY <2>2
    <3> HIDE DEF q
    <3>3. QED
      BY <3>1, <3>2
  <2>3. QED
    BY <2>1, <2>2 DEF Official!Invalidate
<1>4. Unannounced' = Unannounced \ {a} /\ a \in Unannounced
  BY <1>1, <1>3, <1>t DEF Unannounced
<1>5. /\ IsFiniteSet(Unannounced')
      /\ Cardinality(Unannounced') = Cardinality(Unannounced) - 1
      /\ Cardinality(Unannounced) \in Nat
  BY <1>4, FS_RemoveElement, FS_CardinalityType DEF GenerationsCount
<1>6. gen' + Cardinality(Unannounced') <= revision'
  BY <1>5, <1>2, <1>t DEF GenerationsCount
<1>7. Cardinality(Unannounced') \in Nat
  BY <1>5, FS_CardinalityType
<1>8. gen' \in 0..MaxRevision
  BY <1>2, <1>6, <1>7, <1>t
<1>9. Official!TypeOK'
  <2>1. admin' \in [Admins -> AdminStates]
    BY <1>3, <1>t
  <2>2. QED
    BY <2>1, <1>2, <1>8 DEF Official!TypeOK, AdminStates, Invalidations
<1>10. RequestsOK'
  BY <1>2, <1>3, <1>t DEF RequestsOK, RequestOK
<1>11. GenerationsCount'
  BY <1>5, <1>6 DEF GenerationsCount
<1>12. EntriesOK'
  <2>1. cache.gen <= gen /\ cache.gen \in Nat
    BY DEF EntriesOK, Official!TypeOK
  <2>2. \A m \in Menus : menu[m].at # "idle" => menu[m].gen <= gen /\ menu[m].gen \in Nat
    BY PollRecord DEF EntriesOK, Polls
  <2>3. cache.gen < gen' /\ \A m \in Menus : menu[m].at # "idle" => menu[m].gen < gen'
    BY <2>1, <2>2, <1>2, <1>t
  <2>4. QED
    BY <2>1, <2>2, <2>3, <1>2, <1>t DEF EntriesOK
<1>13. QED
  BY <1>9, <1>10, <1>11, <1>12

\* A poll takes the generation before the rows and stores both together.
LEMMA MenuStep ==
    ASSUME OfficialInv, NEW m \in Menus,
           \/ Official!ReadCache(m) \/ Official!ReadSnapshot(m) \/ Official!FillCache(m)
    PROVE  OfficialInv'
<1> USE DEF OfficialInv
<1>t. /\ configs \in Official!Tables
      /\ menu \in [Menus -> {Official!Idle} \cup Polls]
      /\ gen \in 0..MaxRevision
      /\ Official!Idle.at = "idle"
  BY DEF Official!TypeOK, Polls, Official!Idle
<1>1. UNCHANGED <<configs, revision, runtime, admin, gen>>
  BY DEF Official!ReadCache, Official!ReadSnapshot, Official!FillCache, Official!store
<1>2. RequestsOK' /\ GenerationsCount'
  BY <1>1 DEF RequestsOK, RequestOK, GenerationsCount, Unannounced
<1>3. ASSUME menu' \in [Menus -> {Official!Idle} \cup Polls],
             cache' \in [gen: 0..MaxRevision, fresh: BOOLEAN, rows: Official!Tables]
      PROVE  Official!TypeOK'
  BY <1>1, <1>3 DEF Official!TypeOK, Polls
<1>4. CASE Official!ReadCache(m)
  <2> DEFINE p == [at |-> "snapshot", gen |-> gen, rows |-> Nil]
  <2>1. p \in Polls /\ p.at = "snapshot" /\ p.gen = gen
    BY <1>t DEF Polls
  <2> HIDE DEF p
  <2>2. menu' = [menu EXCEPT ![m] = p] /\ UNCHANGED cache
    BY <1>4 DEF Official!ReadCache, p
  <2>3. Official!TypeOK'
    BY <2>1, <2>2, <1>3, <1>t DEF Official!TypeOK
  <2>4. EntriesOK'
    BY <2>1, <2>2, <1>1, <1>t DEF EntriesOK
  <2>5. QED
    BY <2>3, <2>4, <1>2
<1>5. CASE Official!ReadSnapshot(m)
  <2> DEFINE p == [menu[m] EXCEPT !.at = "store", !.rows = configs]
  <2>1. menu[m] \in Polls /\ menu[m].at = "snapshot"
    BY <1>5, PollRecord DEF Official!ReadSnapshot
  <2>2. p \in Polls /\ p.at = "store" /\ p.gen = menu[m].gen /\ p.rows = configs
    BY <2>1, <1>t DEF Polls
  <2>3. menu' = [menu EXCEPT ![m] = p] /\ UNCHANGED cache
    BY <1>5, <1>t DEF Official!ReadSnapshot
  <2> HIDE DEF p
  <2>4. Official!TypeOK'
    BY <2>2, <2>3, <1>3, <1>t DEF Official!TypeOK
  <2>5. EntriesOK'
    BY <2>1, <2>2, <2>3, <1>1, <1>t DEF EntriesOK
  <2>6. QED
    BY <2>4, <2>5, <1>2
<1>6. CASE Official!FillCache(m)
  <2>1. menu[m] \in Polls /\ menu[m].at = "store"
    BY <1>6, PollRecord DEF Official!FillCache
  <2>2. menu[m].gen \in 0..MaxRevision /\ menu[m].rows \in Official!Tables
    BY <2>1 DEF Polls, EntriesOK
  <2>3. /\ menu' = [menu EXCEPT ![m] = Official!Idle]
        /\ cache' = [gen |-> menu[m].gen, fresh |-> TRUE, rows |-> menu[m].rows]
    BY <1>6 DEF Official!FillCache
  <2>4. Official!TypeOK'
    BY <2>2, <2>3, <1>3, <1>t
  <2>5. EntriesOK'
    BY <2>1, <2>2, <2>3, <1>1, <1>t DEF EntriesOK
  <2>6. QED
    BY <2>4, <2>5, <1>2
<1>7. QED
  BY <1>4, <1>5, <1>6

\* The invariant of the configurations holds at the start and is kept.
LEMMA OfficialInit == Official!Init => OfficialInv
<1> SUFFICES ASSUME Official!Init PROVE OfficialInv
  OBVIOUS
<1> USE Assumptions DEF Official!Init, Official!NoRows, Official!Tables, Official!Idle,
                        Official!SandboxesAssumption
<1>1. Official!TypeOK
  BY DEF Official!TypeOK
<1>2. RequestsOK
  BY DEF RequestsOK, RequestOK
<1>3. GenerationsCount
  <2>1. Unannounced = {}
    BY DEF Unannounced
  <2>2. QED
    BY <2>1, FS_EmptySet DEF GenerationsCount
<1>4. EntriesOK
  BY DEF EntriesOK
<1>5. QED
  BY <1>1, <1>2, <1>3, <1>4 DEF OfficialInv

\* Every step of the sandbox administration.
LEMMA OfficialNext == OfficialInv /\ [Official!Next]_officialVars => OfficialInv'
<1> SUFFICES ASSUME OfficialInv, [Official!Next]_officialVars PROVE OfficialInv'
  OBVIOUS
<1>1. ASSUME NEW a \in Admins, Official!AdminStep(a) PROVE OfficialInv'
  BY <1>1, RequestSteps, CommitStep, InvalidateStep DEF Official!AdminStep
<1>2. CASE Official!CacheExpires
  <2>1. /\ cache' = [cache EXCEPT !.fresh = FALSE]
        /\ UNCHANGED <<configs, revision, runtime, admin, gen, menu>>
    BY <1>2 DEF Official!CacheExpires, Official!store
  <2>2. /\ cache' \in [gen: 0..MaxRevision, fresh: BOOLEAN, rows: Official!Tables]
        /\ cache'.gen = cache.gen /\ ~cache'.fresh
    BY <2>1 DEF OfficialInv, Official!TypeOK
  <2>3. Official!TypeOK' /\ RequestsOK' /\ GenerationsCount'
    BY <2>1, <2>2 DEF OfficialInv, Official!TypeOK, RequestsOK, RequestOK,
                      GenerationsCount, Unannounced
  <2>4. EntriesOK'
    BY <2>1, <2>2 DEF OfficialInv, EntriesOK
  <2>5. QED
    BY <2>3, <2>4 DEF OfficialInv
<1>3. CASE UNCHANGED officialVars
  BY <1>3 DEF officialVars, OfficialInv, Official!TypeOK, RequestsOK, RequestOK,
              GenerationsCount, Unannounced, EntriesOK
<1>4. QED
  BY <1>1, <1>2, <1>3, MenuStep DEF Official!Next

\* What a commit of a changed time of day may change, for every step.
LEMMA TimeOfDayStep ==
    ASSUME OfficialInv, [Official!Next]_officialVars, NEW a \in Admins,
           NEW s \in OfficialIds, admin[a].at = "commit", admin'[a].at = "invalidate",
           admin[a].kind = "time"
    PROVE  \/ configs'[s] = configs[s]
           \/ s = admin[a].id /\ configs'[s].rest = configs[s].rest
<1>t. admin \in [Admins -> AdminStates]
  BY DEF OfficialInv, Official!TypeOK, AdminStates, Invalidations
<1>1. ASSUME NEW b \in Admins, Official!AdminStep(b)
      PROVE  Official!Commit(a) \/ UNCHANGED configs
  <2>1. CASE Official!Commit(b)
    BY <2>1, <1>t DEF Official!Commit
  <2>2. CASE ~Official!Commit(b)
    BY <1>1, <2>2 DEF Official!AdminStep, Official!create_sandbox_config,
        Official!update_sandbox_config, Official!delete_sandbox_config,
        Official!update_sandbox_time_of_day, Official!Submit, Official!RequestFails,
        Official!Invalidate, Official!ReadRuntime, Official!set_runtime_time_of_day,
        Official!Activate, Official!SwitchRuntime, Official!Deactivate, Official!store
  <2>3. QED
    BY <2>1, <2>2
<1>2. Official!Commit(a) \/ UNCHANGED configs
  BY <1>1 DEF Official!Next, officialVars, Official!ReadCache, Official!ReadSnapshot,
              Official!FillCache, Official!CacheExpires, Official!store
<1>3. QED
  BY <1>2, CommitStep

-----------------------------------------------------------------------------
(* Service tokens and teams. *)

Calls == [at: {"idle", "token", "fetch", "store", "call", "answer"},
          kind: {"team", "token", "grant", Nil}, user: Users \cup {Nil}, token: Nat,
          own: BOOLEAN, again: BOOLEAN, tries: 0..Retries, since: Nat, refused: BOOLEAN]

TokenTypes ==
    /\ time \in 0..MaxTicks
    /\ issued \in Seq([life: Nat, ends: Nat])
    /\ revoked \subseteq DOMAIN issued
    /\ auth = Nil \/ auth \in [token: DOMAIN issued, expires: Nat]
    /\ teams \in [Users -> {Nil} \cup [expires: Nat, asof: Nat]]
    /\ call \in [Admins -> Calls]

\* A second attempt is made with a token of its own once it has fetched one; a
\* response is under way no longer than its timeout; a token that is on its way
\* was issued when its response was sent.
CallOK(q) ==
    /\ q.at \in {"store", "call", "answer"} => q.token \in DOMAIN issued
    /\ q.again => q.at = "fetch" \/ q.own
    /\ q.refused => q.own
    /\ q.at \in {"store", "answer"} => q.since <= time /\ time <= q.since + CallTime
    /\ q.at = "store" => issued[q.token].ends = q.since + issued[q.token].life

CallsOK == \A c \in Admins : CallOK(call[c])

\* The cached token ends here before it ends at Keycloak.
AuthOK ==
    auth # Nil /\ issued[auth.token].life >= MinTtl + Safety =>
        auth.expires <= issued[auth.token].ends

TeamsOK ==
    \A u \in Users : teams[u] # Nil =>
        teams[u].expires <= teams[u].asof + TeamTtl + CallTime

TokenInv == TokenTypes /\ CallsOK /\ AuthOK /\ TeamsOK

\* What the constants are.
LEMMA TokenConstants ==
    /\ CallTime \in Nat /\ Safety \in Nat /\ MinTtl \in Nat /\ TeamTtl \in Nat
    /\ Retries \in Nat /\ MaxTicks \in Nat /\ Lifetimes \subseteq Nat /\ CallTime <= Safety
BY Assumptions DEF Tokens!TokenAssumption

\* The time a token is kept: its lifetime without the margin, or the minimum.
LEMMA EffectiveTtlIs ==
    ASSUME NEW life \in Nat
    PROVE  /\ Tokens!EffectiveTtl(life) \in Nat
           /\ life >= MinTtl + Safety => Tokens!EffectiveTtl(life) = life - Safety
<1> DEFINE S == {life - Safety, MinTtl}
           P(x) == x \in S /\ \A y \in S : x >= y
           big == IF life - Safety >= MinTtl THEN life - Safety ELSE MinTtl
<1>1. P(big)
  BY TokenConstants
<1>2. Tokens!EffectiveTtl(life) = CHOOSE x \in S : \A y \in S : x >= y
  BY DEF Tokens!EffectiveTtl, Tokens!Max
<1>3. P(Tokens!EffectiveTtl(life))
  <2> HIDE DEF S
  <2>1. \E x \in S : \A y \in S : x >= y
    BY <1>1
  <2>2. QED
    BY <1>2, <2>1
<1>4. QED
  BY <1>1, <1>3, TokenConstants

\* An issued token has a lifetime and an end.
LEMMA IssuedToken ==
    ASSUME NEW S, NEW s \in Seq(S), NEW i \in DOMAIN s
    PROVE  s[i] \in S
OBVIOUS

\* A call that only changes its own record.
LEMMA CallMoves ==
    ASSUME TokenInv, NEW c \in Admins, NEW q \in Calls, CallOK(q),
           call' = [call EXCEPT ![c] = q],
           UNCHANGED <<time, issued, revoked, auth, teams>>
    PROVE  TokenInv'
<1> USE DEF TokenInv
<1>1. TokenTypes'
  BY DEF TokenTypes
<1>2. CallsOK'
  BY DEF TokenTypes, CallsOK, CallOK
<1>3. AuthOK' /\ TeamsOK'
  BY DEF AuthOK, TeamsOK
<1>4. QED
  BY <1>1, <1>2, <1>3

\* The record of a call that is over.
LEMMA RestIsOK ==
    ASSUME NEW refused \in BOOLEAN, NEW own \in BOOLEAN, refused => own
    PROVE  Tokens!Rest(refused, own) \in Calls /\ CallOK(Tokens!Rest(refused, own))
BY TokenConstants DEF Tokens!Rest, Calls, CallOK

\* A call at rest.
LEMMA RestingIsOK == Tokens!Resting \in Calls /\ CallOK(Tokens!Resting)
BY RestIsOK DEF Tokens!Resting

\* The steps of a call that change nothing but the call.
LEMMA CallSteps ==
    ASSUME TokenInv, NEW c \in Admins,
           \/ \E kind \in {"team", "token", "grant"}, u \in Users : Tokens!Start(c, kind, u)
           \/ Tokens!CurrentOrFetch(c) \/ Tokens!FetchFails(c) \/ Tokens!TeamFound(c)
           \/ Tokens!TokenIssued(c) \/ Tokens!Granted(c) \/ Tokens!CallRefused(c)
           \/ Tokens!CallFails(c) \/ Tokens!Drop(c)
    PROVE  TokenInv'
<1> USE DEF TokenInv
<1>t. /\ call \in [Admins -> Calls] /\ call[c] \in Calls /\ CallOK(call[c])
      /\ time \in Nat /\ CallTime \in Nat
  BY TokenConstants DEF TokenTypes, CallsOK
<1>u. UNCHANGED <<time, issued, revoked, auth, teams>>
  BY DEF Tokens!Start, Tokens!CurrentOrFetch, Tokens!FetchFails, Tokens!TeamFound,
         Tokens!TokenIssued, Tokens!Granted, Tokens!CallRefused, Tokens!CallFails,
         Tokens!Drop
<1>r. ASSUME call' = [call EXCEPT ![c] = Tokens!Resting] PROVE TokenInv'
  BY <1>r, <1>u, RestingIsOK, CallMoves
<1>1. ASSUME NEW kind \in {"team", "token", "grant"}, NEW u \in Users,
             Tokens!Start(c, kind, u)
      PROVE  TokenInv'
  <2> DEFINE q == [Tokens!Resting EXCEPT !.at = "token", !.kind = kind, !.user = u]
  <2>1. /\ q \in Calls /\ q.at = "token" /\ q.own = Tokens!Resting.own
        /\ q.again = Tokens!Resting.again /\ q.refused = Tokens!Resting.refused
    BY RestingIsOK DEF Calls
  <2>2. call' = [call EXCEPT ![c] = q]
    BY <1>1 DEF Tokens!Start
  <2> HIDE DEF q
  <2>3. Tokens!Resting.at = "idle"
    BY DEF Tokens!Resting, Tokens!Rest
  <2>4. CallOK(q)
    BY <2>1, <2>3, RestingIsOK DEF CallOK
  <2>5. QED
    BY <2>1, <2>2, <2>4, <1>u, CallMoves
<1>2. CASE Tokens!CurrentOrFetch(c)
  <2>1. CASE auth # Nil /\ auth.expires > time
    <3> DEFINE q == [call[c] EXCEPT !.at = "call", !.token = auth.token]
    <3>1. auth.token \in DOMAIN issued /\ DOMAIN issued \subseteq Nat
      BY <2>1 DEF TokenTypes
    <3>2. q \in Calls /\ CallOK(q)
      BY <1>2, <1>t, <3>1 DEF Calls, CallOK, Tokens!CurrentOrFetch
    <3>3. call' = [call EXCEPT ![c] = q]
      BY <1>2, <2>1, <1>t DEF Tokens!CurrentOrFetch
    <3> HIDE DEF q
    <3>4. QED
      BY <3>2, <3>3, <1>u, CallMoves
  <2>2. CASE ~(auth # Nil /\ auth.expires > time)
    <3> DEFINE q == [call[c] EXCEPT !.at = "fetch"]
    <3>1. q \in Calls /\ CallOK(q)
      BY <1>t DEF Calls, CallOK
    <3>2. call' = [call EXCEPT ![c] = q]
      BY <1>2, <2>2, <1>t DEF Tokens!CurrentOrFetch
    <3> HIDE DEF q
    <3>3. QED
      BY <3>1, <3>2, <1>u, CallMoves
  <2>3. QED
    BY <2>1, <2>2
<1>3. CASE Tokens!TeamFound(c)
  <2> DEFINE q == [call[c] EXCEPT !.at = "answer", !.since = time]
  <2>1. /\ q \in Calls /\ q.at = "answer" /\ q.since = time /\ q.token = call[c].token
        /\ q.again = call[c].again /\ q.own = call[c].own /\ q.refused = call[c].refused
    BY <1>t DEF Calls
  <2>2. call' = [call EXCEPT ![c] = q]
    BY <1>3, <1>t DEF Tokens!TeamFound
  <2> HIDE DEF q
  <2>3. CallOK(q)
    BY <1>3, <1>t, <2>1 DEF CallOK, Tokens!TeamFound, Tokens!Answered
  <2>4. QED
    BY <2>1, <2>2, <2>3, <1>u, CallMoves
<1>4. CASE Tokens!CallRefused(c)
  <2>1. CASE call[c].again
    <3> DEFINE q == Tokens!Rest(TRUE, call[c].own)
    <3>1. call[c].own \in BOOLEAN /\ (TRUE => call[c].own)
      BY <1>4, <2>1, <1>t DEF Calls, CallOK, Tokens!CallRefused
    <3>2. q \in Calls /\ CallOK(q)
      BY <3>1, RestIsOK
    <3>3. call' = [call EXCEPT ![c] = q]
      BY <1>4, <2>1 DEF Tokens!CallRefused
    <3> HIDE DEF q
    <3>4. QED
      BY <3>2, <3>3, <1>u, CallMoves
  <2>2. CASE ~call[c].again
    <3>b. PICK yes \in BOOLEAN : yes = TRUE
      OBVIOUS
    <3> DEFINE q == [call[c] EXCEPT !.at = "fetch", !.again = yes, !.tries = 0]
    <3>0. 0 \in 0..Retries
      BY TokenConstants
    <3>1. /\ q \in Calls /\ q.at = "fetch"
          /\ q.own = call[c].own /\ q.refused = call[c].refused
      BY <1>t, <3>0 DEF Calls
    <3>2. call' = [call EXCEPT ![c] = q]
      BY <1>4, <2>2, <1>t, <3>b DEF Tokens!CallRefused, Tokens!AfterRefusal
    <3> HIDE DEF q
    <3>3. CallOK(q)
      BY <3>1, <1>t DEF CallOK
    <3>4. QED
      BY <3>1, <3>2, <3>3, <1>u, CallMoves
  <2>3. QED
    BY <2>1, <2>2
<1>5. CASE Tokens!CallFails(c)
  <2>1. CASE call[c].kind = "grant" /\ call[c].tries < Retries
    <3> DEFINE q == [call[c] EXCEPT !.tries = call[c].tries + 1]
    <3>1. q \in Calls /\ CallOK(q)
      BY <2>1, <1>t, TokenConstants DEF Calls, CallOK
    <3>2. call' = [call EXCEPT ![c] = q]
      BY <1>5, <2>1, <1>t DEF Tokens!CallFails
    <3> HIDE DEF q
    <3>3. QED
      BY <3>1, <3>2, <1>u, CallMoves
  <2>2. CASE ~(call[c].kind = "grant" /\ call[c].tries < Retries)
    BY <1>5, <2>2, <1>r DEF Tokens!CallFails
  <2>3. QED
    BY <2>1, <2>2
<1>6. QED
  BY <1>1, <1>2, <1>3, <1>4, <1>5, <1>r DEF Tokens!FetchFails, Tokens!TokenIssued,
     Tokens!Granted, Tokens!Drop

\* Keycloak issues a token: nothing that was issued before changes.
LEMMA FetchStep ==
    ASSUME TokenInv, NEW c \in Admins, NEW life \in Lifetimes, Tokens!Fetch(c, life)
    PROVE  TokenInv'
<1> USE DEF TokenInv
<1> DEFINE t == [life |-> life, ends |-> time + life]
           q == [call[c] EXCEPT !.at = "store", !.token = Len(issued'), !.own = TRUE,
                                !.since = time]
<1>t. /\ call \in [Admins -> Calls] /\ call[c] \in Calls /\ CallOK(call[c])
      /\ time \in Nat /\ CallTime \in Nat /\ life \in Nat
      /\ issued \in Seq([life: Nat, ends: Nat])
  BY TokenConstants DEF TokenTypes, CallsOK
<1>1. t \in [life: Nat, ends: Nat] /\ t.ends = time + t.life
  BY <1>t
<1>2. /\ issued' = Append(issued, t)
      /\ UNCHANGED <<time, revoked, auth, teams>>
  BY DEF Tokens!Fetch
<1>3. call' = [call EXCEPT ![c] = q]
  BY <1>t DEF Tokens!Fetch
<1> HIDE DEF t
<1>4. /\ issued' \in Seq([life: Nat, ends: Nat])
      /\ DOMAIN issued \subseteq DOMAIN issued'
      /\ \A i \in DOMAIN issued : issued'[i] = issued[i]
      /\ Len(issued') \in DOMAIN issued' /\ issued'[Len(issued')] = t
      /\ Len(issued') \in Nat
  BY <1>1, <1>2, <1>t
<1>5. /\ q \in Calls /\ q.at = "store" /\ q.token = Len(issued') /\ q.own
      /\ q.since = time
  BY <1>4, <1>t DEF Calls
<1> HIDE DEF q
<1>6. TokenTypes'
  <2>1. call' \in [Admins -> Calls]
    BY <1>3, <1>5, <1>t
  <2>2. auth' = Nil \/ auth' \in [token: DOMAIN issued', expires: Nat]
    BY <1>2, <1>4 DEF TokenTypes
  <2>3. revoked' \subseteq DOMAIN issued'
    BY <1>2, <1>4 DEF TokenTypes
  <2>4. QED
    BY <2>1, <2>2, <2>3, <1>2, <1>4 DEF TokenTypes
<1>7. CallsOK'
  <2> SUFFICES ASSUME NEW b \in Admins PROVE CallOK(call[b])'
    BY DEF CallsOK
  <2>1. CASE b = c
    <3>1. call'[b] = q
      BY <2>1, <1>3, <1>t
    <3>2. QED
      BY <3>1, <1>1, <1>2, <1>4, <1>5, <1>t DEF CallOK
  <2>2. CASE b # c
    <3>1. call'[b] = call[b] /\ CallOK(call[b])
      BY <2>2, <1>3, <1>t DEF CallsOK
    <3>2. QED
      BY <3>1, <1>2, <1>4 DEF CallOK
  <2>3. QED
    BY <2>1, <2>2
<1>8. AuthOK'
  BY <1>2, <1>4 DEF AuthOK, TokenTypes
<1>9. TeamsOK'
  BY <1>2 DEF TeamsOK
<1>10. QED
  BY <1>6, <1>7, <1>8, <1>9

\* The response arrives within its timeout, which the margin covers.
LEMMA StoreStep ==
    ASSUME TokenInv, NEW c \in Admins, Tokens!Store(c)
    PROVE  TokenInv'
<1> USE DEF TokenInv
<1> DEFINE tok == call[c].token
           ttl == Tokens!EffectiveTtl(issued[tok].life)
           q == [call[c] EXCEPT !.at = "call", !.since = 0]
<1>t. /\ call \in [Admins -> Calls] /\ call[c] \in Calls /\ CallOK(call[c])
      /\ call[c].at = "store" /\ call[c].since \in Nat
      /\ time \in Nat /\ CallTime \in Nat /\ Safety \in Nat /\ MinTtl \in Nat
      /\ CallTime <= Safety
      /\ issued \in Seq([life: Nat, ends: Nat])
  BY TokenConstants DEF TokenTypes, CallsOK, Tokens!Store, Calls
<1>1. tok \in DOMAIN issued /\ issued[tok].life \in Nat /\ issued[tok].ends \in Nat
  <2>1. tok \in DOMAIN issued
    BY <1>t DEF CallOK
  <2>2. issued[tok] \in [life: Nat, ends: Nat]
    BY <2>1, <1>t, IssuedToken
  <2>3. QED
    BY <2>1, <2>2
<1>2. /\ ttl \in Nat
      /\ issued[tok].life >= MinTtl + Safety => ttl = issued[tok].life - Safety
  BY <1>1, EffectiveTtlIs
<1>3. /\ auth' = [token |-> tok, expires |-> time + ttl]
      /\ UNCHANGED <<time, issued, revoked, teams>>
  BY DEF Tokens!Store
<1>4. call' = [call EXCEPT ![c] = q]
  BY <1>t DEF Tokens!Store
<1>5. /\ q \in Calls /\ q.at = "call" /\ q.token = tok
      /\ q.own = call[c].own /\ q.again = call[c].again /\ q.refused = call[c].refused
  BY <1>t DEF Calls
<1>6. issued[tok].ends = call[c].since + issued[tok].life
      /\ time <= call[c].since + CallTime
  BY <1>t DEF CallOK
<1> HIDE DEF q, tok, ttl
<1>7. auth' \in [token: DOMAIN issued, expires: Nat]
  BY <1>1, <1>2, <1>3, <1>t
<1>8. TokenTypes'
  BY <1>3, <1>4, <1>5, <1>7, <1>t DEF TokenTypes
<1>9. CallOK(q)
  BY <1>1, <1>5, <1>t DEF CallOK
<1>10. CallsOK'
  BY <1>3, <1>4, <1>9, <1>t DEF CallsOK, CallOK
<1>11. AuthOK'
  <2>1. auth'.token = tok /\ auth'.expires = time + ttl
    BY <1>3
  <2>2. issued[tok].life >= MinTtl + Safety => time + ttl <= issued[tok].ends
    <3>1. ASSUME NEW life \in Nat, NEW ends \in Nat, NEW sent \in Nat, NEW kept \in Nat,
                 ends = sent + life, time <= sent + CallTime, kept = life - Safety
          PROVE  time + kept <= ends
      BY <3>1, <1>t
    <3>2. QED
      BY <3>1, <1>1, <1>2, <1>6, <1>t
  <2>3. QED
    BY <2>1, <2>2, <1>3 DEF AuthOK
<1>12. TeamsOK'
  BY <1>3 DEF TeamsOK
<1>13. QED
  BY <1>8, <1>10, <1>11, <1>12

\* The team arrives within its timeout.
LEMMA AnswerStep ==
    ASSUME TokenInv, NEW c \in Admins, Tokens!Answer(c)
    PROVE  TokenInv'
<1> USE DEF TokenInv
<1> DEFINE e == [expires |-> time + TeamTtl, asof |-> call[c].since]
<1>t. /\ call \in [Admins -> Calls] /\ call[c] \in Calls /\ CallOK(call[c])
      /\ call[c].at = "answer" /\ call[c].since \in Nat
      /\ time \in Nat /\ CallTime \in Nat /\ TeamTtl \in Nat
      /\ teams \in [Users -> {Nil} \cup [expires: Nat, asof: Nat]]
  BY TokenConstants DEF TokenTypes, CallsOK, Tokens!Answer, Calls
<1>1. /\ teams' = [teams EXCEPT ![call[c].user] = e]
      /\ call' = [call EXCEPT ![c] = Tokens!Resting]
      /\ UNCHANGED <<time, issued, revoked, auth>>
  BY DEF Tokens!Answer
<1>2. e \in [expires: Nat, asof: Nat] /\ e.expires <= e.asof + TeamTtl + CallTime
  BY <1>t DEF CallOK
<1> HIDE DEF e
<1>3. TokenTypes'
  BY <1>1, <1>2, <1>t, RestingIsOK DEF TokenTypes
<1>4. CallsOK'
  BY <1>1, <1>t, RestingIsOK DEF CallsOK, CallOK
<1>5. AuthOK'
  BY <1>1 DEF AuthOK
<1>6. TeamsOK'
  BY <1>1, <1>2, <1>t DEF TeamsOK
<1>7. QED
  BY <1>3, <1>4, <1>5, <1>6

\* Time passes, but no response is later than its timeout.
LEMMA TokenTick ==
    ASSUME TokenInv, Tokens!Tick
    PROVE  TokenInv'
<1> USE DEF TokenInv
<1>1. /\ time' = time + 1 /\ time < MaxTicks
      /\ UNCHANGED <<issued, revoked, auth, teams, call>>
  BY DEF Tokens!Tick
<1>2. TokenTypes'
  BY <1>1, TokenConstants DEF TokenTypes
<1>3. CallsOK'
  <2> SUFFICES ASSUME NEW c \in Admins PROVE CallOK(call[c])'
    BY DEF CallsOK
  <2>1. /\ call[c].at \in {"store", "answer"} => time < call[c].since + CallTime
        /\ CallOK(call[c]) /\ call[c].since \in Nat /\ time \in Nat /\ CallTime \in Nat
    BY TokenConstants DEF Tokens!Tick, TokenTypes, CallsOK, Calls
  <2>2. QED
    BY <2>1, <1>1 DEF CallOK
<1>4. AuthOK' /\ TeamsOK'
  BY <1>1 DEF AuthOK, TeamsOK
<1>5. QED
  BY <1>2, <1>3, <1>4

\* The invariant of the tokens holds at the start and is kept.
LEMMA TokenInit == Tokens!Init => TokenInv
<1> SUFFICES ASSUME Tokens!Init PROVE TokenInv
  OBVIOUS
<1>1. TokenTypes
  BY RestingIsOK, TokenConstants DEF Tokens!Init, TokenTypes
<1>2. CallsOK
  BY RestingIsOK DEF Tokens!Init, CallsOK
<1>3. AuthOK /\ TeamsOK
  BY DEF Tokens!Init, AuthOK, TeamsOK
<1>4. QED
  BY <1>1, <1>2, <1>3 DEF TokenInv

\* Every step of the token and team caches.
LEMMA TokenNext == TokenInv /\ [Tokens!Next]_tokenVars => TokenInv'
<1> SUFFICES ASSUME TokenInv, [Tokens!Next]_tokenVars PROVE TokenInv'
  OBVIOUS
<1>1. ASSUME NEW t \in 1..MaxTokens, Tokens!Revoke(t) PROVE TokenInv'
  <2>1. /\ revoked' = revoked \cup {t} /\ t \in DOMAIN issued
        /\ UNCHANGED <<time, issued, auth, teams, call>>
    BY <1>1 DEF Tokens!Revoke
  <2>2. QED
    BY <2>1 DEF TokenInv, TokenTypes, CallsOK, CallOK, AuthOK, TeamsOK
<1>2. CASE UNCHANGED tokenVars
  BY <1>2 DEF tokenVars, TokenInv, TokenTypes, CallsOK, CallOK, AuthOK, TeamsOK
<1>3. QED
  BY <1>1, <1>2, TokenTick, CallSteps, FetchStep, StoreStep, AnswerStep DEF Tokens!Next

\* The invariant gives what the run checks.
LEMMA TokensSound == TokenInv => TokensAreLive
<1> SUFFICES ASSUME TokenInv PROVE TokensAreLive
  OBVIOUS
<1> USE DEF TokenInv
<1>1. Tokens!TypeOK
  BY DEF TokenTypes, CallsOK, CallOK, Calls, Tokens!TypeOK
<1>2. Tokens!RefusedOnlyWhenFresh
  BY DEF CallsOK, CallOK, Tokens!RefusedOnlyWhenFresh
<1>3. Tokens!CachedTokenLives
  <2> SUFFICES ASSUME auth # Nil, auth.expires > time,
                      issued[auth.token].life >= MinTtl + Safety
               PROVE  time < issued[auth.token].ends
    BY DEF Tokens!CachedTokenLives
  <2>1. /\ auth.token \in DOMAIN issued /\ auth.expires \in Nat /\ time \in Nat
        /\ issued \in Seq([life: Nat, ends: Nat])
    BY DEF TokenTypes
  <2>2. issued[auth.token] \in [life: Nat, ends: Nat]
    BY <2>1, IssuedToken
  <2>3. QED
    BY <2>1, <2>2 DEF AuthOK
<1>4. Tokens!ServedTeamIsRecent
  <2> SUFFICES ASSUME NEW u \in Users, teams[u] # Nil, teams[u].expires > time
               PROVE  time < teams[u].asof + TeamTtl + CallTime
    BY DEF Tokens!ServedTeamIsRecent, Tokens!Fresh
  <2>1. teams[u] \in [expires: Nat, asof: Nat] /\ time \in Nat
    BY DEF TokenTypes
  <2>2. QED
    BY <2>1, TokenConstants DEF TeamsOK
<1>5. QED
  BY <1>1, <1>2, <1>3, <1>4 DEF TokensAreLive

-----------------------------------------------------------------------------
(* The race schedule. *)

\* What the constants are.
LEMMA ScheduleConstants ==
    /\ Starts \subseteq Nat /\ Durations \subseteq Nat
    /\ Window \in Nat /\ Ttl \in Nat /\ Epoch \in Nat /\ MaxTime \in Nat
    /\ MaxRaceRevision \in Nat /\ MaxLost \in Nat
    /\ Epoch <= MaxTime
    /\ Nil \notin Schedule!Configs
    /\ IsFiniteSet(Races)
    /\ \A c \in Schedule!Configs : c.start \in Nat /\ c.duration \in Nat
<1>1. Schedule!IsFiniteSet(Races) <=> IsFiniteSet(Races)
  BY DEF Schedule!IsFiniteSet, IsFiniteSet
<1>2. Nil \notin Schedule!Configs
  BY Assumptions DEF Schedule!ScheduleAssumption
<1>3. QED
  BY <1>1, <1>2, Assumptions DEF Schedule!ScheduleAssumption, Schedule!Configs

\* Neighbours that do not overlap, in the order of the start times, are enough
\* for no two races to overlap.
LEMMA ValidatedIsValid ==
    ASSUME NEW s \in [Races -> Schedule!Configs \cup {Nil}], Schedule!validate_schedule(s)
    PROVE  Schedule!Promise!Valid(s)
<1> DEFINE P == Schedule!Present(s)
           n == Cardinality(P)
<1>1. PICK order \in Schedule!sort_by_start_time(s) :
          \A i \in DOMAIN order \ {1} :
              Schedule!validate_ordering_and_overlap(s[order[i]], s[order[i - 1]])
  BY DEF Schedule!validate_schedule
<1>2. n \in Nat
  <2>1. P \subseteq Races
    BY DEF Schedule!Present
  <2>2. QED
    BY <2>1, ScheduleConstants, FS_Subset, FS_CardinalityType
<1>3. /\ order \in [1..n -> P]
      /\ \A r \in P : \E i \in 1..n : order[i] = r
      /\ \A i, j \in 1..n : i < j => s[order[i]].start <= s[order[j]].start
  <2>1. Schedule!Cardinality(P) = n
    BY DEF Schedule!Cardinality, Cardinality
  <2> HIDE DEF n
  <2>2. QED
    BY <2>1 DEF Schedule!sort_by_start_time
<1>4. \A r \in P : r \in Races /\ s[r] \in Schedule!Configs
  BY DEF Schedule!Present
<1> HIDE DEF n, P
<1>5. ASSUME NEW i \in 1..n, NEW j \in 1..n, i < j
      PROVE  Schedule!Promise!Ends(s[order[i]]) <= s[order[j]].start
  <2>1. i + 1 \in 1..n /\ i + 1 \in DOMAIN order \ {1} /\ (i + 1) - 1 = i
    BY <1>2, <1>3, <1>5
  <2>2. Schedule!validate_ordering_and_overlap(s[order[i + 1]], s[order[i]])
    BY <1>1, <2>1
  <2>3. s[order[i + 1]].start >= Schedule!Promise!Ends(s[order[i]])
    BY <2>2 DEF Schedule!validate_ordering_and_overlap, Schedule!ends_at_ms,
                Schedule!Promise!Ends
  <2>4. i + 1 = j \/ i + 1 < j
    BY <1>5
  <2>5. s[order[i + 1]].start <= s[order[j]].start
    <3>1. s[order[j]].start \in Nat
      BY <1>3, <1>4, ScheduleConstants
    <3>2. QED
      BY <2>1, <2>4, <1>3, <3>1
  <2>6. /\ s[order[i + 1]].start \in Nat /\ s[order[j]].start \in Nat
        /\ Schedule!Promise!Ends(s[order[i]]) \in Nat
    BY <2>1, <1>3, <1>4, ScheduleConstants DEF Schedule!Promise!Ends
  <2>7. QED
    BY <2>3, <2>5, <2>6
<1>6. ASSUME NEW r \in P, NEW q \in P, r # q
      PROVE  Schedule!Promise!Apart(s[r], s[q])
  <2>1. PICK i \in 1..n, j \in 1..n : order[i] = r /\ order[j] = q
    BY <1>3
  <2>2. i < j \/ j < i
    BY <2>1, <1>6
  <2>3. QED
    BY <2>1, <2>2, <1>5 DEF Schedule!Promise!Apart
<1>7. QED
  BY <1>6 DEF P, Schedule!Present, Schedule!Promise!Valid

\* A request whose revision is still the current one knows what it replaces, and
\* the schedule it leaves is the one that was validated.
ChangeOK(q) ==
    q.at = "commit" =>
        /\ q.expected <= raceRevision
        /\ q.expected = raceRevision =>
              /\ q.old = races[q.race]
              /\ q.kind \in {"create", "update"} =>
                    /\ q.config \in Schedule!Configs
                    /\ Schedule!Promise!Valid([races EXCEPT ![q.race] = q.config])

ChangesOK == \A a \in Admins : ChangeOK(raceAdmin[a])

\* A race that is persisted and due in the hour after t.
Listed(r, c, t) == races[r] = c /\ Schedule!is_within_upcoming_window(c, t)

\* A change that is committed and not announced explains a difference in c.
Explained(r, c) ==
    \E a \in Admins : /\ raceAdmin[a].at = "invalidate" /\ raceAdmin[a].race = r
                      /\ c = raceAdmin[a].old \/ c = raceAdmin[a].config

\* What was read at t is of the hour after t, and differs from what is persisted
\* in nothing that is still to start, but for changes that are not announced.
ViewOK(view, t) ==
    \A r \in Races, c \in Schedule!Configs :
        /\ <<r, c>> \in view => Schedule!is_within_upcoming_window(c, t)
        /\ c.start >= now /\ r \notin unacked /\ ~Explained(r, c) =>
               (<<r, c>> \in view <=> Listed(r, c, t))

RaceEntriesOK ==
    /\ raceCache.gen <= raceGen /\ raceCache.at <= now
    /\ raceCache.gen = raceGen /\ raceCache.at # 0 =>
           ViewOK(raceCache.races, raceCache.at)
    /\ \A m \in Menus : raceMenu[m].at # "idle" =>
           /\ raceMenu[m].gen <= raceGen /\ raceMenu[m].time <= now
           /\ raceMenu[m].at = "store" /\ raceMenu[m].gen = raceGen =>
                  ViewOK(raceMenu[m].races, raceMenu[m].time)

ScheduleInv ==
    Schedule!TypeOK /\ Schedule!Promise!Valid(races) /\ ChangesOK /\ RaceEntriesOK

\* The types of the state of the schedule, in the names of this module.
LEMMA ScheduleTypes ==
    ASSUME Schedule!TypeOK
    PROVE  /\ races \in [Races -> Schedule!Configs \cup {Nil}]
           /\ raceRevision \in Nat /\ raceRevision <= MaxRaceRevision
           /\ now \in Nat /\ now >= Epoch /\ now <= MaxTime /\ raceGen \in Nat
           /\ raceAdmin \in [Admins -> {Schedule!Idle} \cup Schedule!Requests]
           /\ raceMenu \in [Menus -> {Schedule!Idle} \cup Schedule!Polls]
           /\ raceCache \in [gen: Nat, at: Nat, races: Schedule!Views]
           /\ lost \in Nat /\ lost <= MaxLost /\ unacked \subseteq Races
           /\ Schedule!Idle.at = "idle"
BY ScheduleConstants DEF Schedule!TypeOK, Schedule!Idle

\* The step of a request or of a poll tells what its record is.
LEMMA ScheduleRecords ==
    ASSUME Schedule!TypeOK
    PROVE  /\ \A a \in Admins :
                 /\ raceAdmin[a].at \in {"idle", "commit", "invalidate"}
                 /\ raceAdmin[a].at # "idle" => raceAdmin[a] \in Schedule!Requests
           /\ \A m \in Menus :
                 /\ raceMenu[m].at \in {"idle", "snapshot", "store"}
                 /\ raceMenu[m].at # "idle" => raceMenu[m] \in Schedule!Polls
BY ScheduleTypes DEF Schedule!Requests, Schedule!Polls, Schedule!Idle

\* Without one race no two races overlap that did not before.
LEMMA DeletedIsValid ==
    ASSUME races \in [Races -> Schedule!Configs \cup {Nil}],
           Schedule!Promise!Valid(races), NEW r \in Races
    PROVE  Schedule!Promise!Valid([races EXCEPT ![r] = Nil])
BY DEF Schedule!Promise!Valid

\* A request that starts, or ends before its commit.
LEMMA ChangeMoves ==
    ASSUME ScheduleInv, NEW a \in Admins, NEW q \in {Schedule!Idle} \cup Schedule!Requests,
           q.at # "invalidate", raceAdmin[a].at # "invalidate", ChangeOK(q),
           raceAdmin' = [raceAdmin EXCEPT ![a] = q],
           UNCHANGED <<races, raceRevision, now, raceGen, raceCache, raceMenu, lost, unacked>>
    PROVE  ScheduleInv'
<1> USE DEF ScheduleInv
<1>1. Schedule!TypeOK'
  BY ScheduleTypes DEF Schedule!TypeOK
<1>2. Schedule!Promise!Valid(races)'
  BY DEF Schedule!Promise!Valid
<1>3. ChangesOK'
  BY ScheduleTypes DEF ChangesOK, ChangeOK
<1>4. ASSUME NEW r, NEW c PROVE Explained(r, c)' <=> Explained(r, c)
  BY ScheduleTypes DEF Explained
<1>5. ASSUME NEW view, NEW t PROVE ViewOK(view, t)' <=> ViewOK(view, t)
  BY <1>4 DEF ViewOK, Listed
<1>6. RaceEntriesOK'
  BY <1>5 DEF RaceEntriesOK
<1>7. QED
  BY <1>1, <1>2, <1>3, <1>6

\* The handlers up to the repository, and requests that fail there.
LEMMA ScheduleRequests ==
    ASSUME ScheduleInv, NEW a \in Admins,
           \/ Schedule!create_race_config(a) \/ Schedule!update_race_config(a)
           \/ Schedule!delete_race_config(a) \/ Schedule!RequestFails(a)
    PROVE  ScheduleInv'
<1> USE DEF ScheduleInv
<1>t. /\ races \in [Races -> Schedule!Configs \cup {Nil}]
      /\ raceRevision \in Nat /\ raceRevision <= MaxRaceRevision
      /\ raceAdmin \in [Admins -> {Schedule!Idle} \cup Schedule!Requests]
  BY ScheduleTypes
<1>s. ASSUME NEW k \in Schedule!Kinds, NEW r \in Races,
             NEW c \in Schedule!Configs \cup {Nil},
             k \in {"create", "update"} =>
                 /\ c \in Schedule!Configs
                 /\ Schedule!validate_schedule([races EXCEPT ![r] = c]),
             raceAdmin[a].at = "idle", Schedule!Submit(a, k, r, raceRevision, c)
      PROVE  ScheduleInv'
  <2> DEFINE q == [at |-> "commit", kind |-> k, race |-> r, config |-> c,
                   expected |-> raceRevision, old |-> races[r]]
  <2>1. q \in Schedule!Requests
    BY <1>t, ScheduleConstants DEF Schedule!Requests
  <2>2. k \in {"create", "update"} => Schedule!Promise!Valid([races EXCEPT ![r] = c])
    <3>1. [races EXCEPT ![r] = c] \in [Races -> Schedule!Configs \cup {Nil}]
      BY <1>t
    <3>2. QED
      BY <3>1, <1>s, ValidatedIsValid
  <2>3. ChangeOK(q)
    BY <1>s, <1>t, <2>2 DEF ChangeOK
  <2>4. /\ raceAdmin' = [raceAdmin EXCEPT ![a] = q]
        /\ UNCHANGED <<races, raceRevision, now, raceGen, raceCache, raceMenu, lost,
                       unacked>>
    BY <1>s DEF Schedule!Submit, Schedule!store
  <2>5. q.at = "commit"
    OBVIOUS
  <2> HIDE DEF q
  <2>6. QED
    BY <1>s, <2>1, <2>3, <2>4, <2>5, ChangeMoves
<1>c. ASSUME NEW c \in Schedule!Inputs, Schedule!race_input_from_proto(c)
      PROVE  c \in Schedule!Configs
  BY <1>c DEF Schedule!Inputs, Schedule!race_input_from_proto, Schedule!Configs
<1>1. CASE Schedule!create_race_config(a)
  <2>1. PICK r \in Races, e \in 0..raceRevision, c \in Schedule!Inputs :
            /\ Schedule!race_input_from_proto(c) /\ e = raceRevision
            /\ Schedule!validate_schedule([races EXCEPT ![r] = c])
            /\ Schedule!Submit(a, "create", r, e, c)
    BY <1>1 DEF Schedule!create_race_config, Schedule!ensure_expected_revision
  <2>2. raceAdmin[a].at = "idle" /\ c \in Schedule!Configs
    BY <1>1, <2>1, <1>c DEF Schedule!create_race_config
  <2>3. QED
    BY <2>1, <2>2, <1>s DEF Schedule!Kinds
<1>2. CASE Schedule!update_race_config(a)
  <2>1. PICK r \in Races, e \in 0..raceRevision, c \in Schedule!Inputs :
            /\ Schedule!race_input_from_proto(c) /\ e = raceRevision
            /\ Schedule!validate_schedule([races EXCEPT ![r] = c])
            /\ Schedule!Submit(a, "update", r, e, c)
    BY <1>2 DEF Schedule!update_race_config, Schedule!ensure_expected_revision
  <2>2. raceAdmin[a].at = "idle" /\ c \in Schedule!Configs
    BY <1>2, <2>1, <1>c DEF Schedule!update_race_config
  <2>3. QED
    BY <2>1, <2>2, <1>s DEF Schedule!Kinds
<1>3. CASE Schedule!delete_race_config(a)
  BY <1>3, <1>s DEF Schedule!delete_race_config, Schedule!ensure_expected_revision,
                    Schedule!Kinds
<1>4. CASE Schedule!RequestFails(a)
  <2>1. ChangeOK(Schedule!Idle) /\ Schedule!Idle.at = "idle"
    BY DEF ChangeOK, Schedule!Idle
  <2>2. QED
    BY <1>4, <2>1, ChangeMoves DEF Schedule!RequestFails, Schedule!Free, Schedule!store
<1>5. QED
  BY <1>1, <1>2, <1>3, <1>4

\* The transaction of a request: the step the abstract schedule allows, and a
\* schedule that differs in one race from the one before.
LEMMA WriteIsChange ==
    ASSUME ScheduleInv, NEW a \in Admins, raceAdmin[a].at = "commit",
           Schedule!Write(raceAdmin[a])
    PROVE  /\ raceAdmin[a] \in Schedule!Requests
           /\ raceRevision < MaxRaceRevision /\ raceRevision' = raceRevision + 1
           /\ raceAdmin[a].old = races[raceAdmin[a].race]
           /\ \E c \in Schedule!Configs \cup {Nil} :
                 /\ c # Nil => c = raceAdmin[a].config
                 /\ races' = [races EXCEPT ![raceAdmin[a].race] = c]
           /\ Schedule!Promise!Change
<1> USE DEF ScheduleInv
<1> DEFINE q == raceAdmin[a]
<1>t. /\ races \in [Races -> Schedule!Configs \cup {Nil}]
      /\ q \in Schedule!Requests /\ q.race \in Races
      /\ q.config \in Schedule!Configs \cup {Nil}
      /\ Nil \notin Schedule!Configs
  BY ScheduleTypes, ScheduleRecords, ScheduleConstants DEF Schedule!Requests
<1>1. /\ q.expected = raceRevision
      /\ raceRevision < MaxRaceRevision /\ raceRevision' = raceRevision + 1
  BY DEF Schedule!Write, Schedule!create_config, Schedule!update_config,
         Schedule!delete_config, Schedule!ensure_expected_revision,
         Schedule!bump_revision
<1>2. /\ q.old = races[q.race]
      /\ q.kind \in {"create", "update"} =>
            /\ q.config \in Schedule!Configs
            /\ Schedule!Promise!Valid([races EXCEPT ![q.race] = q.config])
  BY <1>1 DEF ChangesOK, ChangeOK
<1>3. PICK c \in Schedule!Configs \cup {Nil} :
          /\ c # Nil => c = q.config
          /\ races' = [races EXCEPT ![q.race] = c]
          /\ c # Nil \/ races[q.race] # Nil
          /\ Schedule!Promise!Valid([races EXCEPT ![q.race] = c])
  <2>1. CASE q.kind \in {"create", "update"}
    BY <2>1, <1>2, <1>t DEF Schedule!Write, Schedule!create_config,
                            Schedule!update_config, Schedule!delete_config
  <2>2. CASE q.kind \notin {"create", "update"}
    <3>1. races' = [races EXCEPT ![q.race] = Nil] /\ races[q.race] # Nil
      BY <2>2 DEF Schedule!Write, Schedule!create_config, Schedule!update_config,
                  Schedule!delete_config
    <3>2. QED
      BY <3>1, <1>t, DeletedIsValid
  <2>3. QED
    BY <2>1, <2>2
<1>4. Schedule!Promise!Valid(races')
  BY <1>3
<1>5. Schedule!Promise!Change
  BY <1>1, <1>3, <1>4, <1>t DEF Schedule!Promise!Change
<1>6. QED
  BY <1>1, <1>2, <1>3, <1>5, <1>t

\* What a transaction leaves of the invariant, whether its handler goes on or not:
\* the races stay valid and every other request is out of date.
LEMMA AfterWrite ==
    ASSUME ScheduleInv, NEW a \in Admins, raceAdmin[a].at = "commit",
           Schedule!Write(raceAdmin[a]),
           NEW q \in {Schedule!Idle} \cup Schedule!Requests, q.at # "commit",
           raceAdmin' = [raceAdmin EXCEPT ![a] = q]
    PROVE  /\ Schedule!Promise!Valid(races)' /\ ChangesOK'
           /\ races' \in [Races -> Schedule!Configs \cup {Nil}]
           /\ raceRevision' \in 0..MaxRaceRevision
           /\ raceAdmin' \in [Admins -> {Schedule!Idle} \cup Schedule!Requests]
<1> USE DEF ScheduleInv
<1>1. /\ raceRevision < MaxRaceRevision /\ raceRevision' = raceRevision + 1
      /\ \E c \in Schedule!Configs \cup {Nil} :
            races' = [races EXCEPT ![raceAdmin[a].race] = c]
      /\ Schedule!Promise!Change
  BY WriteIsChange
<1>2. Schedule!Promise!Valid(races)'
  BY <1>1 DEF Schedule!Promise!Change, Schedule!Promise!Valid
<1>3. ChangesOK'
  <2> SUFFICES ASSUME NEW b \in Admins PROVE ChangeOK(raceAdmin[b])'
    BY DEF ChangesOK
  <2>1. CASE b = a
    BY <2>1, ScheduleTypes DEF ChangeOK
  <2>2. CASE b # a
    <3>1. raceAdmin'[b] = raceAdmin[b] /\ ChangeOK(raceAdmin[b])
      BY <2>2, ScheduleTypes DEF ChangesOK
    <3>2. raceAdmin[b].at = "commit" => raceAdmin[b].expected \in Nat
      BY ScheduleRecords DEF Schedule!Requests
    <3>3. QED
      BY <3>1, <3>2, <1>1, ScheduleTypes DEF ChangeOK
  <2>3. QED
    BY <2>1, <2>2
<1>4. races' \in [Races -> Schedule!Configs \cup {Nil}]
  BY <1>1, ScheduleTypes
<1>5. raceRevision' \in 0..MaxRaceRevision
  BY <1>1, ScheduleTypes, ScheduleConstants
<1>6. raceAdmin' \in [Admins -> {Schedule!Idle} \cup Schedule!Requests]
  BY ScheduleTypes
<1>7. QED
  BY <1>2, <1>3, <1>4, <1>5, <1>6

\* A difference that a transaction makes is in its own race, in what was there or
\* in what is there now.
LEMMA ListedAfterWrite ==
    ASSUME ScheduleInv, NEW a \in Admins, raceAdmin[a].at = "commit",
           Schedule!Write(raceAdmin[a]), NEW r \in Races, NEW c \in Schedule!Configs, NEW t,
           ~(r = raceAdmin[a].race /\ (c = raceAdmin[a].old \/ c = raceAdmin[a].config))
    PROVE  Listed(r, c, t)' <=> Listed(r, c, t)
<1>1. PICK d \in Schedule!Configs \cup {Nil} :
          /\ d # Nil => d = raceAdmin[a].config
          /\ races' = [races EXCEPT ![raceAdmin[a].race] = d]
  BY WriteIsChange
<1>2. raceAdmin[a].old = races[raceAdmin[a].race] /\ Nil \notin Schedule!Configs
  BY WriteIsChange, ScheduleConstants
<1>3. races'[r] = c <=> races[r] = c
  BY <1>1, <1>2, ScheduleTypes DEF ScheduleInv
<1>4. QED
  BY <1>3 DEF Listed

\* The change is made and not announced yet.
LEMMA ScheduleCommit ==
    ASSUME ScheduleInv, NEW a \in Admins, Schedule!Commit(a)
    PROVE  ScheduleInv'
<1> USE DEF ScheduleInv
<1> DEFINE q == [raceAdmin[a] EXCEPT !.at = "invalidate"]
<1>1. /\ raceAdmin[a].at = "commit" /\ Schedule!Write(raceAdmin[a])
      /\ UNCHANGED <<now, raceGen, raceCache, raceMenu, lost, unacked>>
  BY DEF Schedule!Commit
<1>2. raceAdmin[a] \in Schedule!Requests
  BY <1>1, WriteIsChange
<1>3. /\ q \in Schedule!Requests /\ q.at = "invalidate" /\ q.race = raceAdmin[a].race
      /\ q.old = raceAdmin[a].old /\ q.config = raceAdmin[a].config
  BY <1>2 DEF Schedule!Requests
<1>4. raceAdmin' = [raceAdmin EXCEPT ![a] = q]
  BY ScheduleTypes DEF Schedule!Commit
<1> HIDE DEF q
<1>5. /\ Schedule!Promise!Valid(races)' /\ ChangesOK'
      /\ Schedule!TypeOK'
  <2>1. /\ Schedule!Promise!Valid(races)' /\ ChangesOK'
        /\ races' \in [Races -> Schedule!Configs \cup {Nil}]
        /\ raceRevision' \in 0..MaxRaceRevision
        /\ raceAdmin' \in [Admins -> {Schedule!Idle} \cup Schedule!Requests]
    BY <1>1, <1>3, <1>4, AfterWrite
  <2>2. QED
    BY <2>1, <1>1 DEF Schedule!TypeOK
<1>6. ASSUME NEW r \in Races, NEW c, ~Explained(r, c)'
      PROVE  /\ ~Explained(r, c)
             /\ ~(r = raceAdmin[a].race /\ (c = raceAdmin[a].old \/ c = raceAdmin[a].config))
  <2>1. raceAdmin'[a] = q /\ \A b \in Admins : b # a => raceAdmin'[b] = raceAdmin[b]
    BY <1>4, ScheduleTypes
  <2>2. QED
    BY <2>1, <1>1, <1>3, <1>6 DEF Explained
<1>7. ASSUME NEW view, NEW t, ViewOK(view, t) PROVE ViewOK(view, t)'
  <2> SUFFICES ASSUME NEW r \in Races, NEW c \in Schedule!Configs
               PROVE  /\ <<r, c>> \in view => Schedule!is_within_upcoming_window(c, t)
                      /\ c.start >= now /\ r \notin unacked /\ ~Explained(r, c)' =>
                             (<<r, c>> \in view <=> Listed(r, c, t)')
    BY <1>1 DEF ViewOK
  <2>1. <<r, c>> \in view => Schedule!is_within_upcoming_window(c, t)
    BY <1>7 DEF ViewOK
  <2>2. ASSUME c.start >= now, r \notin unacked, ~Explained(r, c)'
        PROVE  <<r, c>> \in view <=> Listed(r, c, t)'
    <3>1. <<r, c>> \in view <=> Listed(r, c, t)
      BY <2>2, <1>6, <1>7 DEF ViewOK
    <3>2. Listed(r, c, t)' <=> Listed(r, c, t)
      BY <2>2, <1>6, <1>1, ListedAfterWrite
    <3>3. QED
      BY <3>1, <3>2
  <2>3. QED
    BY <2>1, <2>2
<1>8. RaceEntriesOK'
  BY <1>1, <1>7 DEF RaceEntriesOK
<1>9. QED
  BY <1>5, <1>8

\* The change is made and will not be announced; its race is marked.
LEMMA ScheduleCommitLost ==
    ASSUME ScheduleInv, NEW a \in Admins, Schedule!CommitLost(a)
    PROVE  ScheduleInv'
<1> USE DEF ScheduleInv
<1>1. /\ raceAdmin[a].at = "commit" /\ Schedule!Write(raceAdmin[a])
      /\ lost < MaxLost /\ lost' = lost + 1
      /\ unacked' = unacked \cup {raceAdmin[a].race}
      /\ raceAdmin' = [raceAdmin EXCEPT ![a] = Schedule!Idle]
      /\ UNCHANGED <<now, raceGen, raceCache, raceMenu>>
  BY DEF Schedule!CommitLost, Schedule!Free
<1>2. raceAdmin[a].race \in Races /\ Schedule!Idle.at = "idle"
  BY <1>1, WriteIsChange, ScheduleTypes DEF Schedule!Requests
<1>3. /\ Schedule!Promise!Valid(races)' /\ ChangesOK'
      /\ Schedule!TypeOK'
  <2>1. /\ Schedule!Promise!Valid(races)' /\ ChangesOK'
        /\ races' \in [Races -> Schedule!Configs \cup {Nil}]
        /\ raceRevision' \in 0..MaxRaceRevision
        /\ raceAdmin' \in [Admins -> {Schedule!Idle} \cup Schedule!Requests]
    BY <1>1, <1>2, AfterWrite
  <2>2. lost' \in 0..MaxLost /\ unacked' \subseteq Races
    BY <1>1, <1>2, ScheduleTypes, ScheduleConstants
  <2>3. QED
    BY <2>1, <2>2, <1>1 DEF Schedule!TypeOK
<1>4. ASSUME NEW r, NEW c PROVE Explained(r, c)' <=> Explained(r, c)
  BY <1>1, <1>2, ScheduleTypes DEF Explained
<1>5. ASSUME NEW view, NEW t, ViewOK(view, t) PROVE ViewOK(view, t)'
  <2> SUFFICES ASSUME NEW r \in Races, NEW c \in Schedule!Configs
               PROVE  /\ <<r, c>> \in view => Schedule!is_within_upcoming_window(c, t)
                      /\ c.start >= now /\ r \notin unacked' /\ ~Explained(r, c)' =>
                             (<<r, c>> \in view <=> Listed(r, c, t)')
    BY <1>1 DEF ViewOK
  <2>1. <<r, c>> \in view => Schedule!is_within_upcoming_window(c, t)
    BY <1>5 DEF ViewOK
  <2>2. ASSUME c.start >= now, r \notin unacked', ~Explained(r, c)'
        PROVE  <<r, c>> \in view <=> Listed(r, c, t)'
    <3>1. <<r, c>> \in view <=> Listed(r, c, t)
      BY <2>2, <1>1, <1>4, <1>5 DEF ViewOK
    <3>2. Listed(r, c, t)' <=> Listed(r, c, t)
      BY <2>2, <1>1, ListedAfterWrite
    <3>3. QED
      BY <3>1, <3>2
  <2>3. QED
    BY <2>1, <2>2
<1>6. RaceEntriesOK'
  BY <1>1, <1>5 DEF RaceEntriesOK
<1>7. QED
  BY <1>3, <1>6

\* A change whose races are not of the next hour is announced by nobody: nothing
\* that was read for an earlier hour and is still to start can be about it.
LEMMA ScheduleInvalidate ==
    ASSUME ScheduleInv, NEW a \in Admins, Schedule!Invalidate(a)
    PROVE  ScheduleInv'
<1> USE DEF ScheduleInv
<1>1. /\ raceAdmin[a].at = "invalidate" /\ raceAdmin[a] \in Schedule!Requests
      /\ raceAdmin' = [raceAdmin EXCEPT ![a] = Schedule!Idle]
      /\ raceGen' = IF Schedule!invalidate_for_change(raceAdmin[a])
                    THEN raceGen + 1 ELSE raceGen
      /\ UNCHANGED <<races, raceRevision, now, raceCache, raceMenu, lost, unacked>>
  BY ScheduleRecords DEF Schedule!Invalidate, Schedule!Free, Schedule!store
<1>2. raceGen' \in Nat /\ raceGen \in Nat
  BY <1>1, ScheduleTypes
<1>3. Schedule!TypeOK'
  <2>1. raceAdmin' \in [Admins -> {Schedule!Idle} \cup Schedule!Requests]
    BY <1>1, ScheduleTypes
  <2>2. QED
    BY <2>1, <1>1, <1>2 DEF Schedule!TypeOK
<1>4. Schedule!Promise!Valid(races)'
  BY <1>1 DEF Schedule!Promise!Valid
<1>5. ChangesOK'
  BY <1>1, ScheduleTypes DEF ChangesOK, ChangeOK
<1>6. raceCache.gen \in Nat /\ \A m \in Menus : raceMenu[m].at # "idle" =>
                                  /\ raceMenu[m].gen \in Nat /\ raceMenu[m].time \in Nat
  BY ScheduleTypes, ScheduleRecords DEF Schedule!Polls
<1>7. CASE Schedule!invalidate_for_change(raceAdmin[a])
  <2>1. raceCache.gen < raceGen' /\ \A m \in Menus : raceMenu[m].at # "idle" =>
                                                   raceMenu[m].gen < raceGen'
    BY <1>1, <1>2, <1>6, <1>7 DEF RaceEntriesOK
  <2>2. RaceEntriesOK'
    BY <2>1, <1>1, <1>2, <1>6 DEF RaceEntriesOK
  <2>3. QED
    BY <2>2, <1>3, <1>4, <1>5
<1>8. CASE ~Schedule!invalidate_for_change(raceAdmin[a])
  <2>1. UNCHANGED raceGen
    BY <1>1, <1>8
  <2>2. ASSUME NEW view, NEW t \in Nat, t <= now, ViewOK(view, t) PROVE ViewOK(view, t)'
    <3> SUFFICES ASSUME NEW r \in Races, NEW c \in Schedule!Configs
                 PROVE  /\ <<r, c>> \in view => Schedule!is_within_upcoming_window(c, t)
                        /\ c.start >= now /\ r \notin unacked /\ ~Explained(r, c)' =>
                               (<<r, c>> \in view <=> Listed(r, c, t))
      BY <1>1 DEF ViewOK, Listed
    <3>1. <<r, c>> \in view => Schedule!is_within_upcoming_window(c, t)
      BY <2>2 DEF ViewOK
    <3>2. ASSUME c.start >= now, r \notin unacked, ~Explained(r, c)'
          PROVE  <<r, c>> \in view <=> Listed(r, c, t)
      <4>1. CASE ~Explained(r, c)
        BY <4>1, <3>2, <2>2 DEF ViewOK
      <4>2. CASE Explained(r, c)
        <5>1. c = raceAdmin[a].old \/ c = raceAdmin[a].config
          <6>1. \A b \in Admins : b # a => raceAdmin'[b] = raceAdmin[b]
            BY <1>1, ScheduleTypes
          <6>2. QED
            BY <6>1, <4>2, <3>2 DEF Explained
        <5>2. ~Schedule!is_within_upcoming_window(c, now)
          BY <5>1, <1>8, ScheduleConstants DEF Schedule!invalidate_for_change
        <5>3. ~Schedule!is_within_upcoming_window(c, t)
          <6>1. /\ c.start \in Nat /\ now \in Nat /\ Window \in Nat
            BY ScheduleConstants, ScheduleTypes
          <6>2. QED
            BY <6>1, <5>2, <3>2, <2>2 DEF Schedule!is_within_upcoming_window
        <5>4. QED
          BY <5>3, <3>1 DEF Listed
      <4>3. QED
        BY <4>1, <4>2
    <3>3. QED
      BY <3>1, <3>2
  <2>3. raceCache.at \in Nat
    BY ScheduleTypes
  <2>4. RaceEntriesOK'
    BY <2>1, <2>2, <2>3, <1>1, <1>6 DEF RaceEntriesOK
  <2>5. QED
    BY <2>4, <1>3, <1>4, <1>5
<1>9. QED
  BY <1>7, <1>8

\* The races of the hour after t, as the menu reads them.
LEMMA UpcomingRaces ==
    ASSUME Schedule!TypeOK, NEW t
    PROVE  /\ Schedule!build_upcoming_races(t) \in Schedule!Views
           /\ \A r \in Races, c \in Schedule!Configs :
                 <<r, c>> \in Schedule!build_upcoming_races(t) <=> Listed(r, c, t)
BY ScheduleTypes, ScheduleConstants
   DEF Schedule!build_upcoming_races, Schedule!Present, Schedule!Views, Listed

\* A poll takes the time and the generation before the races and stores them
\* together.
LEMMA ScheduleMenu ==
    ASSUME ScheduleInv, NEW m \in Menus,
           \/ Schedule!ReadCache(m) \/ Schedule!ReadSnapshot(m) \/ Schedule!FillCache(m)
           \/ Schedule!StreamFails(m)
    PROVE  ScheduleInv'
<1> USE DEF ScheduleInv
<1>t. /\ raceMenu \in [Menus -> {Schedule!Idle} \cup Schedule!Polls]
      /\ now \in Nat /\ raceGen \in Nat
      /\ Schedule!Idle.at = "idle"
  BY ScheduleTypes
<1>1. UNCHANGED <<races, raceRevision, raceAdmin, now, raceGen, lost, unacked>>
  BY DEF Schedule!ReadCache, Schedule!ReadSnapshot, Schedule!FillCache,
         Schedule!StreamFails, Schedule!store
<1>2. Schedule!Promise!Valid(races)' /\ ChangesOK'
  BY <1>1 DEF Schedule!Promise!Valid, ChangesOK, ChangeOK
<1>3. ASSUME raceMenu' \in [Menus -> {Schedule!Idle} \cup Schedule!Polls],
             raceCache' \in [gen: Nat, at: Nat, races: Schedule!Views]
      PROVE  Schedule!TypeOK'
  BY <1>1, <1>3 DEF Schedule!TypeOK
<1>4. ASSUME NEW view, NEW t PROVE ViewOK(view, t)' <=> ViewOK(view, t)
  BY <1>1 DEF ViewOK, Listed, Explained
<1>5. CASE Schedule!ReadCache(m)
  <2> DEFINE p == [at |-> "snapshot", time |-> now, gen |-> raceGen, races |-> {}]
  <2>1. p \in Schedule!Polls /\ p.at = "snapshot" /\ p.time = now /\ p.gen = raceGen
    BY <1>t DEF Schedule!Polls, Schedule!Views
  <2>2. raceMenu' = [raceMenu EXCEPT ![m] = p] /\ UNCHANGED raceCache
    BY <1>5 DEF Schedule!ReadCache
  <2> HIDE DEF p
  <2>3. Schedule!TypeOK'
    BY <2>1, <2>2, <1>3, <1>t DEF Schedule!TypeOK
  <2>4. RaceEntriesOK'
    BY <2>1, <2>2, <1>1, <1>4, <1>t DEF RaceEntriesOK
  <2>5. QED
    BY <2>3, <2>4, <1>2
<1>6. CASE Schedule!ReadSnapshot(m)
  <2> DEFINE v == Schedule!build_upcoming_races(raceMenu[m].time)
             p == [raceMenu[m] EXCEPT !.at = "store", !.races = v]
  <2>1. raceMenu[m] \in Schedule!Polls /\ raceMenu[m].at = "snapshot"
    BY <1>6, ScheduleRecords DEF Schedule!ReadSnapshot
  <2>2. v \in Schedule!Views /\ ViewOK(v, raceMenu[m].time)
    BY UpcomingRaces DEF ViewOK, Listed
  <2>3. raceMenu' = [raceMenu EXCEPT ![m] = p] /\ UNCHANGED raceCache
    BY <1>6, <1>t DEF Schedule!ReadSnapshot
  <2> HIDE DEF v
  <2>4. /\ p \in Schedule!Polls /\ p.at = "store" /\ p.time = raceMenu[m].time
        /\ p.gen = raceMenu[m].gen /\ p.races = v
    BY <2>1, <2>2 DEF Schedule!Polls
  <2> HIDE DEF p
  <2>5. Schedule!TypeOK'
    BY <2>3, <2>4, <1>3, <1>t DEF Schedule!TypeOK
  <2>6. RaceEntriesOK'
    BY <2>1, <2>2, <2>3, <2>4, <1>1, <1>4, <1>t DEF RaceEntriesOK
  <2>7. QED
    BY <2>5, <2>6, <1>2
<1>7. CASE Schedule!FillCache(m)
  <2>1. raceMenu[m] \in Schedule!Polls /\ raceMenu[m].at = "store"
    BY <1>7, ScheduleRecords DEF Schedule!FillCache
  <2>2. /\ raceMenu' = [raceMenu EXCEPT ![m] = Schedule!Idle]
        /\ raceCache' = [gen |-> raceMenu[m].gen, at |-> raceMenu[m].time,
                         races |-> raceMenu[m].races]
    BY <1>7 DEF Schedule!FillCache, Schedule!Answer
  <2>3. Schedule!TypeOK'
    BY <2>1, <2>2, <1>3, <1>t DEF Schedule!Polls
  <2>4. RaceEntriesOK'
    BY <2>1, <2>2, <1>1, <1>4, <1>t DEF RaceEntriesOK
  <2>5. QED
    BY <2>3, <2>4, <1>2
<1>8. CASE Schedule!StreamFails(m)
  <2>1. raceMenu' = [raceMenu EXCEPT ![m] = Schedule!Idle] /\ UNCHANGED raceCache
    BY <1>8 DEF Schedule!StreamFails, Schedule!Answer
  <2>2. Schedule!TypeOK'
    BY <2>1, <1>3, <1>t DEF Schedule!TypeOK
  <2>3. RaceEntriesOK'
    BY <2>1, <1>1, <1>4, <1>t DEF RaceEntriesOK
  <2>4. QED
    BY <2>2, <2>3, <1>2
<1>9. QED
  BY <1>5, <1>6, <1>7, <1>8

\* Time passes: fewer races are still to start.
LEMMA ScheduleTick ==
    ASSUME ScheduleInv, Schedule!Tick
    PROVE  ScheduleInv'
<1> USE DEF ScheduleInv
<1>1. /\ now < MaxTime /\ now' = now + 1
      /\ UNCHANGED <<races, raceRevision, raceAdmin, raceGen, raceCache, raceMenu, lost,
                     unacked>>
  BY DEF Schedule!Tick, Schedule!store
<1>2. now' \in Epoch..MaxTime /\ now \in Nat
  BY <1>1, ScheduleTypes, ScheduleConstants
<1>3. Schedule!TypeOK'
  BY <1>1, <1>2 DEF Schedule!TypeOK
<1>4. Schedule!Promise!Valid(races)' /\ ChangesOK'
  BY <1>1 DEF Schedule!Promise!Valid, ChangesOK, ChangeOK
<1>5. ASSUME NEW view, NEW t, ViewOK(view, t) PROVE ViewOK(view, t)'
  <2>1. \A c \in Schedule!Configs : c.start >= now' => c.start >= now
    BY <1>1, <1>2, ScheduleConstants
  <2>2. QED
    BY <2>1, <1>1, <1>5 DEF ViewOK, Listed, Explained
<1>6. RaceEntriesOK'
  <2>1. raceCache.at <= now' /\ \A m \in Menus : raceMenu[m].at # "idle" =>
                                                   raceMenu[m].time <= now'
    <3>1. raceCache.at \in Nat /\ \A m \in Menus : raceMenu[m].at # "idle" =>
                                                     raceMenu[m].time \in Nat
      BY ScheduleTypes, ScheduleRecords DEF Schedule!Polls
    <3>2. QED
      BY <3>1, <1>1, <1>2 DEF RaceEntriesOK
  <2>2. QED
    BY <2>1, <1>1, <1>5 DEF RaceEntriesOK
<1>7. QED
  BY <1>3, <1>4, <1>6

\* The invariant of the schedule holds at the start and is kept.
LEMMA ScheduleInit == Schedule!Init => ScheduleInv /\ Schedule!Promise!Init
<1> SUFFICES ASSUME Schedule!Init PROVE ScheduleInv /\ Schedule!Promise!Init
  OBVIOUS
<1> USE ScheduleConstants DEF Schedule!Init, Schedule!Idle
<1>1. Schedule!TypeOK
  BY DEF Schedule!TypeOK, Schedule!Views
<1>2. Schedule!Promise!Valid(races)
  BY DEF Schedule!Promise!Valid
<1>3. ChangesOK
  BY DEF ChangesOK, ChangeOK
<1>4. RaceEntriesOK
  BY DEF RaceEntriesOK
<1>5. Schedule!Promise!Init
  BY DEF Schedule!Promise!Init
<1>6. QED
  BY <1>1, <1>2, <1>3, <1>4, <1>5 DEF ScheduleInv

\* Every step of the race administration.
LEMMA ScheduleNext == ScheduleInv /\ [Schedule!Next]_scheduleVars => ScheduleInv'
<1> SUFFICES ASSUME ScheduleInv, [Schedule!Next]_scheduleVars PROVE ScheduleInv'
  OBVIOUS
<1>1. CASE UNCHANGED scheduleVars
  <2>1. UNCHANGED <<races, raceRevision, raceAdmin, now, raceGen, raceCache, raceMenu,
                    lost, unacked>>
    BY <1>1 DEF scheduleVars
  <2>2. ASSUME NEW view, NEW t PROVE ViewOK(view, t)' <=> ViewOK(view, t)
    BY <2>1 DEF ViewOK, Listed, Explained
  <2>3. QED
    BY <2>1, <2>2 DEF ScheduleInv, Schedule!TypeOK, Schedule!Promise!Valid, ChangesOK,
                      ChangeOK, RaceEntriesOK
<1>2. QED
  BY <1>1, ScheduleRequests, ScheduleCommit, ScheduleCommitLost, ScheduleInvalidate,
     ScheduleMenu, ScheduleTick DEF Schedule!Next

\* Every step of the administration is a change of the abstract schedule or none.
LEMMA ScheduleRefines ==
    ASSUME ScheduleInv, [Schedule!Next]_scheduleVars
    PROVE  [Schedule!Promise!Change]_<<races, raceRevision>>
<1>1. ASSUME NEW a \in Admins, Schedule!Commit(a) \/ Schedule!CommitLost(a)
      PROVE  Schedule!Promise!Change
  BY <1>1, WriteIsChange DEF Schedule!Commit, Schedule!CommitLost
<1>2. ASSUME NEW a \in Admins,
             \/ Schedule!create_race_config(a) \/ Schedule!update_race_config(a)
             \/ Schedule!delete_race_config(a) \/ Schedule!RequestFails(a)
             \/ Schedule!Invalidate(a)
      PROVE  UNCHANGED <<races, raceRevision>>
  BY <1>2 DEF Schedule!create_race_config, Schedule!update_race_config,
              Schedule!delete_race_config, Schedule!RequestFails, Schedule!Invalidate,
              Schedule!Submit, Schedule!store
<1>3. ASSUME NEW m \in Menus,
             \/ Schedule!ReadCache(m) \/ Schedule!ReadSnapshot(m)
             \/ Schedule!FillCache(m) \/ Schedule!StreamFails(m)
      PROVE  UNCHANGED <<races, raceRevision>>
  BY <1>3 DEF Schedule!ReadCache, Schedule!ReadSnapshot, Schedule!FillCache,
              Schedule!StreamFails, Schedule!store
<1>4. Schedule!Tick \/ UNCHANGED scheduleVars => UNCHANGED <<races, raceRevision>>
  BY DEF Schedule!Tick, Schedule!store, scheduleVars
<1>5. QED
  BY <1>1, <1>2, <1>3, <1>4 DEF Schedule!Next

\* The invariant gives what the run checks.
LEMMA ScheduleSound == ScheduleInv => CacheShowsSchedule
<1> SUFFICES ASSUME ScheduleInv, \A a \in Admins : raceAdmin[a].at # "invalidate",
                    raceCache.gen = raceGen, raceCache.at # 0
             PROVE  LET Due(view) == {e \in view : e[2].start >= now /\ e[1] \notin unacked}
                    IN  Due(raceCache.races)
                          = Due(Schedule!build_upcoming_races(raceCache.at))
  BY DEF CacheShowsSchedule, Schedule!CacheShowsSchedule, ScheduleInv
<1> DEFINE v == raceCache.races
           w == Schedule!build_upcoming_races(raceCache.at)
           Due(view) == {e \in view : e[2].start >= now /\ e[1] \notin unacked}
<1>1. ViewOK(v, raceCache.at) /\ \A r, c : ~Explained(r, c)
  BY DEF ScheduleInv, RaceEntriesOK, Explained
<1>2. /\ v \in Schedule!Views /\ w \in Schedule!Views
      /\ \A r \in Races, c \in Schedule!Configs :
            <<r, c>> \in w <=> Listed(r, c, raceCache.at)
  BY UpcomingRaces, ScheduleTypes DEF ScheduleInv
<1> HIDE DEF v, w
<1>3. \A r \in Races, c \in Schedule!Configs :
          c.start >= now /\ r \notin unacked => (<<r, c>> \in v <=> <<r, c>> \in w)
  BY <1>1, <1>2 DEF ViewOK
<1>4. \A e \in v \cup w : \E r \in Races, c \in Schedule!Configs : e = <<r, c>>
  BY <1>2 DEF Schedule!Views
<1>5. ASSUME NEW e PROVE e \in Due(v) <=> e \in Due(w)
  BY <1>3, <1>4
<1>6. Due(v) = Due(w)
  BY <1>5
<1>7. QED
  BY <1>6 DEF v, w

-----------------------------------------------------------------------------
(* The three together. *)

Inv == ScheduleInv /\ OfficialInv /\ TokenInv

\* The strengthened invariants of the three services hold in every reachable state.
THEOREM Invariance == Spec => []Inv
<1>1. Init => Inv
  BY ScheduleInit, OfficialInit, TokenInit DEF Init, Inv
<1>2. Inv /\ [Next]_vars => Inv'
  <2> SUFFICES ASSUME Inv, [Next]_vars PROVE Inv'
    OBVIOUS
  <2>1. /\ [Schedule!Next]_scheduleVars /\ [Official!Next]_officialVars
        /\ [Tokens!Next]_tokenVars
    BY DEF Next, vars
  <2>2. QED
    BY <2>1, ScheduleNext, OfficialNext, TokenNext DEF Inv
<1>3. QED
  BY <1>1, <1>2, PTL DEF Spec

\* The cache of upcoming races never hides a finished change of the schedule: an
\* entry of the current generation shows the persisted races that are still to start
\* (get_upcoming_races, invalidate_for_change).
THEOREM UpcomingCacheSound == Spec => []CacheShowsSchedule
<1>1. Inv => CacheShowsSchedule
  BY ScheduleSound DEF Inv
<1>2. QED
  BY <1>1, Invariance, PTL

\* The administration of the races implements the abstract Schedule: each persisted
\* change touches one race, takes a revision of its own and leaves no two races that
\* overlap, although a candidate is validated against an earlier snapshot and only
\* neighbours are compared (validate_schedule, create_config, update_config).
THEOREM AdministrationImplementsSchedule == Spec => ImplementsSchedule
<1>1. Init => Schedule!Promise!Init
  BY ScheduleInit DEF Init
<1>2. Inv /\ [Next]_vars => [Schedule!Promise!Change]_<<races, raceRevision>>
  <2> SUFFICES ASSUME Inv, [Next]_vars
               PROVE  [Schedule!Promise!Change]_<<races, raceRevision>>
    OBVIOUS
  <2>1. [Schedule!Next]_scheduleVars
    BY DEF Next, vars
  <2>2. QED
    BY <2>1, ScheduleRefines DEF Inv
<1>3. QED
  BY <1>1, <1>2, Invariance, PTL
     DEF Spec, ImplementsSchedule, Schedule!ImplementsSchedule, Schedule!Promise!Spec

\* The cache of sandbox configurations shows every finished change
\* (get_sandbox_configs, SandboxConfigCacheInvalidation).
THEOREM ConfigCacheSound == Spec => []CacheShowsConfigs
<1>1. Inv => CacheShowsConfigs
  BY DEF Inv, OfficialInv, EntriesOK, CacheShowsConfigs, Official!CacheShowsConfigs,
         Official!CacheHit
<1>2. QED
  BY <1>1, Invariance, PTL

\* A change of the time of day undoes no other change of a configuration, although it
\* takes the rest of the configuration from an unchecked snapshot
\* (update_sandbox_time_of_day).
THEOREM TimeOfDaySound == Spec => TimeOfDayKeepsRest
<1> DEFINE A == \A a \in Admins, s \in OfficialIds :
                   admin[a].at = "commit" /\ admin'[a].at = "invalidate"
                       /\ admin[a].kind = "time"
                   => configs'[s] = configs[s]
                      \/ (s = admin[a].id /\ configs'[s].rest = configs[s].rest)
<1>1. Inv /\ [Next]_vars => [A]_(Official!vars)
  <2> SUFFICES ASSUME Inv, [Next]_vars PROVE A
    OBVIOUS
  <2>1. [Official!Next]_officialVars
    BY DEF Next, vars
  <2>2. QED
    BY <2>1, TimeOfDayStep DEF Inv
<1>2. QED
  BY <1>1, Invariance, PTL DEF Spec, TimeOfDayKeepsRest, Official!TimeOfDayKeepsRest

\* A cached service token has not expired at Keycloak while it is handed out, a call
\* ends refused only with a token of its own, and a team served from the cache is
\* recent (current_or_fetch_token, refresh_token, resolve_team_id).
THEOREM ServiceTokensSound == Spec => []TokensAreLive
<1>1. Inv => TokensAreLive
  BY TokensSound DEF Inv
<1>2. QED
  BY <1>1, Invariance, PTL

-----------------------------------------------------------------------------
(* The weather schedule and the forecasts. *)

Loading == {"ensure", "guard", "load", "store", "generation"}
Projecting == {"again", "project", "publish"}
Rows == [content: Schedules, version: 0..MaxVersion]
Asks == [at: {"idle", "peek", "loop", "compute", "done"} \cup Loading \cup Projecting,
         preset: ForecastPresets \cup {Nil}, slot: Int \cup {Nil},
         back: {Nil, "peek", "done", "loop", "again"},
         generation: Nat \cup {Nil}, read: {Nil} \cup Rows \cup Schedules]
Kept == [entries: Schedules, version: 0..MaxVersion, at: (0..MaxClock) \cup {Nil},
         generation: Nat]
Made == [first: Schedules \cup {Nil}, later: SUBSET Schedules, slot: Int \cup {Nil},
         generation: Nat \cup {Nil}]

\* A request that computes a forecast, inside forecast_refresh_guard.
Computes(c) == c.at \in Projecting \/ (c.at \in Loading /\ c.back = "again")

\* What a request knows of the table (d) and of the cached schedule (k), with the
\* holder of the refresh guard (r): a generation it has read is not a later one, what
\* it projects belongs to its generation unless a later one has begun, and what it
\* stores is not older than what is cached.
AskOK(h, c, k, d, r) ==
    /\ c.at \in Loading => c.back \in {"peek", "done", "loop", "again"}
    /\ \/ c.at \in {"peek", "loop", "compute"} \cup Projecting
       \/ c.at \in Loading /\ c.back \in {"peek", "loop", "again"}
       => c.preset \in ForecastPresets
    /\ c.generation # Nil => c.generation <= k.generation
    /\ c.at \in Projecting => c.generation # Nil
    /\ c.at = "publish" => c.read \in Schedules
    /\ c.at = "publish" /\ c.generation = k.generation => c.read = k.entries
    /\ c.at \in {"load", "store"} => r = h
    /\ c.at = "store" => /\ c.read \in Rows
                         /\ k.version <= c.read.version /\ c.read.version <= d.version

\* A forecast is of the cached schedule, if it is of its generation.
MadeOK(f, k) ==
    /\ f.generation # Nil => f.first # Nil /\ f.generation <= k.generation
    /\ f.generation = k.generation => f.first = k.entries /\ f.later = {k.entries}

WeatherInv ==
    /\ clock \in 0..MaxClock
    /\ db \in Rows
    /\ cached \in Kept /\ cached.version <= db.version
    /\ ask \in [Admins -> Asks]
    /\ \A h \in Admins : AskOK(h, ask[h], cached, db, refresh)
    /\ refresh # Nil => refresh \in Admins /\ ask[refresh].at \in {"load", "store"}
    /\ compute # Nil => compute \in Admins /\ Computes(ask[compute])
    /\ forecasts \in [ForecastPresets -> Made]
    /\ \A p \in ForecastPresets : MadeOK(forecasts[p], cached)

\* What the constants are.
LEMMA WeatherConstants ==
    /\ Empty \in Schedules /\ MaxVersion \in Nat /\ MaxClock \in Nat
    /\ Minute \in Nat /\ Minute # 0
    /\ Nil \notin Nat /\ Nil \notin Schedules /\ Nil \notin Admins
BY Assumptions DEF Weather!CacheAssumption

\* A request that changes its record only.
LEMMA AskMoves ==
    ASSUME WeatherInv, NEW h \in Admins, NEW q \in Asks, ask' = [ask EXCEPT ![h] = q],
           AskOK(h, q, cached, db, refresh'),
           \/ refresh' = refresh /\ refresh # h
           \/ refresh' = refresh /\ q.at \in {"load", "store"}
           \/ refresh = h /\ refresh' = Nil
           \/ refresh = Nil /\ refresh' = h /\ q.at = "load",
           \/ compute' = compute /\ (compute = h => Computes(q))
           \/ compute' = h /\ Computes(q)
           \/ compute' = Nil,
           UNCHANGED <<clock, db, cached, forecasts>>
    PROVE  WeatherInv'
<1>1. ask' \in [Admins -> Asks] /\ \A g \in Admins : ask'[g] = IF g = h THEN q ELSE ask[g]
  BY DEF WeatherInv
<1>2. ASSUME NEW g \in Admins PROVE AskOK(g, ask'[g], cached, db, refresh')
  <2>1. CASE g = h
    BY <1>1, <2>1
  <2>2. CASE g # h
    <3>1. ask'[g] = ask[g] /\ AskOK(g, ask[g], cached, db, refresh)
      BY <1>1, <2>2 DEF WeatherInv
    <3>2. refresh = g => refresh' = g
      BY <2>2, WeatherConstants
    <3>3. QED
      BY <3>1, <3>2 DEF AskOK
  <2>3. QED
    BY <2>1, <2>2
<1>3. refresh' # Nil => refresh' \in Admins /\ ask'[refresh'].at \in {"load", "store"}
  BY <1>1 DEF WeatherInv
<1>4. compute' # Nil => compute' \in Admins /\ Computes(ask'[compute'])
  BY <1>1 DEF WeatherInv
<1>5. QED
  BY <1>1, <1>2, <1>3, <1>4 DEF WeatherInv

\* Requests that begin, look at the caches, wait for a guard, end or fail.
LEMMA AskingSteps ==
    ASSUME WeatherInv, NEW h \in Admins,
           \/ Weather!GetWeather(h)
           \/ \E p \in ForecastPresets : Weather!GetForecast(h, p) \/ Weather!RefreshLoop(h, p)
           \/ Weather!Ensure(h) \/ Weather!Guard(h) \/ Weather!Load(h) \/ Weather!Generation(h)
           \/ Weather!Peek(h) \/ Weather!Compute(h) \/ Weather!Again(h) \/ Weather!Project(h)
           \/ Weather!Done(h) \/ Weather!Fail(h)
    PROVE  WeatherInv'
<1> USE DEF Loading, Projecting
<1> DEFINE c == ask[h]
<1>t. /\ c \in Asks /\ AskOK(h, c, cached, db, refresh) /\ ask \in [Admins -> Asks]
      /\ cached \in Kept /\ db \in Rows /\ cached.version <= db.version /\ clock \in 0..MaxClock
      /\ refresh # Nil => refresh \in Admins /\ ask[refresh].at \in {"load", "store"}
      /\ compute # Nil => compute \in Admins /\ Computes(ask[compute])
  BY DEF WeatherInv
<1>i. /\ Weather!Idle \in Asks /\ Weather!Idle.at = "idle" /\ Weather!Idle.generation = Nil
      /\ \A k, d, r : AskOK(h, Weather!Idle, k, d, r)
      /\ ~Computes(Weather!Idle)
  BY DEF Weather!Idle, Asks, AskOK, Computes
<1>u. UNCHANGED <<clock, db, cached, forecasts>>
  BY DEF Weather!GetWeather, Weather!GetForecast, Weather!RefreshLoop, Weather!Ensure,
         Weather!Guard, Weather!Load, Weather!Generation, Weather!Peek, Weather!Compute,
         Weather!Again, Weather!Project, Weather!Done, Weather!Fail
<1>g. /\ cached.generation \in Nat /\ cached.entries \in Schedules
      /\ cached.version \in 0..MaxVersion /\ db.version \in 0..MaxVersion
  BY <1>t DEF Kept, Rows
<1>h. c.at \notin {"load", "store"} => refresh # h
  BY <1>t, WeatherConstants
<1>1. CASE Weather!GetWeather(h)
  <2> DEFINE q == [Weather!Idle EXCEPT !.at = "ensure", !.back = "done"]
  <2>1. q \in Asks /\ q.at = "ensure" /\ q.back = "done" /\ q.generation = Nil
    BY <1>i DEF Asks
  <2>2. ask' = [ask EXCEPT ![h] = q] /\ UNCHANGED <<refresh, compute>> /\ c = Weather!Idle
    BY <1>1 DEF Weather!GetWeather, Weather!Become
  <2> HIDE DEF q
  <2>3. AskOK(h, q, cached, db, refresh)
    BY <2>1 DEF AskOK
  <2>4. refresh # h /\ compute # h
    BY <1>h, <1>i, <1>t, <2>2, WeatherConstants
  <2>5. QED
    BY <1>u, <2>1, <2>2, <2>3, <2>4, AskMoves
<1>2. ASSUME NEW p \in ForecastPresets, Weather!GetForecast(h, p) PROVE WeatherInv'
  <2>0. PICK slot \in Int : slot = Weather!Slot
    BY <1>t, WeatherConstants DEF Weather!Slot
  <2> DEFINE q == [Weather!Idle EXCEPT !.preset = p, !.slot = slot, !.at = "ensure", !.back = "peek"]
  <2>1. q \in Asks /\ q.at = "ensure" /\ q.back = "peek" /\ q.generation = Nil /\ q.preset = p
    BY <1>i DEF Asks
  <2>2. ask' = [ask EXCEPT ![h] = q] /\ UNCHANGED <<refresh, compute>> /\ c = Weather!Idle
    BY <1>2, <2>0 DEF Weather!GetForecast, Weather!Become
  <2> HIDE DEF q
  <2>3. AskOK(h, q, cached, db, refresh)
    BY <2>1 DEF AskOK
  <2>4. refresh # h /\ compute # h
    BY <1>h, <1>i, <1>t, <2>2, WeatherConstants
  <2>5. QED
    BY <1>u, <2>1, <2>2, <2>3, <2>4, AskMoves
<1>3. ASSUME NEW p \in ForecastPresets, Weather!RefreshLoop(h, p) PROVE WeatherInv'
  <2>0. PICK slot \in Int : slot = Weather!Slot
    BY <1>t, WeatherConstants DEF Weather!Slot
  <2>1. CASE c = Weather!Idle /\ Weather!Become(h, [Weather!Idle EXCEPT !.preset = p, !.at = "guard", !.back = "loop"])
    <3> DEFINE q == [Weather!Idle EXCEPT !.preset = p, !.at = "guard", !.back = "loop"]
    <3>1. q \in Asks /\ q.at = "guard" /\ q.back = "loop" /\ q.generation = Nil /\ q.preset = p
      BY <1>i DEF Asks
    <3>2. ask' = [ask EXCEPT ![h] = q] /\ UNCHANGED <<refresh, compute>>
      BY <1>3, <2>1 DEF Weather!RefreshLoop, Weather!Become
    <3> HIDE DEF q
    <3>3. AskOK(h, q, cached, db, refresh)
      BY <3>1 DEF AskOK
    <3>4. refresh # h /\ compute # h
      BY <1>h, <1>i, <1>t, <2>1, WeatherConstants
    <3>5. QED
      BY <1>u, <3>1, <3>2, <3>3, <3>4, AskMoves
  <2>2. CASE c.at = "loop" /\ Weather!Become(h, [c EXCEPT !.slot = Weather!Slot, !.at = "compute"])
    <3> DEFINE q == [c EXCEPT !.slot = slot, !.at = "compute"]
    <3>1. q \in Asks /\ q.at = "compute" /\ q.generation = c.generation /\ q.preset = c.preset
      BY <1>t DEF Asks
    <3>2. ask' = [ask EXCEPT ![h] = q] /\ UNCHANGED <<refresh, compute>>
      BY <1>3, <2>0, <2>2 DEF Weather!RefreshLoop, Weather!Become
    <3> HIDE DEF q
    <3>3. AskOK(h, q, cached, db, refresh)
      BY <1>t, <2>2, <3>1 DEF AskOK
    <3>4. refresh # h /\ compute # h
      BY <1>h, <1>t, <2>2, WeatherConstants DEF Computes
    <3>5. QED
      BY <1>u, <3>1, <3>2, <3>3, <3>4, AskMoves
  <2>3. QED
    BY <1>3, <2>1, <2>2 DEF Weather!RefreshLoop
<1>4. CASE Weather!Ensure(h) \/ Weather!Generation(h)
  <2>0. c.at \in {"ensure", "generation"} /\ UNCHANGED <<refresh, compute>>
    BY <1>4 DEF Weather!Ensure, Weather!Generation
  <2>b. c.back \in {"peek", "done", "loop", "again"}
    BY <1>t, <2>0 DEF AskOK, Asks
  <2>1. CASE ask' = [ask EXCEPT ![h] = [c EXCEPT !.generation = cached.generation, !.at = c.back]]
    <3> DEFINE q == [c EXCEPT !.generation = cached.generation, !.at = c.back]
    <3>1. q \in Asks /\ q.at = c.back /\ q.generation = cached.generation /\ q.preset = c.preset
      BY <1>t, <1>g, <2>b DEF Asks
    <3> HIDE DEF q
    <3>2. AskOK(h, q, cached, db, refresh')
      BY <1>t, <1>g, <2>0, <2>b, <3>1, WeatherConstants DEF AskOK
    <3>3. ask' = [ask EXCEPT ![h] = q]
      BY <2>1 DEF q
    <3>4. compute = h => Computes(q)
      BY <1>t, <2>0, <3>1, WeatherConstants DEF Computes
    <3>5. refresh # h
      BY <1>h, <2>0
    <3>6. QED
      BY <1>u, <2>0, <3>1, <3>2, <3>3, <3>4, <3>5, AskMoves
  <2>2. CASE c.at = "ensure" /\ ask' = [ask EXCEPT ![h].at = "guard"]
    <3> DEFINE q == [c EXCEPT !.at = "guard"]
    <3>1. q \in Asks /\ q.at = "guard" /\ q.generation = c.generation /\ q.preset = c.preset /\ q.back = c.back
      BY <1>t DEF Asks
    <3> HIDE DEF q
    <3>2. AskOK(h, q, cached, db, refresh')
      BY <1>t, <2>0, <2>2, <3>1 DEF AskOK
    <3>3. ask' = [ask EXCEPT ![h] = q]
      BY <1>t, <2>2 DEF q
    <3>4. compute = h => Computes(q)
      BY <1>t, <2>0, <3>1, WeatherConstants DEF Computes
    <3>5. refresh # h
      BY <1>h, <2>0
    <3>6. QED
      BY <1>u, <2>0, <3>1, <3>2, <3>3, <3>4, <3>5, AskMoves
  <2>3. QED
    BY <1>4, <2>1, <2>2 DEF Weather!Ensure, Weather!Generation, Weather!Become, Weather!Go
<1>5. CASE Weather!Guard(h)
  <2>0. c.at = "guard" /\ refresh = Nil /\ UNCHANGED compute
    BY <1>5 DEF Weather!Guard
  <2>1. PICK at \in {"generation", "load"} :
           /\ ask' = [ask EXCEPT ![h].at = at]
           /\ refresh' = IF at = "load" THEN h ELSE refresh
    BY <1>5 DEF Weather!Guard, Weather!Go
  <2> DEFINE q == [c EXCEPT !.at = at]
  <2>2. q \in Asks /\ q.at = at /\ q.generation = c.generation /\ q.preset = c.preset /\ q.back = c.back
    BY <1>t DEF Asks
  <2> HIDE DEF q
  <2>3. AskOK(h, q, cached, db, refresh')
    BY <1>t, <2>0, <2>1, <2>2 DEF AskOK
  <2>4. ask' = [ask EXCEPT ![h] = q]
    BY <1>t, <2>1 DEF q
  <2>5. compute = h => Computes(q)
    BY <1>t, <2>0, <2>2, WeatherConstants DEF Computes
  <2>6. refresh # h
    BY <1>h, <2>0
  <2>7. QED
    BY <1>u, <2>0, <2>1, <2>2, <2>3, <2>4, <2>5, <2>6, AskMoves
<1>6. CASE Weather!Load(h)
  <2> DEFINE q == [c EXCEPT !.at = "store", !.read = db]
  <2>1. q \in Asks /\ q.at = "store" /\ q.generation = c.generation /\ q.preset = c.preset
        /\ q.back = c.back /\ q.read = db
    BY <1>t DEF Asks
  <2>2. ask' = [ask EXCEPT ![h] = q] /\ UNCHANGED <<refresh, compute>> /\ c.at = "load"
    BY <1>6 DEF Weather!Load, Weather!Become
  <2> HIDE DEF q
  <2>3. AskOK(h, q, cached, db, refresh)
    BY <1>t, <1>g, <2>1, <2>2 DEF AskOK
  <2>4. compute = h => Computes(q)
    BY <1>t, <2>1, <2>2, WeatherConstants DEF Computes
  <2>5. QED
    BY <1>u, <2>1, <2>2, <2>3, <2>4, AskMoves
<1>7. CASE Weather!Peek(h)
  <2>1. PICK at \in {"done", "compute"} : ask' = [ask EXCEPT ![h].at = at]
    BY <1>7 DEF Weather!Peek, Weather!Go
  <2> DEFINE q == [c EXCEPT !.at = at]
  <2>2. q \in Asks /\ q.at = at /\ q.generation = c.generation /\ q.preset = c.preset
    BY <1>t DEF Asks
  <2>3. ask' = [ask EXCEPT ![h] = q] /\ UNCHANGED <<refresh, compute>> /\ c.at = "peek"
    BY <1>7, <1>t, <2>1 DEF Weather!Peek
  <2> HIDE DEF q
  <2>4. AskOK(h, q, cached, db, refresh)
    BY <1>t, <2>2, <2>3 DEF AskOK
  <2>5. refresh # h /\ compute # h
    BY <1>h, <1>t, <2>3, WeatherConstants DEF Computes
  <2>6. QED
    BY <1>u, <2>2, <2>3, <2>4, <2>5, AskMoves
<1>8. CASE Weather!Compute(h)
  <2> DEFINE q == [c EXCEPT !.at = "ensure", !.back = "again"]
  <2>1. q \in Asks /\ q.at = "ensure" /\ q.generation = c.generation /\ q.preset = c.preset /\ q.back = "again"
    BY <1>t DEF Asks
  <2>2. ask' = [ask EXCEPT ![h] = q] /\ UNCHANGED refresh /\ compute' = h /\ c.at = "compute"
    BY <1>8 DEF Weather!Compute, Weather!Become
  <2> HIDE DEF q
  <2>3. AskOK(h, q, cached, db, refresh) /\ Computes(q)
    BY <1>t, <2>1, <2>2 DEF AskOK, Computes
  <2>4. refresh # h
    BY <1>h, <2>2
  <2>5. QED
    BY <1>u, <2>1, <2>2, <2>3, <2>4, AskMoves
<1>9. CASE Weather!Again(h)
  <2>1. PICK at \in {"done", "project"} :
           /\ ask' = [ask EXCEPT ![h].at = at]
           /\ compute' = IF at = "done" THEN Nil ELSE compute
    BY <1>9 DEF Weather!Again, Weather!Go
  <2> DEFINE q == [c EXCEPT !.at = at]
  <2>2. q \in Asks /\ q.at = at /\ q.generation = c.generation /\ q.preset = c.preset
    BY <1>t DEF Asks
  <2>3. ask' = [ask EXCEPT ![h] = q] /\ UNCHANGED refresh /\ c.at = "again"
    BY <1>9, <1>t, <2>1 DEF Weather!Again
  <2> HIDE DEF q
  <2>4. AskOK(h, q, cached, db, refresh)
    BY <1>t, <2>2, <2>3 DEF AskOK
  <2>5. refresh # h /\ (at = "project" => Computes(q))
    BY <1>h, <2>2, <2>3 DEF Computes
  <2>6. QED
    BY <1>u, <2>1, <2>2, <2>3, <2>4, <2>5, AskMoves
<1>10. CASE Weather!Project(h)
  <2> DEFINE q == [c EXCEPT !.at = "publish", !.read = cached.entries]
  <2>1. q \in Asks /\ q.at = "publish" /\ q.generation = c.generation /\ q.preset = c.preset
        /\ q.read = cached.entries
    BY <1>t, <1>g DEF Asks
  <2>2. ask' = [ask EXCEPT ![h] = q] /\ UNCHANGED <<refresh, compute>> /\ c.at = "project"
    BY <1>10 DEF Weather!Project, Weather!Become
  <2> HIDE DEF q
  <2>3. AskOK(h, q, cached, db, refresh) /\ Computes(q)
    BY <1>t, <1>g, <2>1, <2>2 DEF AskOK, Computes
  <2>4. refresh # h
    BY <1>h, <2>2
  <2>5. QED
    BY <1>u, <2>1, <2>2, <2>3, <2>4, AskMoves
<1>11. CASE Weather!Done(h)
  <2>1. ask' = [ask EXCEPT ![h] = Weather!Idle] /\ UNCHANGED <<refresh, compute>> /\ c.at = "done"
    BY <1>11 DEF Weather!Done, Weather!Become
  <2>2. refresh # h /\ compute # h
    BY <1>h, <1>t, <2>1, WeatherConstants DEF Computes
  <2>3. QED
    BY <1>i, <1>u, <2>1, <2>2, AskMoves
<1>12. CASE Weather!Fail(h)
  <2>1. ask' = [ask EXCEPT ![h] = Weather!Idle]
        /\ refresh' = (IF refresh = h THEN Nil ELSE refresh)
        /\ compute' = (IF compute = h THEN Nil ELSE compute)
    BY <1>12 DEF Weather!Fail, Weather!Become
  <2>2. QED
    BY <1>i, <1>u, <2>1, AskMoves
<1>13. QED
  BY <1>1, <1>2, <1>3, <1>4, <1>5, <1>6, <1>7, <1>8, <1>9, <1>10, <1>11, <1>12

\* The schedule is stored by the holder of the guard: a new content begins a
\* generation, which nobody has read yet.
LEMMA WeatherStoreStep ==
    ASSUME WeatherInv, NEW h \in Admins, Weather!Store(h)
    PROVE  WeatherInv' /\ cached'.version >= cached.version
<1> USE DEF Loading, Projecting
<1> DEFINE c == ask[h]
           r == c.read
           same == r.content = cached.entries
<1>t. /\ c \in Asks /\ AskOK(h, c, cached, db, refresh) /\ ask \in [Admins -> Asks]
      /\ cached \in Kept /\ db \in Rows /\ cached.version <= db.version /\ clock \in 0..MaxClock
      /\ refresh # Nil => refresh \in Admins /\ ask[refresh].at \in {"load", "store"}
      /\ compute # Nil => compute \in Admins /\ Computes(ask[compute])
      /\ forecasts \in [ForecastPresets -> Made]
  BY DEF WeatherInv
<1>1. /\ c.at = "store" /\ refresh = h /\ r \in Rows
      /\ cached.version <= r.version /\ r.version <= db.version
  BY <1>t DEF Weather!Store, AskOK
<1>2. /\ cached.generation \in Nat /\ cached.entries \in Schedules /\ r.content \in Schedules
      /\ r.version \in 0..MaxVersion /\ cached.version \in 0..MaxVersion
  BY <1>t, <1>1 DEF Kept, Rows
<1>3. PICK g \in Nat : g = IF same THEN cached.generation ELSE cached.generation + 1
  BY <1>2
<1>4. cached' = [entries |-> r.content, version |-> r.version, at |-> clock, generation |-> g]
  BY <1>3 DEF Weather!Store
<1>5. /\ cached' \in Kept /\ cached'.entries = r.content /\ cached'.version = r.version
      /\ cached'.generation = g
  BY <1>t, <1>2, <1>4 DEF Kept
<1>6. /\ same => g = cached.generation /\ r.content = cached.entries
      /\ ~same => g = cached.generation + 1
      /\ cached.generation <= g
  BY <1>2, <1>3
<1> DEFINE q == [c EXCEPT !.at = "generation", !.read = Nil]
<1>7. /\ q \in Asks /\ q.at = "generation" /\ q.generation = c.generation /\ q.preset = c.preset
      /\ q.back = c.back
  BY <1>t DEF Asks
<1>8. /\ ask' = [ask EXCEPT ![h] = q] /\ refresh' = Nil
      /\ UNCHANGED <<clock, db, forecasts, compute>>
  BY <1>1 DEF Weather!Store, Weather!Become
<1> HIDE DEF q, same
<1>9. ask' \in [Admins -> Asks] /\ \A b \in Admins : ask'[b] = IF b = h THEN q ELSE ask[b]
  BY <1>t, <1>7, <1>8
<1>10. ASSUME NEW b \in Admins PROVE AskOK(b, ask'[b], cached', db, refresh')
  <2>0. ask[b] \in Asks /\ AskOK(b, ask[b], cached, db, refresh)
    BY DEF WeatherInv
  <2>1. ask[b].generation # Nil =>
           /\ ask[b].generation \in Nat /\ ask[b].generation <= cached.generation
    BY <2>0 DEF AskOK, Asks
  <2>2. ask[b].generation # Nil => ask[b].generation <= g
    BY <1>2, <1>6, <2>1
  <2>3. CASE b = h
    <3>1. ask'[b] = q
      BY <1>9, <2>3
    <3>2. q.generation # Nil => q.generation <= cached'.generation
      BY <1>5, <1>7, <2>2, <2>3
    <3>3. AskOK(h, q, cached', db, Nil)
      BY <1>t, <1>1, <1>7, <3>2 DEF AskOK
    <3>4. QED
      BY <1>8, <2>3, <3>1, <3>3
  <2>4. CASE b # h
    <3>1. ask'[b] = ask[b] /\ ask[b].at \notin {"load", "store"}
      BY <1>1, <1>9, <2>0, <2>4 DEF AskOK
    <3>2. ask[b].at = "publish" /\ ask[b].generation = g => ask[b].read = r.content
      <4>1. SUFFICES ASSUME ask[b].at = "publish", ask[b].generation = g
                     PROVE  ask[b].read = r.content
        OBVIOUS
      <4>2. ask[b].generation # Nil
        BY <2>0, <4>1 DEF AskOK
      <4>3. same
        BY <1>2, <1>6, <2>1, <4>1, <4>2
      <4>4. QED
        BY <1>6, <2>0, <4>1, <4>3 DEF AskOK
    <3>3. AskOK(b, ask[b], cached', db, Nil)
      BY <1>5, <2>0, <2>2, <3>1, <3>2 DEF AskOK
    <3>4. QED
      BY <1>8, <3>1, <3>3
  <2>5. QED
    BY <2>3, <2>4
<1>11. ASSUME NEW p \in ForecastPresets PROVE MadeOK(forecasts[p], cached')
  <2> DEFINE f == forecasts[p]
  <2>1. f \in Made /\ MadeOK(f, cached)
    BY DEF WeatherInv
  <2>2. f.generation # Nil => f.generation \in Nat /\ f.generation <= cached.generation /\ f.first # Nil
    BY <2>1 DEF MadeOK, Made
  <2>3. f.generation # Nil => f.generation <= g
    BY <1>2, <1>6, <2>2
  <2>4. f.generation = g => f.first = r.content /\ f.later = {r.content}
    <3>1. SUFFICES ASSUME f.generation = g PROVE f.first = r.content /\ f.later = {r.content}
      OBVIOUS
    <3>2. f.generation # Nil
      BY <3>1, WeatherConstants
    <3>3. same
      BY <1>2, <1>6, <2>2, <3>1, <3>2
    <3>4. QED
      BY <1>6, <2>1, <3>1, <3>3 DEF MadeOK
  <2> HIDE DEF f
  <2>5. MadeOK(f, cached')
    BY <1>5, <2>2, <2>3, <2>4 DEF MadeOK
  <2>6. QED
    BY <2>5 DEF f
<1>12. compute # Nil => compute \in Admins /\ Computes(ask'[compute])
  <2>1. CASE compute = h
    BY <1>t, <1>1, <1>7, <1>9, <2>1 DEF Computes
  <2>2. CASE compute # h
    BY <1>t, <1>9, <2>2
  <2>3. QED
    BY <2>1, <2>2
<1>13. r.version >= cached.version
  BY <1>1, <1>2
<1>14. QED
  BY <1>t, <1>1, <1>5, <1>8, <1>9, <1>10, <1>11, <1>12, <1>13 DEF WeatherInv

\* A forecast is published with the generation the request had read; if that is
\* still the present one, so is the schedule it was made from, and so are the points
\* carried over.
LEMMA PublishStep ==
    ASSUME WeatherInv, NEW h \in Admins, Weather!Publish(h)
    PROVE  WeatherInv'
<1> USE DEF Loading, Projecting
<1> DEFINE c == ask[h]
           f == forecasts[c.preset]
<1>t. /\ c \in Asks /\ AskOK(h, c, cached, db, refresh) /\ ask \in [Admins -> Asks]
      /\ cached \in Kept
      /\ refresh # Nil => refresh \in Admins /\ ask[refresh].at \in {"load", "store"}
      /\ forecasts \in [ForecastPresets -> Made]
  BY DEF WeatherInv
<1>1. /\ c.at = "publish" /\ c.read \in Schedules /\ c.generation # Nil /\ c.generation \in Nat
      /\ c.preset \in ForecastPresets /\ c.slot \in Int \cup {Nil} /\ c.generation <= cached.generation
      /\ c.generation = cached.generation => c.read = cached.entries
  BY <1>t DEF Weather!Publish, AskOK, Asks
<1>2. f \in Made /\ MadeOK(f, cached)
  BY <1>1 DEF WeatherInv
<1>3. PICK later \in SUBSET Schedules :
        /\ later = {c.read} \/ (f.generation = c.generation /\ later = f.later \cup {c.read})
        /\ forecasts' = [forecasts EXCEPT ![c.preset] =
             [first |-> c.read, slot |-> c.slot, generation |-> c.generation, later |-> later]]
  <2> DEFINE carry == f.generation = c.generation /\ c.slot % StepLength # 0
             later == IF carry THEN f.later \cup {c.read} ELSE {c.read}
  <2>1. forecasts' = [forecasts EXCEPT ![c.preset] =
             [first |-> c.read, slot |-> c.slot, generation |-> c.generation, later |-> later]]
    BY DEF Weather!Publish
  <2>2. later \in SUBSET Schedules
    BY <1>1, <1>2 DEF Made
  <2>3. later = {c.read} \/ (f.generation = c.generation /\ later = f.later \cup {c.read})
    OBVIOUS
  <2> HIDE DEF later
  <2>4. QED
    BY <2>1, <2>2, <2>3
<1> DEFINE new == [first |-> c.read, slot |-> c.slot, generation |-> c.generation, later |-> later]
<1>4. /\ new \in Made /\ new.first = c.read /\ new.generation = c.generation /\ new.later = later
  BY <1>1, <1>3 DEF Made
<1>5. c.generation = cached.generation => later = {cached.entries}
  BY <1>1, <1>2, <1>3 DEF MadeOK
<1>6. forecasts' = [forecasts EXCEPT ![c.preset] = new]
  BY <1>3
<1> HIDE DEF new
<1>7. MadeOK(new, cached)
  BY <1>1, <1>4, <1>5, WeatherConstants DEF MadeOK
<1>8. forecasts' \in [ForecastPresets -> Made] /\ \A p \in ForecastPresets : MadeOK(forecasts'[p], cached)
  BY <1>t, <1>4, <1>6, <1>7 DEF WeatherInv
<1> DEFINE q == [c EXCEPT !.at = "done", !.read = Nil]
<1>9. q \in Asks /\ q.at = "done" /\ q.generation = c.generation
  BY <1>t DEF Asks
<1>10. ask' = [ask EXCEPT ![h] = q] /\ compute' = Nil /\ UNCHANGED <<clock, db, cached, refresh>>
  BY DEF Weather!Publish, Weather!Become
<1> HIDE DEF q
<1>11. AskOK(h, q, cached, db, refresh)
  BY <1>1, <1>9 DEF AskOK
<1>12. ask' \in [Admins -> Asks] /\ \A b \in Admins : ask'[b] = IF b = h THEN q ELSE ask[b]
  BY <1>t, <1>9, <1>10
<1>13. \A b \in Admins : AskOK(b, ask'[b], cached, db, refresh)
  BY <1>11, <1>12 DEF WeatherInv
<1>14. refresh # Nil => refresh \in Admins /\ ask'[refresh].at \in {"load", "store"}
  BY <1>t, <1>1, <1>12
<1>15. QED
  BY <1>8, <1>10, <1>12, <1>13, <1>14 DEF WeatherInv

\* The clock ticks, or an administrator replaces the schedule.
LEMMA WeatherEnvironment ==
    ASSUME WeatherInv, Weather!Tick \/ \E s \in Schedules : Weather!ReplaceSchedule(s)
    PROVE  WeatherInv' /\ UNCHANGED cached
<1>1. CASE Weather!Tick
  <2>1. clock' \in 0..MaxClock
    BY <1>1, WeatherConstants DEF Weather!Tick, WeatherInv
  <2>2. QED
    BY <1>1, <2>1 DEF Weather!Tick, WeatherInv
<1>2. ASSUME NEW s \in Schedules, Weather!ReplaceSchedule(s) PROVE WeatherInv' /\ UNCHANGED cached
  <2>1. db.version \in 0..MaxVersion /\ db.version < MaxVersion
    BY <1>2 DEF Weather!ReplaceSchedule, WeatherInv, Rows
  <2>2. PICK v \in 0..MaxVersion : v = db.version + 1
    BY <2>1, WeatherConstants
  <2>3. db' = [content |-> s, version |-> v]
        /\ UNCHANGED <<clock, cached, refresh, forecasts, compute, ask>>
    BY <1>2, <2>2 DEF Weather!ReplaceSchedule
  <2>4. db' \in Rows /\ db'.version = v
    BY <2>3 DEF Rows
  <2>5. cached.version <= v
    <3>1. cached.version \in 0..MaxVersion /\ cached.version <= db.version
      BY DEF WeatherInv, Kept
    <3>2. QED
      BY <2>1, <2>2, <3>1, WeatherConstants
  <2>6. ASSUME NEW h \in Admins PROVE AskOK(h, ask[h], cached, db', refresh)
    <3>1. AskOK(h, ask[h], cached, db, refresh)
      BY DEF WeatherInv
    <3>2. ask[h].at = "store" => ask[h].read.version \in 0..MaxVersion /\ ask[h].read.version <= v
      BY <2>1, <2>2, <3>1, WeatherConstants DEF AskOK, Rows
    <3>3. QED
      BY <2>4, <3>1, <3>2 DEF AskOK
  <2>7. QED
    BY <2>3, <2>4, <2>5, <2>6 DEF WeatherInv
<1>3. QED
  BY <1>1, <1>2

\* Every step keeps the invariant, and the cached schedule moves forward.
LEMMA WeatherNext ==
    ASSUME WeatherInv, Weather!Next
    PROVE  WeatherInv' /\ cached'.version >= cached.version
<1>1. cached.version \in Nat /\ cached.version >= cached.version
  BY DEF WeatherInv, Kept
<1>2. CASE Weather!Tick \/ \E s \in Schedules : Weather!ReplaceSchedule(s)
  BY <1>1, <1>2, WeatherEnvironment
<1>3. ASSUME NEW h \in Admins, Weather!Store(h) PROVE WeatherInv' /\ cached'.version >= cached.version
  BY <1>3, WeatherStoreStep
<1>4. ASSUME NEW h \in Admins, Weather!Publish(h) PROVE WeatherInv' /\ cached'.version >= cached.version
  BY <1>1, <1>4, PublishStep DEF Weather!Publish
<1>5. ASSUME NEW h \in Admins,
             \/ Weather!GetWeather(h)
             \/ \E p \in ForecastPresets : Weather!GetForecast(h, p) \/ Weather!RefreshLoop(h, p)
             \/ Weather!Ensure(h) \/ Weather!Guard(h) \/ Weather!Load(h) \/ Weather!Generation(h)
             \/ Weather!Peek(h) \/ Weather!Compute(h) \/ Weather!Again(h) \/ Weather!Project(h)
             \/ Weather!Done(h) \/ Weather!Fail(h)
      PROVE  WeatherInv' /\ cached'.version >= cached.version
  <2>1. UNCHANGED cached
    BY <1>5 DEF Weather!GetWeather, Weather!GetForecast, Weather!RefreshLoop, Weather!Ensure,
         Weather!Guard, Weather!Load, Weather!Generation, Weather!Peek, Weather!Compute,
         Weather!Again, Weather!Project, Weather!Done, Weather!Fail
  <2>2. WeatherInv'
    BY <1>5, AskingSteps
  <2>3. QED
    BY <1>1, <2>1, <2>2
<1>6. QED
  BY <1>2, <1>3, <1>4, <1>5 DEF Weather!Next

\* Nothing is cached at first.
LEMMA WeatherInit == Weather!Init => WeatherInv
<1>1. SUFFICES ASSUME Weather!Init PROVE WeatherInv
  OBVIOUS
<1>z. PICK zero \in 0..MaxVersion : zero = 0
  BY WeatherConstants
<1>2. db \in Rows /\ db.version = 0
  BY <1>1, <1>z DEF Weather!Init, Rows
<1>3. cached \in Kept /\ cached.version = 0 /\ cached.generation = 0 /\ cached.entries = Empty
  <2>1. cached = [entries |-> Empty, version |-> zero, at |-> Nil, generation |-> 0]
    BY <1>1, <1>z DEF Weather!Init
  <2>2. QED
    BY <1>z, <2>1, WeatherConstants DEF Kept
<1>4. Weather!Idle \in Asks /\ \A h, k, d, r : AskOK(h, Weather!Idle, k, d, r)
  BY DEF Weather!Idle, Asks, AskOK, Loading, Projecting
<1>5. Weather!NoForecast \in Made /\ MadeOK(Weather!NoForecast, cached)
  BY <1>3, WeatherConstants DEF Weather!NoForecast, Made, MadeOK
<1>6. /\ clock \in 0..MaxClock /\ refresh = Nil /\ compute = Nil
      /\ ask = [h \in Admins |-> Weather!Idle]
      /\ forecasts = [p \in ForecastPresets |-> Weather!NoForecast]
  BY <1>1, WeatherConstants DEF Weather!Init
<1>7. QED
  BY <1>2, <1>3, <1>4, <1>5, <1>6 DEF WeatherInv

\* The invariant holds as long as the weather service runs.
LEMMA WeatherInvariance == Spec => [](runs = "weather" => WeatherInv)
<1>1. Init => (runs = "weather" => WeatherInv)
  BY WeatherInit DEF Init
<1>2. (runs = "weather" => WeatherInv) /\ [Next]_vars => (runs = "weather" => WeatherInv)'
  <2>1. WeatherInv /\ UNCHANGED weatherVars => WeatherInv'
    BY DEF WeatherInv, weatherVars
  <2>2. QED
    BY <2>1, WeatherNext DEF Next, vars
<1>3. QED
  BY <1>1, <1>2, PTL DEF Spec

\* is_forecast_cache_fresh may trust the generation: a forecast labelled with that of
\* the cached schedule was made from it alone, for any number of requests.
THEOREM ForecastSound == Spec => []ForecastMatchesSchedule
<1>1. (runs = "weather" => WeatherInv) => ForecastMatchesSchedule
  <2>1. SUFFICES ASSUME WeatherInv
                 PROVE  Weather!TypeOK /\ Weather!ForecastMatchesSchedule
    BY DEF ForecastMatchesSchedule
  <2>2. Weather!TypeOK
    <3>1. cached.entries \in Schedules /\ cached.version \in 0..MaxVersion /\ cached.generation \in Nat
      BY <2>1 DEF WeatherInv, Kept
    <3>2. compute # Nil => ask[compute].at \notin {"idle", "peek", "loop", "compute", "done"}
      BY <2>1 DEF WeatherInv, Computes, Loading, Projecting
    <3>3. \A p \in ForecastPresets : forecasts[p].later \subseteq Schedules
      BY <2>1 DEF WeatherInv, Made
    <3>4. QED
      BY <2>1, <3>1, <3>2, <3>3 DEF WeatherInv, Weather!TypeOK, Rows
  <2>3. Weather!ForecastMatchesSchedule
    BY <2>1 DEF WeatherInv, MadeOK, Weather!ForecastMatchesSchedule
  <2>4. QED
    BY <2>2, <2>3
<1>2. QED
  BY <1>1, WeatherInvariance, PTL

\* refresh_guard: the cached schedule never goes back to an older state of the table.
THEOREM ScheduleForward == Spec => ScheduleMovesForward
<1>1. (runs = "weather" => WeatherInv) /\ [Next]_vars
      => [cached'.version >= cached.version]_Weather!vars
  BY WeatherNext DEF Next, vars, weatherVars, Weather!vars
<1>2. QED
  BY <1>1, WeatherInvariance, PTL DEF Spec, ScheduleMovesForward, Weather!ScheduleMovesForward


-----------------------------------------------------------------------------
(* The hashes and the downloads. *)

Versions == Assets!Versions
Files == Assets!Files
Hashed == Assets!Hashed
Hashing == {"stat", "sum", "check"}
Reqs == [at: {"idle", "meta", "lock", "hashed", "animation", "open", "stream", "answered"}
               \cup Hashing,
         kind: {Nil, "bundle", "asset"}, file: Hashed \cup {Nil},
         ifMatch: Versions \cup {Nil}, offset: Nat, limit: Nat, total: Nat,
         stamp: Versions \cup {Nil}, hash: Versions \cup {Nil}, seen: SUBSET Versions,
         known: SUBSET Assets!Described, open: Versions \cup {Nil}, pos: Nat, eof: BOOLEAN]
Notes == {Assets!Sidecar(x, v) : x \in Versions, v \in Versions}

\* The size a request has read is that of a version it has seen.
SizeSeen(r) == \E w \in r.seen : r.total = Size[w]

\* A finished download is whole, if the file stayed.
WholeOf(r) == /\ r.eof
              /\ \A v \in Versions : r.seen = {v} /\ r.offset < Size[v] => r.pos = Size[v]

\* What a request knows of the directory (d) and of the newest versions (n): the
\* present version of its file is one it has seen, what it hashes is not older than
\* the stamp it read first, and the offset it has reached lies inside the size it read.
ReqOK(r, d, n) ==
    /\ r.file \in Hashed /\ d[r.file] # Nil => d[r.file] \in r.seen
    /\ r.at \in {"meta", "lock", "hashed", "open", "stream"} \cup Hashing => r.file \in Hashed
    /\ r.at = "meta" => r.kind \in {"bundle", "asset"}
    /\ r.at = "sum" => r.stamp \in Versions /\ r.stamp <= n[r.file]
    /\ r.at = "check" => /\ r.stamp \in Versions /\ r.hash \in r.seen
                         /\ r.stamp <= r.hash /\ r.hash <= n[r.file]
    /\ r.at = "hashed" => r.hash \in r.seen
    /\ r.at \in {"lock", "hashed", "open", "stream"} \cup Hashing => SizeSeen(r)
    /\ r.at \in {"open", "stream"} => r.kind = "asset"
    /\ r.at \in {"open", "stream", "answered"} /\ r.kind = "asset" =>
         SizeSeen(r) /\ (r.ifMatch = Nil \/ r.ifMatch \in r.seen)
    /\ r.at = "stream" => r.open \in r.seen /\ r.offset <= r.pos /\ r.pos < r.total
    /\ r.at = "answered" /\ r.kind = "asset" => WholeOf(r)

\* The lock of a file is held by a request that hashes it.
LockOK(f, l, rs) == l # Nil => l \in Admins /\ rs[l].file = f /\ rs[l].at \in Hashing

\* The directory holds the newest version of a file or none, and a hash in memory is
\* that of the version it is stamped with.
AssetInv ==
    /\ dir \in [Files -> Versions \cup {Nil}] /\ newest \in [Files -> Versions]
    /\ \A f \in Files : dir[f] \in {Nil, newest[f]}
    /\ mem \in [Hashed -> Assets!Entries \cup {Nil}]
    /\ \A f \in Hashed : mem[f] # Nil => mem[f].hash = mem[f].stamp
    /\ sidecar \in [Hashed -> Notes \cup {Nil}]
    /\ bundle # Nil => bundle \in SUBSET Assets!Described
    /\ locks \in [Hashed -> Admins \cup {Nil}]
    /\ fetch \in [Admins -> Reqs]
    /\ \A h \in Admins : ReqOK(fetch[h], dir, newest)
    /\ \A f \in Hashed : LockOK(f, locks[f], fetch)

\* What the constants are.
LEMMA AssetConstants ==
    /\ MaxVersion \in Nat \ {0} /\ Versions = 1 .. MaxVersion
    /\ Size \in [Versions -> Nat \ {0}]
    /\ Limits \subseteq Nat \ {0} /\ Offsets \subseteq Nat
    /\ Asked \subseteq Hashed /\ Replaced \subseteq Files /\ Hashed \subseteq Files
    /\ Nil \notin Versions /\ Nil \notin Files /\ Nil \notin Admins /\ Nil \notin Hashed
    /\ Blank \notin Nat
BY Assumptions DEF Assets!AssetAssumption, Versions, Files, Hashed, Assets!Versions,
                   Assets!Files, Assets!Hashed, Assets!Required

\* What a sidecar written by write_sidecar says: its first line after the hash is
\* empty, so that try_read_sidecar never accepts it.
LEMMA NoteIs ==
    ASSUME NEW s \in Notes
    PROVE  /\ s.hash \in Versions /\ s.lines[1] = Blank /\ s.lines[3] \in Versions
           /\ \A v \in Versions : s.lines[1] # Size[v]
<1>1. PICK x \in Versions, v \in Versions : s = [hash |-> x, lines |-> <<Blank, Size[v], v>>]
  BY DEF Notes, Assets!Sidecar
<1>2. s.hash = x /\ s.lines = <<Blank, Size[v], v>>
  BY <1>1
<1>3. s.lines[1] = Blank /\ s.lines[3] = v
  BY <1>2
<1>4. \A w \in Versions : Size[w] \in Nat
  BY AssetConstants
<1>5. QED
  BY <1>2, <1>3, <1>4, AssetConstants

\* A request moves while the directory stays.
LEMMA ReqMoves ==
    ASSUME AssetInv, NEW h \in Admins, NEW q \in Reqs, fetch' = [fetch EXCEPT ![h] = q],
           ReqOK(q, dir, newest), UNCHANGED <<dir, newest>>,
           mem' \in [Hashed -> Assets!Entries \cup {Nil}],
           \A f \in Hashed : mem'[f] # Nil => mem'[f].hash = mem'[f].stamp,
           sidecar' \in [Hashed -> Notes \cup {Nil}],
           bundle' # Nil => bundle' \in SUBSET Assets!Described,
           locks' \in [Hashed -> Admins \cup {Nil}],
           \A f \in Hashed : /\ locks'[f] = h => q.file = f /\ q.at \in Hashing
                             /\ locks'[f] \in {h, Nil, locks[f]}
    PROVE  AssetInv'
<1>1. fetch' \in [Admins -> Reqs] /\ \A g \in Admins : fetch'[g] = IF g = h THEN q ELSE fetch[g]
  BY DEF AssetInv
<1>2. \A g \in Admins : ReqOK(fetch'[g], dir, newest)
  BY <1>1 DEF AssetInv
<1>3. ASSUME NEW f \in Hashed PROVE LockOK(f, locks'[f], fetch')
  BY <1>1 DEF AssetInv, LockOK
<1>4. QED
  BY <1>1, <1>2, <1>3 DEF AssetInv

\* A request moves and leaves everything else but its own lock alone.
LEMMA ReqMovesAlone ==
    ASSUME AssetInv, NEW h \in Admins, NEW q \in Reqs, fetch' = [fetch EXCEPT ![h] = q],
           ReqOK(q, dir, newest), UNCHANGED <<dir, newest, mem, sidecar, locks>>,
           bundle' # Nil => bundle' \in SUBSET Assets!Described,
           fetch[h].at \in Hashing => q.at \in Hashing /\ q.file = fetch[h].file
    PROVE  AssetInv'
<1>1. ASSUME NEW f \in Hashed, locks[f] = h PROVE q.file = f /\ q.at \in Hashing
  BY <1>1, AssetConstants DEF AssetInv, LockOK
<1>2. /\ mem' \in [Hashed -> Assets!Entries \cup {Nil}]
      /\ \A f \in Hashed : mem'[f] # Nil => mem'[f].hash = mem'[f].stamp
      /\ sidecar' \in [Hashed -> Notes \cup {Nil}]
      /\ locks' \in [Hashed -> Admins \cup {Nil}]
      /\ \A f \in Hashed : /\ locks'[f] = h => q.file = f /\ q.at \in Hashing
                           /\ locks'[f] \in {h, Nil, locks[f]}
  BY <1>1 DEF AssetInv
<1>3. QED
  BY <1>2, ReqMoves

\* The record of a request at rest.
LEMMA RestIs ==
    /\ Assets!Idle \in Reqs /\ Assets!Idle.at = "idle" /\ Assets!Idle.file = Nil
    /\ \A d, n : ReqOK(Assets!Idle, d, n)
BY AssetConstants DEF Assets!Idle, Reqs, ReqOK, Hashing, SizeSeen

\* A request that turns to a file has seen the version the file has.
LEMMA WorkIs ==
    ASSUME NEW h \in Admins, AssetInv, NEW f \in Hashed \cup {Nil},
           NEW at \in {"meta", "animation"}
    PROVE  /\ Assets!Work(h, f, at) \in Reqs
           /\ Assets!Work(h, f, at).at = at /\ Assets!Work(h, f, at).file = f
           /\ Assets!Work(h, f, at).kind = fetch[h].kind
           /\ f \in Hashed /\ dir[f] # Nil => dir[f] \in Assets!Work(h, f, at).seen
<1>1. PICK s \in SUBSET Versions : s = IF f = Nil THEN {} ELSE Assets!Present(dir[f])
  <2>1. CASE f = Nil
    BY <2>1
  <2>2. CASE f \in Hashed
    <3>1. dir[f] \in Versions \cup {Nil} /\ f # Nil
      BY <2>2, AssetConstants DEF AssetInv
    <3>2. Assets!Present(dir[f]) \in SUBSET Versions
      BY <3>1 DEF Assets!Present
    <3>3. QED
      BY <3>1, <3>2
  <2>3. QED
    BY <2>1, <2>2
<1>2. fetch[h] \in Reqs
  BY DEF AssetInv
<1> DEFINE q == [fetch[h] EXCEPT !.file = f, !.at = at, !.stamp = Nil, !.hash = Nil, !.total = 0, !.seen = s]
<1>3. q \in Reqs /\ q.at = at /\ q.file = f /\ q.kind = fetch[h].kind /\ q.seen = s
  BY <1>2 DEF Reqs
<1>4. Assets!Work(h, f, at) = q
  BY <1>1 DEF Assets!Work
<1> HIDE DEF q
<1>5. QED
  BY <1>1, <1>3, <1>4, AssetConstants DEF Assets!Present

\* The operator replaces a file: every request that works on it has seen the version.
LEMMA ReplaceStep ==
    ASSUME AssetInv, NEW f \in Replaced, Assets!Replace(f)
    PROVE  AssetInv'
<1>t. /\ f \in Files /\ newest[f] \in Versions /\ newest[f] < MaxVersion
      /\ dir \in [Files -> Versions \cup {Nil}] /\ newest \in [Files -> Versions]
      /\ fetch \in [Admins -> Reqs]
  BY AssetConstants DEF AssetInv, Assets!Replace
<1>1. PICK v \in Versions : v = newest[f] + 1
  BY <1>t, AssetConstants
<1>2. /\ newest' = [newest EXCEPT ![f] = v] /\ dir' = [dir EXCEPT ![f] = v]
      /\ UNCHANGED <<mem, sidecar, locks, bundle>>
      /\ fetch' = [h \in Admins |->
                  IF fetch[h].file = f THEN [fetch[h] EXCEPT !.seen = @ \cup {v}] ELSE fetch[h]]
  BY <1>1, AssetConstants DEF Assets!Replace, Assets!Watch, Assets!Present
<1>3. /\ dir' \in [Files -> Versions \cup {Nil}] /\ newest' \in [Files -> Versions]
      /\ \A g \in Files : dir'[g] \in {Nil, newest'[g]}
      /\ \A g \in Files : newest[g] <= newest'[g] /\ (g # f => dir'[g] = dir[g])
      /\ dir'[f] = v
  BY <1>1, <1>2, <1>t, AssetConstants DEF AssetInv
<1>4. ASSUME NEW h \in Admins
      PROVE  /\ fetch'[h] \in Reqs /\ ReqOK(fetch'[h], dir', newest')
             /\ fetch'[h].file = fetch[h].file /\ fetch'[h].at = fetch[h].at
  <2> DEFINE r == fetch[h]
  <2>1. r \in Reqs /\ ReqOK(r, dir, newest)
    BY DEF AssetInv
  <2>2. CASE r.file = f
    <3> DEFINE q == [r EXCEPT !.seen = r.seen \cup {v}]
    <3>1. /\ q \in Reqs /\ q.file = r.file /\ q.at = r.at /\ q.kind = r.kind
          /\ q.ifMatch = r.ifMatch /\ q.offset = r.offset /\ q.limit = r.limit
          /\ q.total = r.total /\ q.stamp = r.stamp /\ q.hash = r.hash
          /\ q.open = r.open /\ q.pos = r.pos /\ q.eof = r.eof /\ q.seen = r.seen \cup {v}
      BY <2>1 DEF Reqs
    <3>2. fetch'[h] = q
      BY <1>2, <2>2
    <3>3. r.stamp \in Versions \cup {Nil} /\ r.hash \in Versions \cup {Nil}
      BY <2>1 DEF Reqs
    <3> HIDE DEF q, r
    <3>4. SizeSeen(r) => SizeSeen(q)
      BY <3>1 DEF SizeSeen
    <3>5. SizeSeen(r) /\ WholeOf(r) => WholeOf(q)
      BY <3>1 DEF SizeSeen, WholeOf
    <3>6. r.file \in Hashed => newest[r.file] <= newest'[r.file] /\ newest[r.file] \in Versions
                               /\ newest'[r.file] \in Versions
      BY <1>3, <1>t, AssetConstants
    <3>7. ReqOK(q, dir', newest')
      <4>1. q.file \in Hashed /\ dir'[q.file] # Nil => dir'[q.file] \in q.seen
        BY <1>3, <2>2, <3>1
      <4>2. q.at = "sum" => q.stamp \in Versions /\ q.stamp <= newest'[q.file]
        BY <2>1, <3>1, <3>3, <3>6, AssetConstants DEF ReqOK, Hashing
      <4>3. q.at = "check" => /\ q.stamp \in Versions /\ q.hash \in q.seen
                              /\ q.stamp <= q.hash /\ q.hash <= newest'[q.file]
        <5>1. SUFFICES ASSUME q.at = "check"
                       PROVE  /\ q.stamp \in Versions /\ q.hash \in q.seen
                              /\ q.stamp <= q.hash /\ q.hash <= newest'[q.file]
          OBVIOUS
        <5>2. /\ r.file \in Hashed /\ r.stamp \in Versions /\ r.hash \in r.seen
              /\ r.stamp <= r.hash /\ r.hash <= newest[r.file]
          BY <2>1, <3>1, <5>1 DEF ReqOK, Hashing
        <5>3. r.hash \in Versions
          BY <2>1, <5>2 DEF Reqs
        <5>4. r.hash <= newest'[r.file]
          BY <3>6, <5>2, <5>3, AssetConstants
        <5>5. QED
          BY <3>1, <5>2, <5>4
      <4>4. QED
        BY <2>1, <3>1, <3>4, <3>5, <4>1, <4>2, <4>3 DEF ReqOK
    <3>8. QED
      BY <3>1, <3>2, <3>7 DEF r
  <2>3. CASE r.file # f
    <3>1. fetch'[h] = r
      BY <1>2, <2>3
    <3>2. r.file \in Hashed => dir'[r.file] = dir[r.file] /\ newest'[r.file] = newest[r.file]
      BY <1>2, <1>3, <1>t, <2>3, AssetConstants
    <3> HIDE DEF r
    <3>3. ReqOK(r, dir', newest')
      BY <2>1, <3>2 DEF ReqOK, Hashing
    <3>4. QED
      BY <2>1, <3>1, <3>3 DEF r
  <2>4. QED
    BY <2>2, <2>3
<1>5. fetch' \in [Admins -> Reqs]
  BY <1>2, <1>4
<1>6. ASSUME NEW g \in Hashed PROVE LockOK(g, locks'[g], fetch')
  BY <1>2, <1>4 DEF AssetInv, LockOK
<1>7. QED
  BY <1>2, <1>3, <1>4, <1>5, <1>6 DEF AssetInv

\* The operator removes a file.
LEMMA RemoveStep ==
    ASSUME AssetInv, NEW f \in Replaced, Assets!Remove(f)
    PROVE  AssetInv'
<1>1. dir' = [dir EXCEPT ![f] = Nil] /\ UNCHANGED <<newest, mem, sidecar, locks, bundle, fetch>>
  BY DEF Assets!Remove
<1>2. /\ dir' \in [Files -> Versions \cup {Nil}]
      /\ \A g \in Files : dir'[g] \in {Nil, dir[g]}
  BY <1>1 DEF AssetInv
<1>3. ASSUME NEW h \in Admins PROVE ReqOK(fetch[h], dir', newest)
  <2>1. ReqOK(fetch[h], dir, newest)
    BY DEF AssetInv
  <2>2. fetch[h].file \in Hashed => dir'[fetch[h].file] \in {Nil, dir[fetch[h].file]}
    BY <1>2, AssetConstants
  <2>3. QED
    BY <2>1, <2>2 DEF ReqOK
<1>4. QED
  BY <1>1, <1>2, <1>3 DEF AssetInv

\* A restart forgets everything but the sidecars.
LEMMA RestartStep ==
    ASSUME AssetInv, Assets!Restart
    PROVE  AssetInv'
<1>1. /\ mem' = [f \in Hashed |-> Nil] /\ locks' = [f \in Hashed |-> Nil] /\ bundle' = Nil
      /\ fetch' = [h \in Admins |-> Assets!Idle] /\ UNCHANGED <<dir, newest, sidecar>>
  BY DEF Assets!Restart, Hashed
<1>2. fetch' \in [Admins -> Reqs] /\ \A h \in Admins : ReqOK(fetch'[h], dir, newest)
  BY <1>1, RestIs
<1>3. \A f \in Hashed : LockOK(f, locks'[f], fetch')
  BY <1>1 DEF LockOK
<1>4. /\ mem' \in [Hashed -> Assets!Entries \cup {Nil}]
      /\ \A f \in Hashed : mem'[f] # Nil => mem'[f].hash = mem'[f].stamp
      /\ locks' \in [Hashed -> Admins \cup {Nil}]
  BY <1>1
<1>5. QED
  BY <1>1, <1>2, <1>3, <1>4 DEF AssetInv

\* Requests that begin.
LEMMA BeginSteps ==
    ASSUME AssetInv, NEW h \in Admins,
           \/ Assets!GetBundleMeta(h)
           \/ \E f \in Asked, o \in Offsets, l \in Limits, m \in Versions \cup {Nil} :
                Assets!GetMapAsset(h, f, o, l, m)
           \/ \E f \in Asked, o \in Offsets, l \in Limits : Assets!StreamMapAssetGlb(h, f, o, l)
    PROVE  AssetInv'
<1>t. /\ bundle # Nil => bundle \in SUBSET Assets!Described
      /\ fetch \in [Admins -> Reqs]
  BY DEF AssetInv
<1>i. fetch[h] = Assets!Idle
  BY DEF Assets!GetBundleMeta, Assets!GetMapAsset, Assets!StreamMapAssetGlb
<1>a. fetch[h].at \notin Hashing
  BY <1>i, RestIs DEF Hashing
<1>1. CASE Assets!GetBundleMeta(h)
  <2>0. UNCHANGED <<dir, newest, mem, sidecar, locks>>
    BY <1>1 DEF Assets!GetBundleMeta
  <2>1. CASE /\ bundle # Nil /\ UNCHANGED bundle
             /\ Assets!Become(h, [Assets!Idle EXCEPT !.at = "answered", !.kind = "bundle", !.known = bundle])
    <3>0. PICK parts \in SUBSET Assets!Described : parts = bundle
      BY <1>t, <2>1
    <3> DEFINE q == [Assets!Idle EXCEPT !.at = "answered", !.kind = "bundle", !.known = parts]
    <3>1. q \in Reqs /\ q.at = "answered" /\ q.kind = "bundle" /\ q.file = Nil
      BY RestIs DEF Reqs
    <3>2. fetch' = [fetch EXCEPT ![h] = q]
      BY <2>1, <3>0 DEF Assets!Become
    <3> HIDE DEF q
    <3>3. ReqOK(q, dir, newest)
      BY <3>1, AssetConstants DEF ReqOK, Hashing
    <3>4. bundle' # Nil => bundle' \in SUBSET Assets!Described
      BY <1>t, <2>1
    <3>5. QED
      BY <1>a, <2>0, <3>1, <3>2, <3>3, <3>4, ReqMovesAlone
  <2>2. CASE /\ bundle' = Nil
             /\ Assets!Become(h, [Assets!Work(h, "main", "meta") EXCEPT !.kind = "bundle"])
    <3>0. "main" \in Hashed
      BY DEF Hashed, Assets!Hashed
    <3> DEFINE w == Assets!Work(h, "main", "meta")
               q == [w EXCEPT !.kind = "bundle"]
    <3>1. w \in Reqs /\ w.at = "meta" /\ w.file = "main" /\ (dir["main"] # Nil => dir["main"] \in w.seen)
      BY <3>0, WorkIs
    <3>2. fetch' = [fetch EXCEPT ![h] = q]
      BY <2>2 DEF Assets!Become
    <3> HIDE DEF w
    <3>3. q \in Reqs /\ q.at = "meta" /\ q.kind = "bundle" /\ q.file = "main" /\ q.seen = w.seen
      BY <3>1 DEF Reqs
    <3> HIDE DEF q
    <3>4. ReqOK(q, dir, newest)
      BY <3>0, <3>1, <3>3 DEF ReqOK, Hashing
    <3>5. QED
      BY <1>a, <2>0, <2>2, <3>2, <3>3, <3>4, ReqMovesAlone
  <2>3. QED
    BY <1>1, <2>1, <2>2 DEF Assets!GetBundleMeta
<1>2. ASSUME NEW f \in Asked, NEW o \in Offsets, NEW l \in Limits,
             NEW m \in Versions \cup {Nil}, Assets!GetMapAsset(h, f, o, l, m)
      PROVE  AssetInv'
  <2>0. f \in Hashed /\ o \in Nat /\ l \in Nat
    BY AssetConstants
  <2> DEFINE w == Assets!Work(h, f, "meta")
             q == [w EXCEPT !.kind = "asset", !.offset = o, !.limit = l, !.ifMatch = m]
  <2>1. w \in Reqs /\ w.at = "meta" /\ w.file = f /\ (dir[f] # Nil => dir[f] \in w.seen)
    BY <2>0, WorkIs
  <2>2. fetch' = [fetch EXCEPT ![h] = q] /\ UNCHANGED <<dir, newest, mem, sidecar, locks, bundle>>
    BY <1>2 DEF Assets!GetMapAsset, Assets!Become
  <2> HIDE DEF w
  <2>3. q \in Reqs /\ q.at = "meta" /\ q.kind = "asset" /\ q.file = f /\ q.seen = w.seen
    BY <2>0, <2>1 DEF Reqs
  <2> HIDE DEF q
  <2>4. ReqOK(q, dir, newest)
    BY <2>0, <2>1, <2>3 DEF ReqOK, Hashing
  <2>5. bundle' # Nil => bundle' \in SUBSET Assets!Described
    BY <1>t, <2>2
  <2>6. QED
    BY <1>a, <2>2, <2>3, <2>4, <2>5, ReqMovesAlone
<1>3. QED
  BY <1>1, <1>2 DEF Assets!StreamMapAssetGlb

\* Requests that end: the client has its answer, or it fails and gives back its lock.
LEMMA EndSteps ==
    ASSUME AssetInv, NEW h \in Admins, Assets!Done(h) \/ Assets!Fail(h)
    PROVE  AssetInv'
<1>t. /\ mem \in [Hashed -> Assets!Entries \cup {Nil}]
      /\ \A f \in Hashed : mem[f] # Nil => mem[f].hash = mem[f].stamp
      /\ sidecar \in [Hashed -> Notes \cup {Nil}]
      /\ bundle # Nil => bundle \in SUBSET Assets!Described
      /\ locks \in [Hashed -> Admins \cup {Nil}]
      /\ \A f \in Hashed : LockOK(f, locks[f], fetch)
  BY DEF AssetInv
<1>1. CASE Assets!Done(h)
  <2>1. /\ fetch' = [fetch EXCEPT ![h] = Assets!Idle] /\ fetch[h].at \notin Hashing
        /\ UNCHANGED <<dir, newest, mem, sidecar, locks, bundle>>
    BY <1>1 DEF Assets!Done, Assets!Become, Hashing
  <2>2. bundle' # Nil => bundle' \in SUBSET Assets!Described
    BY <1>t, <2>1
  <2>3. QED
    BY <2>1, <2>2, RestIs, ReqMovesAlone
<1>2. CASE Assets!Fail(h)
  <2>1. /\ fetch' = [fetch EXCEPT ![h] = Assets!Idle] /\ UNCHANGED <<dir, newest, mem, sidecar, bundle>>
        /\ locks' = [f \in Hashed |-> IF locks[f] = h THEN Nil ELSE locks[f]]
    BY <1>2 DEF Assets!Fail, Assets!Become, Hashed
  <2>2. /\ locks' \in [Hashed -> Admins \cup {Nil}]
        /\ \A f \in Hashed : locks'[f] # h /\ locks'[f] \in {h, Nil, locks[f]}
    BY <1>t, <2>1, AssetConstants
  <2>3. /\ mem' \in [Hashed -> Assets!Entries \cup {Nil}]
        /\ \A f \in Hashed : mem'[f] # Nil => mem'[f].hash = mem'[f].stamp
        /\ sidecar' \in [Hashed -> Notes \cup {Nil}]
        /\ bundle' # Nil => bundle' \in SUBSET Assets!Described
    BY <1>t, <2>1
  <2>4. QED
    BY <2>1, <2>2, <2>3, RestIs, ReqMoves
<1>3. QED
  BY <1>1, <1>2

\* HashCache::get_or_compute: what it hands out and what it keeps is the hash of the
\* version the file had when the size and the time were read.
LEMMA HashSteps ==
    ASSUME AssetInv, NEW h \in Admins,
           \/ Assets!Metadata(h) \/ Assets!HashLock(h) \/ Assets!HashLookup(h)
           \/ Assets!HashSum(h) \/ Assets!HashCheck(h)
    PROVE  AssetInv'
<1> DEFINE r == fetch[h]
           f == r.file
           v == dir[f]
<1>t. /\ mem \in [Hashed -> Assets!Entries \cup {Nil}]
      /\ \A g \in Hashed : mem[g] # Nil => mem[g].hash = mem[g].stamp
      /\ sidecar \in [Hashed -> Notes \cup {Nil}]
      /\ bundle # Nil => bundle \in SUBSET Assets!Described
      /\ locks \in [Hashed -> Admins \cup {Nil}]
      /\ fetch \in [Admins -> Reqs] /\ r \in Reqs /\ ReqOK(r, dir, newest)
  BY DEF AssetInv
<1>f. f \in Hashed
  <2>1. r.at \in {"meta", "lock", "stat", "sum", "check"}
    BY DEF Assets!Metadata, Assets!HashLock, Assets!HashLookup, Assets!HashSum, Assets!HashCheck
  <2>2. QED
    BY <1>t, <2>1 DEF ReqOK, Hashing
<1>v. /\ v \in Versions \cup {Nil} /\ newest[f] \in Versions
      /\ v # Nil => v \in Versions /\ v = newest[f] /\ v \in r.seen
  BY <1>f, <1>t, AssetConstants DEF AssetInv, ReqOK
<1>b. UNCHANGED <<dir, newest, bundle>> /\ (bundle' # Nil => bundle' \in SUBSET Assets!Described)
  BY <1>t DEF Assets!Metadata, Assets!HashLock, Assets!HashLookup, Assets!HashSum, Assets!HashCheck
<1>l. \A g \in Hashed : locks[g] = h => g = f /\ r.at \in Hashing
  BY AssetConstants DEF AssetInv, LockOK
<1>1. CASE Assets!Metadata(h)
  <2>0. r.at = "meta" /\ v # Nil /\ UNCHANGED <<mem, sidecar, locks>>
    BY <1>1 DEF Assets!Metadata
  <2>1. PICK size \in Nat : size = Size[v]
    BY <1>v, <2>0, AssetConstants
  <2>2. PICK at \in {"lock", "open"} : at = IF r.kind = "bundle" \/ r.ifMatch # Nil THEN "lock" ELSE "open"
    OBVIOUS
  <2> DEFINE q == [r EXCEPT !.total = size, !.at = at]
  <2>3. /\ q \in Reqs /\ q.at = at /\ q.total = size /\ q.file = f /\ q.kind = r.kind
        /\ q.ifMatch = r.ifMatch /\ q.seen = r.seen
    BY <1>t DEF Reqs
  <2>4. fetch' = [fetch EXCEPT ![h] = q]
    BY <1>1, <2>1, <2>2 DEF Assets!Metadata, Assets!Become
  <2>k. r.kind \in {"bundle", "asset"} /\ (at = "open" => r.kind = "asset" /\ r.ifMatch = Nil)
    BY <1>t, <2>0, <2>2 DEF ReqOK
  <2> HIDE DEF q
  <2>5. SizeSeen(q)
    BY <1>v, <2>0, <2>1, <2>3 DEF SizeSeen
  <2>6. ReqOK(q, dir, newest)
    BY <1>f, <1>t, <2>3, <2>5, <2>k DEF ReqOK, Hashing
  <2>7. QED
    BY <1>b, <2>0, <2>3, <2>4, <2>6, ReqMovesAlone DEF Hashing
<1>2. CASE Assets!HashLock(h)
  <2>0. r.at = "lock" /\ UNCHANGED <<mem, sidecar>> /\ locks' = [locks EXCEPT ![f] = h]
    BY <1>2 DEF Assets!HashLock
  <2> DEFINE q == [r EXCEPT !.at = "stat"]
  <2>1. /\ q \in Reqs /\ q.at = "stat" /\ q.total = r.total /\ q.file = f /\ q.seen = r.seen
    BY <1>t DEF Reqs, Hashing
  <2>2. fetch' = [fetch EXCEPT ![h] = q]
    BY <1>2 DEF Assets!HashLock, Assets!Become
  <2> HIDE DEF q
  <2>3. ReqOK(q, dir, newest)
    BY <1>f, <1>t, <2>0, <2>1 DEF ReqOK, Hashing, SizeSeen
  <2>4. /\ locks' \in [Hashed -> Admins \cup {Nil}]
        /\ \A g \in Hashed : /\ locks'[g] = h => q.file = g /\ q.at \in Hashing
                             /\ locks'[g] \in {h, Nil, locks[g]}
    BY <1>f, <1>l, <1>t, <2>0, <2>1 DEF Hashing
  <2>5. /\ mem' \in [Hashed -> Assets!Entries \cup {Nil}]
        /\ \A g \in Hashed : mem'[g] # Nil => mem'[g].hash = mem'[g].stamp
        /\ sidecar' \in [Hashed -> Notes \cup {Nil}]
    BY <1>t, <2>0
  <2>6. QED
    BY <1>b, <2>1, <2>2, <2>3, <2>4, <2>5, ReqMoves
<1>3. CASE Assets!HashLookup(h)
  <2>0. r.at = "stat" /\ v # Nil /\ UNCHANGED sidecar
    BY <1>3 DEF Assets!HashLookup
  <2>1. ~Assets!SidecarAccepts(f, v)
    BY <1>f, <1>t, <1>v, <2>0, NoteIs DEF Assets!SidecarAccepts
  <2>2. CASE mem[f] # Nil /\ mem[f].stamp = v
    <3>1. mem[f].hash = v /\ v # Nil
      BY <1>f, <1>t, <2>0, <2>2
    <3> DEFINE q == [r EXCEPT !.stamp = v, !.hash = v, !.at = "hashed"]
    <3>2. /\ fetch' = [fetch EXCEPT ![h] = q]
          /\ mem' = [mem EXCEPT ![f] = [stamp |-> v, hash |-> v]]
          /\ locks' = [locks EXCEPT ![f] = Nil]
      BY <1>3, <2>2, <3>1 DEF Assets!HashLookup, Assets!Become
    <3>3. /\ q \in Reqs /\ q.at = "hashed" /\ q.total = r.total /\ q.file = f /\ q.seen = r.seen
          /\ q.hash = v
      BY <1>t, <1>v, <2>0 DEF Reqs
    <3> HIDE DEF q
    <3>4. ReqOK(q, dir, newest)
      BY <1>f, <1>t, <1>v, <2>0, <3>3 DEF ReqOK, Hashing, SizeSeen
    <3>5. /\ locks' \in [Hashed -> Admins \cup {Nil}]
          /\ \A g \in Hashed : /\ locks'[g] = h => q.file = g /\ q.at \in Hashing
                               /\ locks'[g] \in {h, Nil, locks[g]}
      BY <1>f, <1>l, <1>t, <3>2, AssetConstants
    <3>6. [stamp |-> v, hash |-> v] \in Assets!Entries
      BY <1>v, <2>0 DEF Assets!Entries, Versions
    <3>7. /\ mem' \in [Hashed -> Assets!Entries \cup {Nil}]
          /\ \A g \in Hashed : mem'[g] # Nil => mem'[g].hash = mem'[g].stamp
      BY <1>f, <1>t, <3>2, <3>6
    <3>8. sidecar' \in [Hashed -> Notes \cup {Nil}]
      BY <1>t, <2>0
    <3> HIDE DEF r, f, v
    <3>9. QED
      BY <1>b, <3>2, <3>3, <3>4, <3>5, <3>7, <3>8, ReqMoves
  <2>3. CASE ~(mem[f] # Nil /\ mem[f].stamp = v)
    <3> DEFINE q == [r EXCEPT !.stamp = v, !.hash = Nil, !.at = "sum"]
    <3>1. fetch' = [fetch EXCEPT ![h] = q] /\ UNCHANGED <<mem, locks>>
      BY <1>3, <2>1, <2>3 DEF Assets!HashLookup, Assets!Become
    <3>2. /\ q \in Reqs /\ q.at = "sum" /\ q.total = r.total /\ q.file = f /\ q.seen = r.seen
          /\ q.stamp = v
      BY <1>t, <1>v, <2>0 DEF Reqs, Hashing
    <3>n. v \in Versions /\ v <= newest[f]
      BY <1>v, <2>0, AssetConstants
    <3> HIDE DEF q
    <3>3. ReqOK(q, dir, newest)
      BY <1>f, <1>t, <2>0, <3>2, <3>n DEF ReqOK, Hashing, SizeSeen
    <3>4. QED
      BY <1>b, <2>0, <3>1, <3>2, <3>3, ReqMovesAlone DEF Hashing
  <2>4. QED
    BY <2>2, <2>3
<1>4. CASE Assets!HashSum(h)
  <2>0. r.at = "sum" /\ v # Nil /\ UNCHANGED <<mem, sidecar, locks>>
    BY <1>4 DEF Assets!HashSum
  <2> DEFINE q == [r EXCEPT !.hash = v, !.at = "check"]
  <2>1. fetch' = [fetch EXCEPT ![h] = q]
    BY <1>4 DEF Assets!HashSum, Assets!Become
  <2>2. /\ q \in Reqs /\ q.at = "check" /\ q.total = r.total /\ q.file = f /\ q.seen = r.seen
        /\ q.stamp = r.stamp /\ q.hash = v
    BY <1>t, <1>v, <2>0 DEF Reqs, Hashing
  <2>3. r.stamp \in Versions /\ r.stamp <= v /\ v <= newest[f] /\ v \in r.seen
    BY <1>t, <1>v, <2>0, AssetConstants DEF ReqOK
  <2> HIDE DEF q
  <2>4. ReqOK(q, dir, newest)
    BY <1>f, <1>t, <2>0, <2>2, <2>3 DEF ReqOK, Hashing, SizeSeen
  <2>5. QED
    BY <1>b, <2>0, <2>1, <2>2, <2>4, ReqMovesAlone DEF Hashing
<1>5. CASE Assets!HashCheck(h)
  <2>0. r.at = "check" /\ v # Nil /\ locks' = [locks EXCEPT ![f] = Nil]
    BY <1>5 DEF Assets!HashCheck
  <2> DEFINE q == [r EXCEPT !.at = "hashed"]
  <2>1. fetch' = [fetch EXCEPT ![h] = q]
    BY <1>5 DEF Assets!HashCheck, Assets!Become
  <2>2. /\ q \in Reqs /\ q.at = "hashed" /\ q.total = r.total /\ q.file = f /\ q.seen = r.seen
        /\ q.hash = r.hash
    BY <1>t DEF Reqs
  <2>3. /\ r.stamp \in Versions /\ r.hash \in r.seen /\ r.hash \in Versions
        /\ r.stamp <= r.hash /\ r.hash <= newest[f]
    BY <1>t, <2>0 DEF ReqOK, Reqs
  <2> HIDE DEF q
  <2>4. ReqOK(q, dir, newest)
    BY <1>f, <1>t, <2>0, <2>2, <2>3 DEF ReqOK, Hashing, SizeSeen
  <2>5. /\ locks' \in [Hashed -> Admins \cup {Nil}]
        /\ \A g \in Hashed : /\ locks'[g] = h => q.file = g /\ q.at \in Hashing
                             /\ locks'[g] \in {h, Nil, locks[g]}
    BY <1>f, <1>l, <1>t, <2>0, AssetConstants
  <2>6. /\ mem' \in [Hashed -> Assets!Entries \cup {Nil}]
        /\ \A g \in Hashed : mem'[g] # Nil => mem'[g].hash = mem'[g].stamp
        /\ sidecar' \in [Hashed -> Notes \cup {Nil}]
    <3>1. CASE v # r.stamp
      BY <1>5, <1>t, <3>1 DEF Assets!HashCheck
    <3>2. CASE v = r.stamp
      <4>1. r.hash = v
        BY <1>v, <2>0, <2>3, <3>2, AssetConstants
      <4>2. [stamp |-> v, hash |-> v] \in Assets!Entries
        BY <1>v, <2>0 DEF Assets!Entries, Versions
      <4>3. Assets!Sidecar(v, v) \in Notes
        BY <1>v, <2>0 DEF Notes
      <4>4. PICK s \in {sidecar[f], Assets!Sidecar(v, v)} :
               /\ sidecar' = [sidecar EXCEPT ![f] = s]
               /\ mem' = [mem EXCEPT ![f] = [stamp |-> v, hash |-> v]]
        BY <1>5, <3>2, <4>1 DEF Assets!HashCheck
      <4>5. s \in Notes \cup {Nil}
        BY <1>f, <1>t, <4>3, <4>4
      <4>6. sidecar' \in [Hashed -> Notes \cup {Nil}]
        BY <1>f, <1>t, <4>4, <4>5
      <4>7. QED
        BY <1>f, <1>t, <4>2, <4>4, <4>6
    <3>3. QED
      BY <3>1, <3>2
  <2> HIDE DEF r, f, v
  <2>7. QED
    BY <1>b, <2>1, <2>2, <2>4, <2>5, <2>6, ReqMoves
<1>6. QED
  BY <1>1, <1>2, <1>3, <1>4, <1>5

\* get_map_asset_bundle_meta goes from one file to the next and keeps the answer.
LEMMA DescribeSteps ==
    ASSUME AssetInv, NEW h \in Admins,
           Assets!DescribeMinimap(h) \/ Assets!ReadMetadata(h) \/ Assets!DescribeAnimation(h)
    PROVE  AssetInv'
<1> DEFINE r == fetch[h]
<1>t. /\ bundle # Nil => bundle \in SUBSET Assets!Described
      /\ fetch \in [Admins -> Reqs] /\ r \in Reqs /\ ReqOK(r, dir, newest)
  BY DEF AssetInv
<1>a. r.kind = "bundle" /\ r.at \in {"hashed", "animation"} /\ UNCHANGED <<dir, newest, mem, sidecar, locks>>
  BY DEF Assets!DescribeMinimap, Assets!ReadMetadata, Assets!DescribeAnimation
<1>h. r.at \notin Hashing
  BY <1>a DEF Hashing
<1>n. "svg" \in Hashed /\ "animation" \in Hashed
  BY DEF Hashed, Assets!Hashed
<1>k. r.at = "hashed" => Assets!Known(r) \in SUBSET Assets!Described
  <2>1. SUFFICES ASSUME r.at = "hashed" PROVE Assets!Known(r) \in SUBSET Assets!Described
    OBVIOUS
  <2>2. r.file \in Hashed /\ r.total \in Nat /\ r.hash \in Versions /\ r.known \in SUBSET Assets!Described
    BY <1>t, <2>1 DEF ReqOK, Reqs
  <2>3. [file |-> r.file, size |-> r.total, hash |-> r.hash] \in Assets!Described
    BY <2>2 DEF Assets!Described, Hashed, Versions
  <2>4. QED
    BY <2>2, <2>3 DEF Assets!Known
<1>d. r.known \in SUBSET Assets!Described
  BY <1>t DEF Reqs
<1>1. CASE Assets!DescribeMinimap(h)
  <2>1. PICK parts \in SUBSET Assets!Described : parts = Assets!Known(r)
    BY <1>1, <1>k DEF Assets!DescribeMinimap
  <2> DEFINE w == Assets!Work(h, "svg", "meta")
             q == [w EXCEPT !.known = parts]
  <2>2. w \in Reqs /\ w.at = "meta" /\ w.file = "svg" /\ w.kind = "bundle" /\ (dir["svg"] # Nil => dir["svg"] \in w.seen)
    BY <1>a, <1>n, WorkIs
  <2>3. fetch' = [fetch EXCEPT ![h] = q] /\ UNCHANGED bundle
    BY <1>1, <2>1 DEF Assets!DescribeMinimap, Assets!Become
  <2> HIDE DEF w
  <2>4. q \in Reqs /\ q.at = "meta" /\ q.kind = "bundle" /\ q.file = "svg" /\ q.seen = w.seen
    BY <2>2 DEF Reqs
  <2> HIDE DEF q
  <2>5. ReqOK(q, dir, newest)
    BY <1>n, <2>2, <2>4 DEF ReqOK, Hashing
  <2>6. bundle' # Nil => bundle' \in SUBSET Assets!Described
    BY <1>t, <2>3
  <2>7. QED
    BY <1>a, <1>h, <2>3, <2>4, <2>5, <2>6, ReqMovesAlone
<1>2. CASE Assets!ReadMetadata(h)
  <2>1. PICK parts \in SUBSET Assets!Described : parts = Assets!Known(r)
    BY <1>2, <1>k DEF Assets!ReadMetadata
  <2> DEFINE w == Assets!Work(h, Nil, "animation")
             q == [w EXCEPT !.known = parts]
  <2>2. w \in Reqs /\ w.at = "animation" /\ w.file = Nil
    BY WorkIs
  <2>3. fetch' = [fetch EXCEPT ![h] = q] /\ UNCHANGED bundle
    BY <1>2, <2>1 DEF Assets!ReadMetadata, Assets!Become
  <2> HIDE DEF w
  <2>4. q \in Reqs /\ q.at = "animation" /\ q.file = Nil
    BY <2>2 DEF Reqs
  <2> HIDE DEF q
  <2>5. ReqOK(q, dir, newest)
    BY <2>4, AssetConstants DEF ReqOK, Hashing
  <2>6. bundle' # Nil => bundle' \in SUBSET Assets!Described
    BY <1>t, <2>3
  <2>7. QED
    BY <1>a, <1>h, <2>3, <2>4, <2>5, <2>6, ReqMovesAlone
<1>3. ASSUME NEW parts \in SUBSET Assets!Described, Assets!StoreBundle(h, parts)
      PROVE  AssetInv'
  <2> DEFINE q == [Assets!Idle EXCEPT !.at = "answered", !.kind = "bundle", !.known = parts]
  <2>1. q \in Reqs /\ q.at = "answered" /\ q.kind = "bundle" /\ q.file = Nil
    BY RestIs DEF Reqs
  <2>2. fetch' = [fetch EXCEPT ![h] = q] /\ bundle' = parts
    BY <1>3 DEF Assets!StoreBundle, Assets!Become
  <2> HIDE DEF q
  <2>3. ReqOK(q, dir, newest)
    BY <2>1, AssetConstants DEF ReqOK, Hashing
  <2>4. QED
    BY <1>a, <1>h, <2>1, <2>2, <2>3, ReqMovesAlone
<1>4. CASE Assets!Become(h, Assets!Work(h, "animation", "meta")) /\ UNCHANGED bundle
  <2> DEFINE q == Assets!Work(h, "animation", "meta")
  <2>1. /\ q \in Reqs /\ q.at = "meta" /\ q.kind = "bundle" /\ q.file = "animation"
        /\ dir["animation"] # Nil => dir["animation"] \in q.seen
    BY <1>a, <1>n, WorkIs
  <2>2. fetch' = [fetch EXCEPT ![h] = q]
    BY <1>4 DEF Assets!Become
  <2> HIDE DEF q
  <2>3. ReqOK(q, dir, newest)
    BY <1>n, <2>1 DEF ReqOK, Hashing
  <2>4. bundle' # Nil => bundle' \in SUBSET Assets!Described
    BY <1>4, <1>t
  <2>5. QED
    BY <1>a, <1>h, <2>1, <2>2, <2>3, <2>4, ReqMovesAlone
<1>5. CASE Assets!DescribeAnimation(h)
  <2>1. \/ Assets!Become(h, Assets!Work(h, "animation", "meta")) /\ UNCHANGED bundle
        \/ Assets!StoreBundle(h, r.known)
        \/ r.at = "hashed" /\ Assets!StoreBundle(h, Assets!Known(r))
    BY <1>5 DEF Assets!DescribeAnimation
  <2> HIDE DEF r
  <2>2. QED
    BY <1>3, <1>4, <1>d, <1>k, <2>1
<1>6. QED
  BY <1>1, <1>2, <1>5

\* get_map_asset: the stream goes from the offset to the size read at first.
LEMMA StreamSteps ==
    ASSUME AssetInv, NEW h \in Admins,
           Assets!Match(h) \/ Assets!OpenFile(h) \/ Assets!SendChunk(h)
    PROVE  AssetInv'
<1> DEFINE r == fetch[h]
<1>t. /\ bundle # Nil => bundle \in SUBSET Assets!Described
      /\ fetch \in [Admins -> Reqs] /\ r \in Reqs /\ ReqOK(r, dir, newest)
  BY DEF AssetInv
<1>a. /\ r.at \in {"hashed", "open", "stream"} /\ UNCHANGED <<dir, newest, mem, sidecar, locks, bundle>>
      /\ r.at = "hashed" => r.kind = "asset"
  BY DEF Assets!Match, Assets!OpenFile, Assets!SendChunk
<1>h. r.at \notin Hashing
  BY <1>a DEF Hashing
<1>b. bundle' # Nil => bundle' \in SUBSET Assets!Described
  BY <1>a, <1>t
<1>f. /\ r.file \in Hashed /\ r.kind = "asset" /\ SizeSeen(r)
      /\ dir[r.file] # Nil => dir[r.file] \in r.seen
  BY <1>a, <1>t DEF ReqOK, Hashing
<1>p. /\ r.pos \in Nat /\ r.offset \in Nat /\ r.total \in Nat /\ r.limit \in Nat
      /\ r.seen \in SUBSET Versions
  BY <1>t DEF Reqs
<1>z. \A v \in Versions : Size[v] \in Nat
  BY AssetConstants
<1>1. CASE Assets!Match(h)
  <2> DEFINE q == [r EXCEPT !.at = "open"]
  <2>1. /\ q \in Reqs /\ q.at = "open" /\ q.file = r.file /\ q.kind = r.kind /\ q.seen = r.seen
        /\ q.total = r.total /\ q.ifMatch = r.ifMatch
    BY <1>t DEF Reqs
  <2>2. fetch' = [fetch EXCEPT ![h] = q] /\ r.ifMatch = r.hash /\ r.at = "hashed"
    BY <1>1 DEF Assets!Match, Assets!Become
  <2> HIDE DEF q
  <2>3. ReqOK(q, dir, newest)
    BY <1>f, <1>t, <2>1, <2>2 DEF ReqOK, Hashing, SizeSeen
  <2>4. QED
    BY <1>a, <1>b, <1>h, <2>1, <2>2, <2>3, ReqMovesAlone
<1>2. CASE Assets!OpenFile(h)
  <2>0. r.at = "open" /\ (r.ifMatch = Nil \/ r.ifMatch \in r.seen)
    BY <1>2, <1>f, <1>t DEF Assets!OpenFile, ReqOK
  <2>1. CASE r.offset >= r.total
    <3> DEFINE q == [r EXCEPT !.at = "answered", !.pos = r.offset, !.eof = TRUE]
    <3>1. /\ q \in Reqs /\ q.at = "answered" /\ q.file = r.file /\ q.kind = r.kind /\ q.seen = r.seen
          /\ q.total = r.total /\ q.ifMatch = r.ifMatch /\ q.offset = r.offset /\ q.eof = TRUE
      BY <1>t, <1>p DEF Reqs
    <3>2. fetch' = [fetch EXCEPT ![h] = q]
      BY <1>2, <2>1 DEF Assets!OpenFile, Assets!Become
    <3> HIDE DEF q
    <3>3. WholeOf(q)
      <4>1. ASSUME NEW v \in Versions, q.seen = {v}, q.offset < Size[v] PROVE FALSE
        <5>1. r.total = Size[v]
          BY <1>f, <3>1, <4>1 DEF SizeSeen
        <5>2. QED
          BY <1>p, <1>z, <2>1, <3>1, <4>1, <5>1
      <4>2. QED
        BY <3>1, <4>1 DEF WholeOf
    <3>4. ReqOK(q, dir, newest)
      BY <1>f, <2>0, <3>1, <3>3 DEF ReqOK, Hashing, SizeSeen
    <3>5. QED
      BY <1>a, <1>b, <1>h, <3>1, <3>2, <3>4, ReqMovesAlone
  <2>2. CASE ~(r.offset >= r.total)
    <3>0. PICK v \in r.seen : v = dir[r.file]
      BY <1>2, <1>f, <2>2 DEF Assets!OpenFile
    <3> DEFINE q == [r EXCEPT !.at = "stream", !.open = v, !.pos = r.offset]
    <3>1. /\ q \in Reqs /\ q.at = "stream" /\ q.file = r.file /\ q.kind = r.kind /\ q.seen = r.seen
          /\ q.total = r.total /\ q.ifMatch = r.ifMatch /\ q.offset = r.offset
          /\ q.open = v /\ q.pos = r.offset
      BY <1>t, <1>p DEF Reqs
    <3>2. fetch' = [fetch EXCEPT ![h] = q]
      BY <1>2, <2>2, <3>0 DEF Assets!OpenFile, Assets!Become
    <3>o. r.offset <= r.offset /\ r.offset < r.total
      BY <1>p, <2>2
    <3> HIDE DEF q
    <3>3. ReqOK(q, dir, newest)
      BY <1>f, <2>0, <3>0, <3>1, <3>o DEF ReqOK, Hashing, SizeSeen
    <3>4. QED
      BY <1>a, <1>b, <1>h, <3>1, <3>2, <3>3, ReqMovesAlone
  <2>3. QED
    BY <2>1, <2>2
<1>3. CASE Assets!SendChunk(h)
  <2>0. /\ r.at = "stream" /\ (r.ifMatch = Nil \/ r.ifMatch \in r.seen)
        /\ r.open \in r.seen /\ r.offset <= r.pos /\ r.pos < r.total
    BY <1>3, <1>f, <1>t DEF Assets!SendChunk, ReqOK
  <2>s. Size[r.open] \in Nat
    BY <1>p, <1>z, <2>0
  <2>o. ASSUME NEW v \in Versions, r.seen = {v} PROVE r.total = Size[v] /\ r.open = v
    BY <1>f, <2>0, <2>o DEF SizeSeen
  <2> DEFINE left == IF Size[r.open] > r.pos THEN Size[r.open] - r.pos ELSE 0
  <2>1. CASE left = 0 /\ Assets!Become(h, [r EXCEPT !.eof = TRUE, !.at = "answered"])
    <3> DEFINE q == [r EXCEPT !.eof = TRUE, !.at = "answered"]
    <3>1. /\ q \in Reqs /\ q.at = "answered" /\ q.file = r.file /\ q.kind = r.kind /\ q.seen = r.seen
          /\ q.total = r.total /\ q.ifMatch = r.ifMatch /\ q.offset = r.offset /\ q.eof = TRUE
      BY <1>t DEF Reqs
    <3>2. fetch' = [fetch EXCEPT ![h] = q]
      BY <2>1 DEF Assets!Become
    <3>3. Size[r.open] <= r.pos
      BY <1>p, <2>1, <2>s
    <3> HIDE DEF q
    <3>4. WholeOf(q)
      <4>1. ASSUME NEW v \in Versions, q.seen = {v} PROVE FALSE
        BY <1>p, <1>z, <2>0, <2>o, <3>1, <3>3, <4>1
      <4>2. QED
        BY <3>1, <4>1 DEF WholeOf
    <3>5. ReqOK(q, dir, newest)
      BY <1>f, <2>0, <3>1, <3>4 DEF ReqOK, Hashing, SizeSeen
    <3>6. QED
      BY <1>a, <1>b, <1>h, <3>1, <3>2, <3>5, ReqMovesAlone
  <2>2. ASSUME NEW n \in 1 .. r.limit, n <= left,
               LET last == r.pos + n >= r.total IN
               Assets!Become(h, [r EXCEPT !.pos = r.pos + n, !.eof = last,
                                   !.at = IF last THEN "answered" ELSE "stream"])
        PROVE  AssetInv'
    <3>1. n \in Nat /\ n >= 1 /\ r.pos + n <= Size[r.open]
      BY <1>p, <2>2, <2>s
    <3>2. PICK p \in Nat : p = r.pos + n
      BY <1>p, <3>1
    <3>3. CASE p >= r.total
      <4> DEFINE q == [r EXCEPT !.pos = p, !.eof = TRUE, !.at = "answered"]
      <4>1. /\ q \in Reqs /\ q.at = "answered" /\ q.file = r.file /\ q.kind = r.kind
            /\ q.seen = r.seen /\ q.total = r.total /\ q.ifMatch = r.ifMatch
            /\ q.offset = r.offset /\ q.eof = TRUE /\ q.pos = p
        BY <1>t DEF Reqs
      <4>2. fetch' = [fetch EXCEPT ![h] = q]
        <5>1. (r.pos + n >= r.total) = TRUE
          BY <3>2, <3>3
        <5>2. QED
          BY <2>2, <3>2, <5>1 DEF Assets!Become
      <4> HIDE DEF q
      <4>3. WholeOf(q)
        <5>1. ASSUME NEW v \in Versions, q.seen = {v} PROVE q.pos = Size[v]
          BY <1>p, <1>z, <2>o, <3>1, <3>2, <3>3, <4>1, <5>1
        <5>2. QED
          BY <4>1, <5>1 DEF WholeOf
      <4>4. ReqOK(q, dir, newest)
        BY <1>f, <2>0, <4>1, <4>3 DEF ReqOK, Hashing, SizeSeen
      <4>5. QED
        BY <1>a, <1>b, <1>h, <4>1, <4>2, <4>4, ReqMovesAlone
    <3>4. CASE ~(p >= r.total)
      <4> DEFINE q == [r EXCEPT !.pos = p, !.eof = FALSE, !.at = "stream"]
      <4>1. /\ q \in Reqs /\ q.at = "stream" /\ q.file = r.file /\ q.kind = r.kind
            /\ q.seen = r.seen /\ q.total = r.total /\ q.ifMatch = r.ifMatch
            /\ q.offset = r.offset /\ q.pos = p /\ q.open = r.open
        BY <1>t DEF Reqs
      <4>2. fetch' = [fetch EXCEPT ![h] = q]
        <5>1. (r.pos + n >= r.total) = FALSE
          BY <3>2, <3>4
        <5>2. QED
          BY <2>2, <3>2, <5>1 DEF Assets!Become
      <4>o. p < r.total /\ r.offset <= p
        BY <1>p, <2>0, <3>1, <3>2, <3>4
      <4> HIDE DEF q
      <4>3. ReqOK(q, dir, newest)
        BY <1>f, <2>0, <4>1, <4>o DEF ReqOK, Hashing, SizeSeen
      <4>4. QED
        BY <1>a, <1>b, <1>h, <4>1, <4>2, <4>3, ReqMovesAlone
    <3>5. QED
      BY <3>3, <3>4
  <2>3. QED
    BY <1>3, <2>1, <2>2 DEF Assets!SendChunk
<1>4. QED
  BY <1>1, <1>2, <1>3

\* Every step of the asset service.
LEMMA AssetNext == AssetInv /\ Assets!Next => AssetInv'
BY ReplaceStep, RemoveStep, RestartStep, BeginSteps, EndSteps, HashSteps, DescribeSteps,
   StreamSteps DEF Assets!Next, Versions

\* The bundle as it is found.
LEMMA AssetInit == Assets!Init => AssetInv
<1>1. SUFFICES ASSUME Assets!Init PROVE AssetInv
  OBVIOUS
<1>v. 1 \in Versions
  BY AssetConstants
<1>2. /\ dir \in [Files -> Versions \cup {Nil}] /\ newest \in [Files -> Versions]
      /\ \A f \in Files : dir[f] \in {Nil, newest[f]}
  BY <1>1, <1>v DEF Assets!Init, Files
<1>3. /\ mem = [f \in Hashed |-> Nil] /\ sidecar = [f \in Hashed |-> Nil]
      /\ locks = [f \in Hashed |-> Nil] /\ bundle = Nil
      /\ fetch = [h \in Admins |-> Assets!Idle]
  BY <1>1 DEF Assets!Init, Hashed
<1>4. fetch \in [Admins -> Reqs] /\ \A h \in Admins : ReqOK(fetch[h], dir, newest)
  BY <1>3, RestIs
<1>5. \A f \in Hashed : LockOK(f, locks[f], fetch)
  BY <1>3 DEF LockOK
<1>6. QED
  BY <1>2, <1>3, <1>4, <1>5 DEF AssetInv

\* The invariant holds as long as the asset service runs.
LEMMA AssetInvariance == Spec => [](runs = "assets" => AssetInv)
<1>1. Init => (runs = "assets" => AssetInv)
  BY AssetInit DEF Init
<1>2. (runs = "assets" => AssetInv) /\ [Next]_vars => (runs = "assets" => AssetInv)'
  <2>1. AssetInv /\ UNCHANGED assetVars => AssetInv'
    BY DEF AssetInv, assetVars
  <2>2. QED
    BY <2>1, AssetNext DEF Next, vars
<1>3. QED
  BY <1>1, <1>2, PTL DEF Spec

\* get_map_asset and HashCache: for any number of requests, versions and sizes, a hash
\* handed out is that of a version the file had meanwhile, whatever was replaced,
\* removed or restarted, and a download of a file that stayed brought all of the
\* version the client asked for.
THEOREM DownloadsSound == Spec => []DownloadsAreTrue
<1>1. (runs = "assets" => AssetInv) => DownloadsAreTrue
  <2>1. SUFFICES ASSUME AssetInv
                 PROVE  Assets!TypeOK /\ Assets!HashIsCurrent /\ Assets!DownloadWhole
    BY DEF DownloadsAreTrue
  <2>2. Assets!TypeOK
    <3>1. ASSUME NEW f \in Hashed, sidecar[f] # Nil
          PROVE  sidecar[f].hash \in Versions /\ sidecar[f].lines[3] \in Versions
      <4>1. sidecar[f] \in Notes
        BY <2>1, <3>1 DEF AssetInv
      <4>2. QED
        BY <4>1, NoteIs
    <3>2. ASSUME NEW f \in Hashed, locks[f] # Nil
          PROVE  fetch[locks[f]].file = f /\ fetch[locks[f]].at \in {"stat", "sum", "check"}
      BY <2>1, <3>2 DEF AssetInv, LockOK, Hashing
    <3>3. QED
      BY <2>1, <3>1, <3>2 DEF AssetInv, Assets!TypeOK, Files, Hashed, Versions
  <2>3. Assets!HashIsCurrent
    BY <2>1 DEF AssetInv, ReqOK, Assets!HashIsCurrent
  <2>4. Assets!DownloadWhole
    <3>1. ASSUME NEW h \in Admins, fetch[h].at = "answered", fetch[h].kind = "asset"
          PROVE  /\ fetch[h].eof
                 /\ \A v \in Versions : fetch[h].seen = {v} =>
                      /\ fetch[h].offset < Size[v] => fetch[h].pos = Size[v]
                      /\ fetch[h].ifMatch \in {Nil, v}
      <4>1. ReqOK(fetch[h], dir, newest)
        BY <2>1 DEF AssetInv
      <4>2. WholeOf(fetch[h]) /\ (fetch[h].ifMatch = Nil \/ fetch[h].ifMatch \in fetch[h].seen)
        BY <3>1, <4>1 DEF ReqOK
      <4>3. QED
        BY <4>2 DEF WholeOf
    <3>2. QED
      BY <3>1 DEF Assets!DownloadWhole, Versions
  <2>5. QED
    BY <2>2, <2>3, <2>4
<1>2. QED
  BY <1>1, AssetInvariance, PTL

-----------------------------------------------------------------------------
(* The forecasts, instant by instant. *)

\* A set of naturals that is not empty has a least element.
LEMMA LeastNatural ==
    ASSUME NEW T \in SUBSET Nat, T # {}
    PROVE  \E x \in T : \A y \in T : x <= y
<1> DEFINE less == {p \in Nat \X Nat : p[1] < p[2]}
<1>w. IsWellFoundedOn(less, Nat)
  BY NatLessThanWellFounded DEF OpToRel
<1> HIDE DEF less
<1>2. PICK x \in T : \A y \in T : <<y, x>> \notin less
  BY <1>w, WFMin
<1>l. ASSUME NEW y \in Nat, NEW z \in Nat, y < z PROVE <<y, z>> \in less
  <2>1. <<y, z>> \in Nat \X Nat /\ <<y, z>>[1] = y /\ <<y, z>>[2] = z
    OBVIOUS
  <2>2. QED
    BY <1>l, <2>1 DEF less
<1>3. \A y \in T : x <= y
  <2>1. SUFFICES ASSUME NEW y \in T PROVE x <= y
    OBVIOUS
  <2>2. x \in Nat /\ y \in Nat /\ ~(y < x)
    BY <1>2, <1>l
  <2>3. QED
    BY <2>2
<1>4. QED
  BY <1>3


\* The equation that SumFunction solves: the sum over a set is that over the rest
\* and the term of one element.
Summed(w, f) ==
    [s \in SUBSET DOMAIN w |->
        IF s = {} THEN 0
        ELSE w[CHOOSE x \in s : TRUE] + f[s \ {CHOOSE x \in s : TRUE}]]

\* SumFunction: when each term counts the elements of a set, and these sets share
\* none, the sum counts the elements of all.
LEMMA SumCounts ==
    ASSUME NEW S, IsFiniteSet(S), NEW w, DOMAIN w = S, NEW B,
           \A x \in S : IsFiniteSet(B[x]) /\ Cardinality(B[x]) = w[x],
           \A x, y \in S : x # y => B[x] \cap B[y] = {}
    PROVE  /\ IsFiniteSet(UNION {B[x] : x \in S})
           /\ Points!SumFunction(w) = Cardinality(UNION {B[x] : x \in S})
<1> DEFINE U(s) == UNION {B[x] : x \in s}
           one(s) == CHOOSE x \in s : TRUE
           W == [s \in SUBSET S |-> Cardinality(U(s))]
<1>1. ASSUME NEW s \in SUBSET S PROVE IsFiniteSet(s) /\ IsFiniteSet(U(s))
  <2>1. IsFiniteSet(s)
    BY FS_Subset
  <2> DEFINE T == {B[x] : x \in s}
             f == [x \in s |-> B[x]]
  <2>2. f \in Surjection(s, T)
    BY DEF Surjection
  <2>3. IsFiniteSet(T)
    <3> HIDE DEF f, T
    <3> QED
      BY <2>1, <2>2, FS_Surjection
  <2>4. \A X \in T : IsFiniteSet(X)
    OBVIOUS
  <2>5. IsFiniteSet(UNION T)
    <3> HIDE DEF T
    <3> QED
      BY <2>3, <2>4, FS_UNION
  <2> QED
    BY <2>1, <2>5
<1>2. ASSUME NEW s \in SUBSET S, s # {}
      PROVE  /\ one(s) \in s /\ s \ {one(s)} \in SUBSET S
             /\ W[s] = w[one(s)] + W[s \ {one(s)}]
  <2>1. one(s) \in s
    BY <1>2
  <2> DEFINE x == one(s)
             r == s \ {x}
             A == B[x]
             C == U(r)
  <2>2. r \in SUBSET S /\ x \in S
    BY <2>1
  <2> HIDE DEF x
  <2>3. U(s) = A \cup C
    BY <2>1 DEF x
  <2>4. A \cap C = {}
    BY <2>2
  <2>5. IsFiniteSet(A) /\ IsFiniteSet(C)
    BY <2>2, <1>1
  <2>6. Cardinality(A) = w[x]
    BY <2>2
  <2> HIDE DEF U, A, C
  <2>7. Cardinality(A \cup C) = Cardinality(A) + Cardinality(C) - Cardinality({})
    BY <2>4, <2>5, FS_Union
  <2>8. Cardinality({}) = 0 /\ Cardinality(A) \in Nat /\ Cardinality(C) \in Nat
    BY <2>5, FS_EmptySet, FS_CardinalityType
  <2>9. W[s] = Cardinality(U(s)) /\ W[r] = Cardinality(C)
    BY <2>2 DEF C
  <2>10. W[s] = w[x] + W[r]
    BY <2>3, <2>6, <2>7, <2>8, <2>9
  <2> QED
    BY <2>1, <2>2, <2>10 DEF x
<1>3. W[{}] = 0
  <2>1. U({}) = {}
    OBVIOUS
  <2> QED
    BY <2>1, FS_EmptySet
<1> DEFINE iter == CHOOSE f : f = Summed(w, f)
<1>4. Points!SumFunction(w) = iter[S]
  BY DEF Points!SumFunction, Points!SumFunctionOnSet, Points!FoldFunctionOnSet,
         Points!MapThenFoldSet, Summed
<1>5. W = Summed(w, W)
  <2>1. ASSUME NEW s \in SUBSET S
        PROVE  W[s] = IF s = {} THEN 0
                      ELSE w[CHOOSE x \in s : TRUE] + W[s \ {CHOOSE x \in s : TRUE}]
    <3> HIDE DEF W
    <3> QED
      BY <1>2, <1>3
  <2>2. W = [s \in SUBSET S |-> W[s]]
    OBVIOUS
  <2> HIDE DEF W
  <2>3. W = [s \in SUBSET S |-> IF s = {} THEN 0
                ELSE w[CHOOSE x \in s : TRUE] + W[s \ {CHOOSE x \in s : TRUE}]]
    BY <2>1, <2>2, Zenon
  <2> QED
    BY <2>3 DEF Summed
<1>6. iter = Summed(w, iter)
  BY <1>5
<1> HIDE DEF iter
<1>7. ASSUME NEW s \in SUBSET S
      PROVE  iter[s] = IF s = {} THEN 0 ELSE w[one(s)] + iter[s \ {one(s)}]
  BY <1>6 DEF Summed
<1> HIDE DEF one, W, U
<1>8. \A s \in SUBSET S : iter[s] = W[s]
  <2> DEFINE bad == {s \in SUBSET S : iter[s] # W[s]}
             sizes == {Cardinality(s) : s \in bad}
  <2>1. SUFFICES ASSUME bad # {} PROVE FALSE
    OBVIOUS
  <2>2. sizes \in SUBSET Nat /\ sizes # {}
    BY <2>1, <1>1, FS_CardinalityType
  <2>3. PICK n \in sizes : \A m \in sizes : n <= m
    <3> HIDE DEF sizes
    <3> QED
      BY <2>2, LeastNatural
  <2>4. PICK s \in bad : n = Cardinality(s)
    OBVIOUS
  <2>5. s # {}
    BY <2>4, <1>3, <1>7
  <2> DEFINE r == s \ {one(s)}
  <2>6. one(s) \in s /\ r \in SUBSET S
    BY <1>2, <2>5
  <2>7. IsFiniteSet(s) /\ Cardinality(s) \in Nat
    BY <1>1, FS_CardinalityType
  <2>8. Cardinality(r) = Cardinality(s) - 1
    BY <2>6, <2>7, FS_RemoveElement
  <2>9. iter[r] # W[r]
    <3>1. iter[s] = w[one(s)] + iter[r] /\ W[s] = w[one(s)] + W[r]
      BY <1>2, <1>7, <2>5
    <3> HIDE DEF r
    <3> QED
      BY <3>1, <2>4
  <2>10. Cardinality(r) \in sizes
    <3> HIDE DEF r
    <3> QED
      BY <2>6, <2>9
  <2> HIDE DEF r, sizes
  <2> QED
    BY <2>3, <2>4, <2>7, <2>8, <2>10
<1>9. S \in SUBSET S
  OBVIOUS
<1>10. W[S] = Cardinality(U(S))
  BY <1>9 DEF W
<1>11. IsFiniteSet(U(S))
  BY <1>1, <1>9
<1>12. Points!SumFunction(w) = Cardinality(U(S))
  BY <1>4, <1>8, <1>9, <1>10
<1> QED
  BY <1>11, <1>12 DEF U

\* A schedule is in order of its starts, no two the same.
InOrder(es) ==
    /\ es \in Seq(Points!Entry)
    /\ \A i, j \in DOMAIN es : i < j => es[i].at < es[j].at

\* The invariant of the forecast: all that the walks over the schedule rely on.
PointsInv == InOrder(schedule) /\ start \in Nat

\* What is assumed of the forecast.
LEMMA PointsConstants ==
    /\ Types \subseteq 0..6 /\ Temperatures \subseteq 1..30
    /\ Step \in Nat /\ Step # 0 /\ Horizon \in Nat /\ MaxStart \in Nat
BY Assumptions DEF Points!ForecastAssumption, Points!AllTypes

\* The entries of a schedule in order.
LEMMA EntryIs ==
    ASSUME NEW es, InOrder(es)
    PROVE  /\ Len(es) \in Nat /\ DOMAIN es = 1..Len(es)
           /\ \A i \in 1..Len(es) : /\ es[i].at \in Nat /\ es[i].type \in 0..6
                                    /\ es[i].temp \in 1..30
           /\ \A i, j \in 1..Len(es) : i < j => es[i].at < es[j].at
<1>1. es \in Seq(Points!Entry)
  BY DEF InOrder
<1>2. Len(es) \in Nat /\ DOMAIN es = 1..Len(es)
  BY <1>1
<1>0. \A i, j \in 1..Len(es) : i < j => es[i].at < es[j].at
  BY <1>2 DEF InOrder
<1>3. \A i \in 1..Len(es) : es[i] \in Points!Entry
  BY <1>1, <1>2
<1>4. \A x \in Points!Entry : x.at \in Nat /\ x.type \in 0..6 /\ x.temp \in 1..30
  <2>1. \A x \in Points!Entry : x.at \in 0..MaxStart /\ x.type \in Types /\ x.temp \in Temperatures
    BY DEF Points!Entry
  <2>2. \A i \in 0..MaxStart : i \in Nat
    BY PointsConstants
  <2>3. \A i \in Types : i \in 0..6
    BY PointsConstants
  <2>4. \A i \in Temperatures : i \in 1..30
    BY PointsConstants
  <2> QED
    BY <2>1, <2>2, <2>3, <2>4, Zenon
<1> QED
  BY <1>0, <1>2, <1>3, <1>4

\* The schedule starts empty.
LEMMA PointsInit == Points!Init => PointsInv
<1>1. SUFFICES ASSUME Points!Init PROVE PointsInv
  OBVIOUS
<1>2. schedule = <<>> /\ start = 0
  BY <1>1 DEF Points!Init
<1>3. <<>> \in Seq(Points!Entry) /\ DOMAIN <<>> = {}
  OBVIOUS
<1> QED
  BY <1>2, <1>3 DEF PointsInv, InOrder

\* replace_weather_schedule: a draft is empty or adds an entry, and validate_schedule
\* refuses one that is not later than the last.
LEMMA PointsNext == PointsInv /\ [Points!Next]_pointVars => PointsInv'
<1>1. SUFFICES ASSUME PointsInv, [Points!Next]_pointVars PROVE PointsInv'
  OBVIOUS
<1>2. CASE UNCHANGED pointVars
  BY <1>1, <1>2 DEF PointsInv, InOrder, pointVars
<1>3. CASE Points!Ask
  <2>1. start' = start + 1 /\ schedule' = schedule
    BY <1>3 DEF Points!Ask
  <2> QED
    BY <1>1, <2>1 DEF PointsInv, InOrder
<1>4. CASE Points!replace_weather_schedule
  <2>1. PICK draft \in Points!Drafts :
           Points!validate_schedule(draft, TailOnly) /\ schedule' = draft
    BY <1>4 DEF Points!replace_weather_schedule
  <2>2. start' = start
    BY <1>4 DEF Points!replace_weather_schedule
  <2>3. CASE draft = <<>>
    <3>1. <<>> \in Seq(Points!Entry) /\ DOMAIN <<>> = {}
      OBVIOUS
    <3> QED
      BY <1>1, <2>1, <2>2, <2>3, <3>1 DEF PointsInv, InOrder
  <2>4. CASE draft # <<>>
    <3>1. PICK e \in Points!Entry : draft = Append(schedule, e)
      BY <2>1, <2>4 DEF Points!Drafts
    <3> DEFINE n == Len(schedule)
    <3>2. InOrder(schedule) /\ schedule \in Seq(Points!Entry)
      BY <1>1 DEF PointsInv, InOrder
    <3>3. /\ n \in Nat /\ draft \in Seq(Points!Entry) /\ Len(draft) = n + 1
          /\ DOMAIN draft = 1..(n + 1) /\ draft[n + 1] = e
          /\ \A i \in 1..n : draft[i] = schedule[i]
      BY <3>1, <3>2
    <3>4. /\ \A i \in 1..n : schedule[i].at \in Nat
          /\ \A i, j \in 1..n : i < j => schedule[i].at < schedule[j].at
      BY <3>2, EntryIs
    <3>5. e.at \in Nat
      BY PointsConstants DEF Points!Entry
    <3>6. n # 0 => schedule[n].at < e.at
      <4>1. n # 0 => draft[n].at < draft[n + 1].at
        BY <2>1, <3>3 DEF Points!validate_schedule
      <4>2. n # 0 => n \in 1..n
        BY <3>3
      <4> QED
        BY <3>3, <4>1, <4>2
    <3> HIDE DEF n
    <3>7. ASSUME NEW i \in 1..(n + 1), NEW j \in 1..(n + 1), i < j
          PROVE  draft[i].at < draft[j].at
      <4>1. i \in 1..n
        BY <3>3, <3>7
      <4>2. CASE j \in 1..n
        BY <3>3, <3>4, <3>7, <4>1, <4>2
      <4>3. CASE j = n + 1
        <5>1. schedule[i].at < e.at
          <6>1. n # 0 /\ n \in 1..n /\ (i = n \/ i < n)
            BY <3>3, <4>1
          <6>2. i < n => schedule[i].at < schedule[n].at
            BY <6>1, <4>1, <3>4
          <6>3. schedule[i].at \in Nat /\ schedule[n].at \in Nat
            BY <6>1, <4>1, <3>4
          <6> QED
            BY <6>1, <6>2, <6>3, <3>6, <3>5
        <5> QED
          BY <5>1, <4>1, <4>3, <3>3
      <4> QED
        BY <3>3, <4>2, <4>3
    <3>8. InOrder(draft)
      BY <3>3, <3>7 DEF InOrder
    <3> QED
      BY <1>1, <2>1, <2>2, <3>8 DEF PointsInv, InOrder
  <2> QED
    BY <2>3, <2>4
<1> QED
  BY <1>1, <1>2, <1>3, <1>4 DEF Points!Next

\* The numbers of elements that the forecast takes are those of FiniteSetTheorems.
LEMMA CardinalityIs == ASSUME NEW S PROVE Points!Cardinality(S) = Cardinality(S)
BY DEF Points!Cardinality, Cardinality

\* A set of positions that holds all before each of its own is a prefix.
LEMMA PrefixIs ==
    ASSUME NEW n \in Nat, NEW S \in SUBSET (1..n),
           \A i \in S : \A j \in 1..n : j < i => j \in S
    PROVE  Cardinality(S) \in 0..n /\ S = 1..Cardinality(S)
<1>1. CASE S = {}
  <2>1. Cardinality({}) = 0
    BY FS_EmptySet
  <2>2. Cardinality(S) = 0
    BY <1>1, <2>1
  <2> QED
    BY <1>1, <2>2
<1>2. CASE S # {}
  <2> DEFINE T == {n - i : i \in S}
  <2>0. \A i \in S : i \in 1..n /\ n - i \in Nat
    OBVIOUS
  <2>1. T \in SUBSET Nat /\ T # {}
    BY <1>2, <2>0
  <2>2. PICK k \in T : \A l \in T : k <= l
    <3> HIDE DEF T
    <3> QED
      BY <2>1, LeastNatural
  <2>3. PICK m \in S : k = n - m
    BY <2>2
  <2>4. ASSUME NEW i \in S PROVE i <= m
    <3>1. n - m <= n - i
      BY <2>2, <2>3
    <3> QED
      BY <3>1, <2>0
  <2>5. m \in 1..n
    OBVIOUS
  <2>6. S = 1..m
    <3>1. ASSUME NEW i \in S PROVE i \in 1..m
      BY <2>4, <2>5
    <3>2. ASSUME NEW i \in 1..m PROVE i \in S
      <4>1. i \in 1..n /\ (i = m \/ i < m)
        BY <2>5
      <4> QED
        BY <4>1
    <3> QED
      BY <3>1, <3>2
  <2>7. Cardinality(1..m) = m
    BY <2>5, FS_Interval
  <2> QED
    BY <2>5, <2>6, <2>7
<1> QED
  BY <1>1, <1>2

\* partition_point: the entries that have started come first.
LEMMA StartedIs ==
    ASSUME NEW es, InOrder(es), NEW t \in Int
    PROVE  /\ Points!Started(es, t) \in 0..Len(es)
           /\ \A i \in 1..Len(es) : es[i].at <= t <=> i <= Points!Started(es, t)
           /\ Points!Cardinality({i \in DOMAIN es : es[i].at < t + 1}) = Points!Started(es, t)
<1> DEFINE n == Len(es)
           S == {i \in DOMAIN es : es[i].at <= t}
<1>1. /\ n \in Nat /\ DOMAIN es = 1..n
      /\ \A i \in 1..n : es[i].at \in Nat
      /\ \A i, j \in 1..n : i < j => es[i].at < es[j].at
  BY EntryIs
<1>2. S \in SUBSET (1..n)
  BY <1>1
<1>3. \A i \in S : \A j \in 1..n : j < i => j \in S
  BY <1>1
<1>4. Cardinality(S) \in 0..n /\ S = 1..Cardinality(S)
  <2> HIDE DEF S, n
  <2> QED
    BY <1>1, <1>2, <1>3, PrefixIs
<1>5. Points!Started(es, t) = Cardinality(S) /\ Points!Cardinality(S) = Cardinality(S)
  <2>1. Points!Started(es, t) = Points!Cardinality(S)
    BY DEF Points!Started
  <2> HIDE DEF S
  <2> QED
    BY <2>1, CardinalityIs
<1>6. S = {i \in DOMAIN es : es[i].at < t + 1}
  <2>1. \A i \in DOMAIN es : es[i].at <= t <=> es[i].at < t + 1
    BY <1>1
  <2> QED
    BY <2>1
<1>7. \A i \in 1..n : es[i].at <= t <=> i \in S
  BY <1>1
<1> HIDE DEF S, n
<1>8. \A i \in 1..n : i \in S <=> i <= Cardinality(S)
  BY <1>1, <1>4
<1> QED
  BY <1>4, <1>5, <1>6, <1>7, <1>8 DEF n

\* weather_at: the entry in force is the last that has started.
LEMMA InForceIs ==
    ASSUME InOrder(schedule), NEW t \in Int, Points!Started(schedule, t) > 0
    PROVE  Points!InForce(t) = Points!Started(schedule, t)
<1> DEFINE k == Points!Started(schedule, t)
           past == {i \in DOMAIN schedule : schedule[i].at <= t}
<1>1. /\ Len(schedule) \in Nat /\ DOMAIN schedule = 1..Len(schedule)
      /\ \A i \in 1..Len(schedule) : schedule[i].at \in Nat
      /\ \A i, j \in 1..Len(schedule) : i < j => schedule[i].at < schedule[j].at
  BY EntryIs
<1>0. k \in 0..Len(schedule) /\ \A i \in 1..Len(schedule) : schedule[i].at <= t <=> i <= k
  BY StartedIs
<1>2. k \in 1..Len(schedule) /\ \A i \in 1..Len(schedule) : schedule[i].at <= t <=> i <= k
  BY <1>0, <1>1
<1> HIDE DEF k
<1>3. k \in past /\ \A i \in past : i <= k
  BY <1>1, <1>2
<1>4. \A j \in past : schedule[j].at <= schedule[k].at
  <2>1. SUFFICES ASSUME NEW j \in past PROVE schedule[j].at <= schedule[k].at
    OBVIOUS
  <2>2. j \in 1..Len(schedule) /\ (j = k \/ j < k)
    BY <1>1, <1>2, <1>3
  <2> QED
    BY <1>1, <1>2, <2>2
<1>5. \A i \in past : (\A j \in past : schedule[j].at <= schedule[i].at) => i = k
  <2>1. SUFFICES ASSUME NEW i \in past, \A j \in past : schedule[j].at <= schedule[i].at
                 PROVE  i = k
    OBVIOUS
  <2>2. schedule[k].at <= schedule[i].at
    BY <1>3, <2>1
  <2>3. i \in 1..Len(schedule) /\ i <= k
    BY <1>1, <1>3
  <2> QED
    BY <1>1, <1>2, <2>2, <2>3
<1>6. Points!InForce(t) = CHOOSE i \in past : \A j \in past : schedule[j].at <= schedule[i].at
  BY DEF Points!InForce
<1> HIDE DEF past
<1> QED
  BY <1>3, <1>4, <1>5, <1>6 DEF k

\* The instants of a part of the walk.
Span(g) == g.from..(g.to - 1)

\* The walk over the schedule: each part has the type and the temperature in force at
\* each of its instants, and the parts share out those of the window.
LEMMA SegmentsAre ==
    ASSUME InOrder(schedule), NEW s \in Nat, NEW e \in Nat, s < e,
           Points!Started(schedule, s) > 0
    PROVE  LET segs == Points!Segments(schedule, s, e)
           IN  /\ IsFiniteSet(segs) /\ segs # {}
               /\ \A g \in segs :
                    /\ g.from \in Nat /\ g.to \in Nat /\ g.from < g.to
                    /\ g.type \in 0..6 /\ g.temp \in 1..30
                    /\ \A t \in Span(g) :
                         /\ t \in s..(e - 1)
                         /\ schedule[Points!InForce(t)].type = g.type
                         /\ schedule[Points!InForce(t)].temp = g.temp
               /\ \A t \in s..(e - 1) : \E g \in segs : t \in Span(g)
               /\ \A g, h \in segs : g # h => Span(g) \cap Span(h) = {}
<1> DEFINE n == Len(schedule)
           p == Points!Started(schedule, s)
           q == Points!Started(schedule, e - 1)
           from(i) == IF i = p THEN s ELSE schedule[i].at
           to(i) == IF i < n THEN Points!Min({schedule[i + 1].at, e}) ELSE e
           seg(i) == [from |-> from(i), to |-> to(i),
                      type |-> IF i = 0 THEN Points!Unspecified ELSE schedule[i].type,
                      temp |-> IF i = 0 THEN 0 ELSE schedule[i].temp]
           segs == Points!Segments(schedule, s, e)
<1>1. /\ n \in Nat /\ DOMAIN schedule = 1..n
      /\ \A i \in 1..n : /\ schedule[i].at \in Nat /\ schedule[i].type \in 0..6
                         /\ schedule[i].temp \in 1..30
      /\ \A i, j \in 1..n : i < j => schedule[i].at < schedule[j].at
  BY EntryIs
<1>2. ASSUME NEW t \in Int
      PROVE  /\ Points!Started(schedule, t) \in 0..n
             /\ \A i \in 1..n : schedule[i].at <= t <=> i <= Points!Started(schedule, t)
  BY StartedIs
<1>3. p \in 1..n /\ \A i \in 1..n : schedule[i].at <= s <=> i <= p
  BY <1>1, <1>2
<1>4. q \in 0..n /\ \A i \in 1..n : schedule[i].at <= e - 1 <=> i <= q
  <2>1. e - 1 \in Int
    OBVIOUS
  <2> QED
    BY <1>2, <2>1
<1>q. Points!Cardinality({i \in DOMAIN schedule : schedule[i].at < e}) = q
  <2>1. e - 1 \in Int /\ (e - 1) + 1 = e
    OBVIOUS
  <2>2. Points!Cardinality({i \in DOMAIN schedule : schedule[i].at < (e - 1) + 1}) = q
    BY <2>1, StartedIs
  <2> QED
    BY <2>1, <2>2
<1> HIDE DEF n
<1>5. segs = {seg(i) : i \in p..(IF q > p THEN q ELSE p)}
  <2>1. segs = {seg(i) : i \in p..(IF Points!Cardinality({i \in DOMAIN schedule : schedule[i].at < e}) > p
                                   THEN Points!Cardinality({i \in DOMAIN schedule : schedule[i].at < e}) ELSE p)}
    BY DEF Points!Segments, n
  <2> HIDE DEF segs, seg, p, q
  <2> QED
    BY <2>1, <1>q
<1> HIDE DEF p, q, segs
<1>6. p <= q
  <2>1. schedule[p].at <= s /\ schedule[p].at \in Nat
    BY <1>1, <1>3
  <2>2. schedule[p].at <= e - 1
    BY <2>1
  <2> QED
    BY <1>3, <1>4, <2>2
<1>7. segs = {seg(i) : i \in p..q}
  <2>1. (IF q > p THEN q ELSE p) = q
    BY <1>3, <1>4, <1>6
  <2> HIDE DEF seg
  <2> QED
    BY <1>5, <2>1
<1>8. ASSUME NEW i \in p..q
      PROVE  /\ i \in 1..n /\ i # 0 /\ from(i) \in Nat /\ to(i) \in Nat
             /\ s <= from(i) /\ from(i) < to(i) /\ to(i) <= e
             /\ schedule[i].at <= from(i) /\ (i > p => from(i) = schedule[i].at)
             /\ (i < n => to(i) <= schedule[i + 1].at)
             /\ to(i) = e \/ (i < n /\ to(i) = schedule[i + 1].at)
             /\ i < q => (i < n /\ to(i) = schedule[i + 1].at)
  <2>1. i \in 1..n /\ i # 0
    BY <1>1, <1>3, <1>4
  <2>2. /\ from(i) \in Nat /\ s <= from(i) /\ from(i) < e
        /\ schedule[i].at <= from(i) /\ (i > p => from(i) = schedule[i].at)
    <3>1. schedule[i].at \in Nat /\ schedule[i].at <= e - 1
      BY <2>1, <1>1, <1>3, <1>4
    <3>2. CASE i = p
      BY <3>1, <3>2, <2>1, <1>3
    <3>3. CASE i # p
      <4>1. ~(schedule[i].at <= s) /\ from(i) = schedule[i].at
        BY <3>3, <2>1, <1>3, <1>4
      <4> QED
        BY <3>1, <3>3, <4>1
    <3> QED
      BY <3>2, <3>3
  <2> HIDE DEF from
  <2>3. CASE i < n
    <3> DEFINE a == schedule[i + 1].at
    <3>1. i + 1 \in 1..n /\ i < i + 1 /\ a \in Nat /\ schedule[i].at < a
      <4>1. i + 1 \in 1..n /\ i < i + 1
        BY <2>1, <2>3, <1>1
      <4> QED
        BY <4>1, <2>1, <1>1
    <3>2. s < a
      BY <3>1, <1>1, <1>3, <1>4
    <3>3. to(i) = Points!Min({a, e})
      BY <2>3
    <3>6. i < q => a <= e - 1
      <4>1. i < q => i + 1 <= q
        BY <1>3, <1>4
      <4> QED
        BY <4>1, <3>1, <1>4
    <3> HIDE DEF a
    <3>4. Points!Min({a, e}) = IF a <= e THEN a ELSE e
      BY <3>1 DEF Points!Min
    <3>5. from(i) < a
      <4>1. CASE i = p
        BY <4>1, <3>2 DEF from
      <4>2. CASE i > p
        BY <4>2, <2>2, <3>1
      <4> QED
        BY <4>1, <4>2, <1>3, <1>4
    <3> HIDE DEF to
    <3> QED
      BY <2>1, <2>2, <2>3, <3>1, <3>3, <3>4, <3>5, <3>6 DEF a
  <2>4. CASE ~(i < n)
    <3>1. to(i) = e /\ ~(i < q)
      BY <2>4, <1>4, <1>1, <2>1
    <3> HIDE DEF to
    <3> QED
      BY <3>1, <2>1, <2>2, <2>4
  <2> QED
    BY <2>3, <2>4
<1>9. ASSUME NEW i \in p..q, NEW t \in from(i)..(to(i) - 1)
      PROVE  t \in s..(e - 1) /\ t \in Int /\ Points!Started(schedule, t) = i
  <2> DEFINE k == Points!Started(schedule, t)
  <2>0. /\ i \in 1..n /\ from(i) \in Nat /\ to(i) \in Nat /\ s <= from(i) /\ to(i) <= e
        /\ schedule[i].at <= from(i) /\ (i < n => to(i) <= schedule[i + 1].at)
    BY <1>8
  <2> HIDE DEF from, to
  <2>1. t \in Int /\ from(i) <= t /\ t < to(i) /\ t \in s..(e - 1)
    BY <2>0
  <2>2. k \in 0..n /\ \A j \in 1..n : schedule[j].at <= t <=> j <= k
    BY <1>2, <2>1
  <2> HIDE DEF k
  <2>3. schedule[i].at \in Nat /\ schedule[i].at <= t
    <3>1. schedule[i].at \in Nat
      BY <2>0, <1>1
    <3> QED
      BY <3>1, <2>0, <2>1
  <2>4. i <= k
    BY <2>0, <2>2, <2>3
  <2>5. ASSUME i < k PROVE FALSE
    <3>1. i + 1 \in 1..n /\ i + 1 <= k /\ i < n
      BY <2>5, <2>0, <2>2, <1>1
    <3>2. schedule[i + 1].at <= t /\ schedule[i + 1].at \in Nat
      BY <3>1, <2>2, <1>1
    <3> QED
      BY <3>1, <3>2, <2>0, <2>1
  <2>6. k = i
    BY <2>0, <2>2, <2>4, <2>5
  <2> QED
    BY <2>1, <2>6 DEF k
<1>10. ASSUME NEW t \in s..(e - 1)
       PROVE  \E i \in p..q : t \in from(i)..(to(i) - 1)
  <2> DEFINE k == Points!Started(schedule, t)
  <2>1. t \in Int /\ s <= t /\ t <= e - 1
    OBVIOUS
  <2>2. k \in 0..n /\ \A j \in 1..n : schedule[j].at <= t <=> j <= k
    BY <1>2, <2>1
  <2> HIDE DEF k
  <2>3. p <= k
    <3>1. schedule[p].at <= s /\ schedule[p].at \in Nat
      BY <1>1, <1>3
    <3> QED
      BY <3>1, <2>1, <2>2, <1>3
  <2>4. k \in 1..n
    BY <2>2, <2>3, <1>3
  <2>5. schedule[k].at <= t /\ schedule[k].at \in Nat
    BY <2>2, <2>4, <1>1
  <2>6. k <= q
    BY <2>1, <2>4, <2>5, <1>4
  <2>7. k \in p..q
    BY <2>3, <2>4, <2>6, <1>3, <1>4
  <2>8. /\ from(k) \in Nat /\ to(k) \in Nat
        /\ (k > p => from(k) = schedule[k].at)
        /\ to(k) = e \/ (k < n /\ to(k) = schedule[k + 1].at)
    BY <2>7, <1>8
  <2>9. from(k) <= t
    <3>1. CASE k = p
      BY <3>1, <2>1
    <3>2. CASE k # p
      BY <3>2, <2>7, <2>8, <2>5, <1>3
    <3> QED
      BY <3>1, <3>2
  <2> HIDE DEF from, to
  <2>10. t < to(k)
    <3>1. CASE to(k) = e
      BY <3>1, <2>1
    <3>2. CASE k < n /\ to(k) = schedule[k + 1].at
      <4>1. k + 1 \in 1..n /\ ~(k + 1 <= k)
        BY <3>2, <2>4, <1>1
      <4>2. ~(schedule[k + 1].at <= t)
        BY <4>1, <2>2
      <4> QED
        BY <3>2, <4>2, <2>1, <2>8
    <3> QED
      BY <3>1, <3>2, <2>8
  <2>11. t \in from(k)..(to(k) - 1)
    BY <2>1, <2>8, <2>9, <2>10
  <2> QED
    BY <2>7, <2>11
<1>11. ASSUME NEW g \in segs
       PROVE  \E i \in p..q : /\ g = seg(i) /\ g.from = from(i) /\ g.to = to(i)
                              /\ g.type = schedule[i].type /\ g.temp = schedule[i].temp
                              /\ Span(g) = from(i)..(to(i) - 1)
  <2>1. PICK i \in p..q : g = seg(i)
    <3> HIDE DEF seg
    <3> QED
      BY <1>7
  <2>2. i # 0
    BY <1>8
  <2> HIDE DEF from, to
  <2>3. /\ g.from = from(i) /\ g.to = to(i)
        /\ g.type = schedule[i].type /\ g.temp = schedule[i].temp
    BY <2>1, <2>2
  <2> HIDE DEF seg
  <2> QED
    BY <2>1, <2>3 DEF Span
<1>12. IsFiniteSet(segs) /\ segs # {}
  <2> DEFINE f == [i \in p..q |-> seg(i)]
  <2> HIDE DEF seg
  <2>1. f \in Surjection(p..q, segs)
    BY <1>7 DEF Surjection
  <2>2. p \in Int /\ q \in Int
    BY <1>3, <1>4
  <2>3. IsFiniteSet(p..q)
    BY <2>2, FS_Interval
  <2> HIDE DEF f
  <2>4. IsFiniteSet(segs)
    BY <2>1, <2>3, FS_Surjection
  <2>5. p \in p..q
    BY <2>2, <1>6
  <2> QED
    BY <2>4, <2>5, <1>7
<1>13. ASSUME NEW g \in segs
       PROVE  /\ g.from \in Nat /\ g.to \in Nat /\ g.from < g.to
              /\ g.type \in 0..6 /\ g.temp \in 1..30
              /\ \A t \in Span(g) : /\ t \in s..(e - 1)
                                    /\ schedule[Points!InForce(t)].type = g.type
                                    /\ schedule[Points!InForce(t)].temp = g.temp
  <2>1. PICK i \in p..q : /\ g.from = from(i) /\ g.to = to(i)
                          /\ g.type = schedule[i].type /\ g.temp = schedule[i].temp
                          /\ Span(g) = from(i)..(to(i) - 1)
    BY <1>11
  <2>2. /\ i \in 1..n /\ from(i) \in Nat /\ to(i) \in Nat /\ from(i) < to(i)
    BY <1>8
  <2> HIDE DEF from, to
  <2>3. schedule[i].type \in 0..6 /\ schedule[i].temp \in 1..30
    BY <2>2, <1>1
  <2>4. ASSUME NEW t \in Span(g)
        PROVE  t \in s..(e - 1) /\ Points!InForce(t) = i
    <3>1. t \in s..(e - 1) /\ t \in Int /\ Points!Started(schedule, t) = i
      BY <2>1, <1>9
    <3>2. Points!Started(schedule, t) > 0
      BY <3>1, <2>2
    <3> QED
      BY <3>1, <3>2, InForceIs
  <2> QED
    BY <2>1, <2>2, <2>3, <2>4
<1>14. \A t \in s..(e - 1) : \E g \in segs : t \in Span(g)
  <2>1. SUFFICES ASSUME NEW t \in s..(e - 1) PROVE \E g \in segs : t \in Span(g)
    OBVIOUS
  <2>2. PICK i \in p..q : t \in from(i)..(to(i) - 1)
    BY <1>10
  <2> HIDE DEF from, to
  <2>3. Span(seg(i)) = from(i)..(to(i) - 1)
    BY DEF Span
  <2> HIDE DEF seg
  <2>4. seg(i) \in segs
    BY <1>7
  <2> QED
    BY <2>2, <2>3, <2>4
<1>15. ASSUME NEW g \in segs, NEW h \in segs, g # h PROVE Span(g) \cap Span(h) = {}
  <2>1. PICK i \in p..q : g = seg(i) /\ Span(g) = from(i)..(to(i) - 1)
    BY <1>11
  <2>2. PICK j \in p..q : h = seg(j) /\ Span(h) = from(j)..(to(j) - 1)
    BY <1>11
  <2> HIDE DEF seg, from, to
  <2>3. i # j
    BY <2>1, <2>2, <1>15
  <2>4. ASSUME NEW t \in Span(g), t \in Span(h) PROVE FALSE
    <3>1. Points!Started(schedule, t) = i
      BY <2>1, <1>9
    <3>2. Points!Started(schedule, t) = j
      BY <2>2, <2>4, <1>9
    <3> QED
      BY <3>1, <3>2, <2>3
  <2> QED
    BY <2>4
<1> HIDE DEF seg, from, to
<1> QED
  BY <1>12, <1>13, <1>14, <1>15 DEF segs

\* A bucket of a forecast: an entry is in force at its start.
Bucket(s, e) ==
    /\ InOrder(schedule)
    /\ s \in Nat /\ e \in Nat /\ s < e /\ Points!Started(schedule, s) > 0

\* Its instants with one of some types.
Held(s, e, T) == {t \in s..(e - 1) : schedule[Points!InForce(t)].type \in T}

\* The number of instants from one to another.
LEMMA InstantsBetween ==
    ASSUME NEW a \in Nat, NEW b \in Nat, a < b
    PROVE  IsFiniteSet(a..(b - 1)) /\ Cardinality(a..(b - 1)) = b - a
<1> DEFINE c == b - 1
<1>1. c \in Int /\ ~(a > c) /\ c - a + 1 = b - a
  OBVIOUS
<1> HIDE DEF c
<1>2. IsFiniteSet(a..c) /\ Cardinality(a..c) = c - a + 1
  BY <1>1, FS_Interval
<1> QED
  BY <1>1, <1>2 DEF c

\* The time that parts of the walk take is the number of their instants.
LEMMA DurationCounts ==
    ASSUME NEW s, NEW e, Bucket(s, e), NEW S \in SUBSET Points!Segments(schedule, s, e)
    PROVE  Points!Duration(S) = Cardinality(UNION {Span(g) : g \in S})
<1> DEFINE segs == Points!Segments(schedule, s, e)
           w == [g \in S |-> Points!Length(g)]
           B == [g \in S |-> Span(g)]
<1>1. /\ IsFiniteSet(segs)
      /\ \A g \in segs : g.from \in Nat /\ g.to \in Nat /\ g.from < g.to
      /\ \A g, h \in segs : g # h => Span(g) \cap Span(h) = {}
  BY SegmentsAre DEF Bucket
<1>2. IsFiniteSet(S)
  BY <1>1, FS_Subset
<1>3. ASSUME NEW g \in S PROVE IsFiniteSet(B[g]) /\ Cardinality(B[g]) = w[g]
  <2>1. g.from \in Nat /\ g.to \in Nat /\ g.from < g.to
    BY <1>1
  <2>2. /\ IsFiniteSet(g.from..(g.to - 1))
        /\ Cardinality(g.from..(g.to - 1)) = g.to - g.from
    BY <2>1, InstantsBetween
  <2>3. B[g] = g.from..(g.to - 1) /\ w[g] = g.to - g.from
    BY DEF Span, Points!Length
  <2> QED
    BY <2>2, <2>3
<1>4. \A x, y \in S : x # y => B[x] \cap B[y] = {}
  BY <1>1
<1>5. DOMAIN w = S
  OBVIOUS
<1>6. {B[g] : g \in S} = {Span(g) : g \in S}
  OBVIOUS
<1>7. Points!Duration(S) = Points!SumFunction(w)
  BY DEF Points!Duration
<1> HIDE DEF w, B, segs
<1>8. Points!SumFunction(w) = Cardinality(UNION {B[g] : g \in S})
  BY <1>2, <1>3, <1>4, <1>5, SumCounts
<1> QED
  BY <1>6, <1>7, <1>8

\* So the time with one of some types is the number of instants that have one.
LEMMA HeldIs ==
    ASSUME NEW s, NEW e, Bucket(s, e), NEW T
    PROVE  /\ Points!Duration({g \in Points!Segments(schedule, s, e) : g.type \in T})
                = Cardinality(Held(s, e, T))
           /\ IsFiniteSet(Held(s, e, T)) /\ Cardinality(Held(s, e, T)) \in 0..(e - s)
<1> DEFINE segs == Points!Segments(schedule, s, e)
           S == {g \in segs : g.type \in T}
<1>1. /\ \A g \in segs : \A t \in Span(g) :
            t \in s..(e - 1) /\ schedule[Points!InForce(t)].type = g.type
      /\ \A t \in s..(e - 1) : \E g \in segs : t \in Span(g)
  BY SegmentsAre DEF Bucket
<1> HIDE DEF segs
<1>2. UNION {Span(g) : g \in S} = Held(s, e, T)
  <2>1. ASSUME NEW t \in UNION {Span(g) : g \in S} PROVE t \in Held(s, e, T)
    BY <1>1 DEF Held
  <2>2. ASSUME NEW t \in Held(s, e, T) PROVE t \in UNION {Span(g) : g \in S}
    <3>1. PICK g \in segs : t \in Span(g)
      BY <1>1 DEF Held
    <3>2. g.type \in T
      BY <1>1, <3>1 DEF Held
    <3> QED
      BY <3>1, <3>2
  <2> QED
    BY <2>1, <2>2
<1>3. S \in SUBSET segs
  OBVIOUS
<1>4. Points!Duration(S) = Cardinality(UNION {Span(g) : g \in S})
  <2> HIDE DEF S
  <2> QED
    BY <1>3, DurationCounts DEF segs
<1>5. s \in Nat /\ e \in Nat /\ s < e
  BY DEF Bucket
<1>6. IsFiniteSet(s..(e - 1)) /\ Cardinality(s..(e - 1)) = e - s
  BY <1>5, InstantsBetween
<1>7. Held(s, e, T) \in SUBSET (s..(e - 1))
  BY DEF Held
<1>8. IsFiniteSet(Held(s, e, T)) /\ Cardinality(Held(s, e, T)) <= e - s
  BY <1>6, <1>7, FS_Subset
<1>9. Cardinality(Held(s, e, T)) \in Nat
  BY <1>8, FS_CardinalityType
<1>10. Cardinality(Held(s, e, T)) \in 0..(e - s)
  BY <1>5, <1>8, <1>9
<1>11. Points!Duration(S) = Cardinality(Held(s, e, T))
  BY <1>2, <1>4
<1> QED
  BY <1>8, <1>10, <1>11 DEF segs

\* rain_probability_for_window.
LEMMA RainIs ==
    ASSUME NEW s, NEW e, Bucket(s, e)
    PROVE  Points!rain_ms(schedule, s, e) = Cardinality(Held(s, e, {4, 5, 6}))
<1>1. Points!rain_ms(schedule, s, e)
        = Points!Duration({g \in Points!Segments(schedule, s, e) : g.type \in {4, 5, 6}})
  BY DEF Points!rain_ms, Points!is_rain_type, Points!LightRain, Points!MediumRain,
         Points!HeavyRain
<1> QED
  BY <1>1, HeldIs

\* The least of a set of naturals.
LEMMA MinIs ==
    ASSUME NEW T \in SUBSET Nat, T # {}
    PROVE  Points!Min(T) \in T /\ \A y \in T : Points!Min(T) <= y
BY LeastNatural DEF Points!Min

\* The first part with a type begins at the first instant with it.
LEMMA FirstIs ==
    ASSUME NEW s, NEW e, Bucket(s, e), NEW u,
           \E g \in Points!Segments(schedule, s, e) : g.type = u
    PROVE  /\ Held(s, e, {u}) # {} /\ Held(s, e, {u}) \in SUBSET Nat
           /\ Points!Min({g.from : g \in {h \in Points!Segments(schedule, s, e) : h.type = u}})
                = Points!Min(Held(s, e, {u}))
           /\ Points!Min(Held(s, e, {u})) \in Held(s, e, {u})
<1> DEFINE segs == Points!Segments(schedule, s, e)
           F == {g.from : g \in {h \in segs : h.type = u}}
           H == Held(s, e, {u})
<1>1. /\ \A g \in segs : /\ g.from \in Nat /\ g.to \in Nat /\ g.from < g.to
                         /\ \A t \in Span(g) :
                               t \in s..(e - 1) /\ schedule[Points!InForce(t)].type = g.type
      /\ \A t \in s..(e - 1) : \E g \in segs : t \in Span(g)
  BY SegmentsAre DEF Bucket
<1>2. s \in Nat /\ e \in Nat
  BY DEF Bucket
<1>3. \E g \in segs : g.type = u
  OBVIOUS
<1> HIDE DEF segs
<1>4. F \in SUBSET Nat /\ F # {}
  BY <1>1, <1>3
<1>5. F \subseteq H
  <2>1. SUFFICES ASSUME NEW g \in segs, g.type = u PROVE g.from \in H
    OBVIOUS
  <2>2. g.from \in Span(g)
    <3>1. g.from \in Nat /\ g.to \in Nat /\ g.from < g.to
      BY <1>1
    <3>2. g.from \in g.from..(g.to - 1)
      BY <3>1
    <3> QED
      BY <3>2 DEF Span
  <2> QED
    BY <2>1, <2>2, <1>1 DEF Held
<1>6. ASSUME NEW t \in H PROVE t \in Nat /\ \E x \in F : x <= t
  <2>1. t \in s..(e - 1) /\ schedule[Points!InForce(t)].type = u
    BY DEF Held
  <2>2. PICK g \in segs : t \in Span(g)
    BY <1>1, <2>1
  <2>3. g.type = u
    BY <1>1, <2>1, <2>2
  <2>4. g.from \in Nat /\ g.from <= t
    BY <1>1, <2>2 DEF Span
  <2> QED
    BY <2>1, <2>3, <2>4, <1>2
<1>7. H \in SUBSET Nat /\ H # {}
  BY <1>4, <1>5, <1>6
<1> HIDE DEF F, H
<1>8. Points!Min(F) \in F /\ \A y \in F : Points!Min(F) <= y
  BY <1>4, MinIs
<1>9. Points!Min(H) \in H /\ \A y \in H : Points!Min(H) <= y
  BY <1>7, MinIs
<1>10. PICK x \in F : x <= Points!Min(H)
  BY <1>9, <1>6
<1>11. Points!Min(H) <= Points!Min(F) /\ Points!Min(F) <= x
  BY <1>5, <1>8, <1>9
<1>12. Points!Min(F) \in Nat /\ Points!Min(H) \in Nat /\ x \in Nat
  BY <1>4, <1>7, <1>8, <1>9
<1>13. Points!Min(F) = Points!Min(H)
  BY <1>10, <1>11, <1>12
<1> QED
  BY <1>7, <1>9, <1>13 DEF F, H, segs

\* A type is ahead of another when more instants have it, or as many and an earlier one.
Before(s, e, t, u) ==
    \/ Cardinality(Held(s, e, {t})) > Cardinality(Held(s, e, {u}))
    \/ /\ Cardinality(Held(s, e, {t})) = Cardinality(Held(s, e, {u}))
       /\ Points!Min(Held(s, e, {t})) < Points!Min(Held(s, e, {u}))

\* dominant_weather_type_for_window: one type of a bucket is ahead of all others.
LEMMA DominantIs ==
    ASSUME NEW s, NEW e, Bucket(s, e)
    PROVE  LET d == Points!dominant(schedule, s, e)
           IN  /\ d \in 0..6 /\ Held(s, e, {d}) # {}
               /\ \A u \in (0..6) \ {d} : Before(s, e, d, u)
<1> DEFINE segs == Points!Segments(schedule, s, e)
           types == {g.type : g \in segs}
           dur == [t \in types |-> Points!Duration({g \in segs : g.type = t})]
           first == [t \in types |-> Points!Min({g.from : g \in {h \in segs : h.type = t}})]
           N(u) == Cardinality(Held(s, e, {u}))
           M(u) == Points!Min(Held(s, e, {u}))
<1>0. s \in Nat /\ e \in Nat /\ s < e
  BY DEF Bucket
<1>1. /\ segs # {}
      /\ \A g \in segs : /\ g.type \in 0..6
                         /\ \A t \in Span(g) : schedule[Points!InForce(t)].type = g.type
      /\ \A t \in s..(e - 1) : \E g \in segs : t \in Span(g)
  BY SegmentsAre DEF Bucket
<1>2. ASSUME NEW u
      PROVE  /\ Points!Duration({g \in segs : g.type = u}) = N(u)
             /\ N(u) \in 0..(e - s) /\ IsFiniteSet(Held(s, e, {u}))
  <2>1. {g \in segs : g.type = u} = {g \in segs : g.type \in {u}}
    OBVIOUS
  <2>2. /\ Points!Duration({g \in segs : g.type \in {u}}) = N(u)
        /\ N(u) \in 0..(e - s) /\ IsFiniteSet(Held(s, e, {u}))
    BY HeldIs
  <2> HIDE DEF segs, N
  <2> QED
    BY <2>1, <2>2
<1>3. ASSUME NEW u \in types
      PROVE  /\ Held(s, e, {u}) # {} /\ M(u) \in Nat /\ M(u) \in Held(s, e, {u})
             /\ Points!Min({g.from : g \in {h \in segs : h.type = u}}) = M(u)
  <2>1. \E g \in Points!Segments(schedule, s, e) : g.type = u
    OBVIOUS
  <2>2. /\ Held(s, e, {u}) # {} /\ Held(s, e, {u}) \in SUBSET Nat
        /\ Points!Min({g.from : g \in {h \in Points!Segments(schedule, s, e) : h.type = u}})
             = Points!Min(Held(s, e, {u}))
        /\ Points!Min(Held(s, e, {u})) \in Held(s, e, {u})
    BY <2>1, FirstIs
  <2> QED
    BY <2>2
<1>4. ASSUME NEW u, u \notin types PROVE Held(s, e, {u}) = {}
  <2>1. SUFFICES ASSUME NEW t \in Held(s, e, {u}) PROVE FALSE
    OBVIOUS
  <2>2. t \in s..(e - 1) /\ schedule[Points!InForce(t)].type = u
    BY DEF Held
  <2> HIDE DEF segs
  <2>3. PICK g \in segs : t \in Span(g)
    BY <1>1, <2>2
  <2> QED
    BY <1>1, <1>4, <2>2, <2>3
<1>5. types # {} /\ types \subseteq 0..6
  <2> HIDE DEF segs
  <2> QED
    BY <1>1
<1>6. \A u \in types : dur[u] = N(u) /\ first[u] = M(u)
  <2> HIDE DEF segs, N, M
  <2> QED
    BY <1>2, <1>3
<1>7. Points!dominant(schedule, s, e)
        = CHOOSE t \in types : \A u \in types \ {t} :
              dur[t] > dur[u] \/ (dur[t] = dur[u] /\ first[t] < first[u])
  BY DEF Points!dominant
<1>8. ASSUME NEW u \in types, NEW v \in types, u # v PROVE M(u) # M(v)
  <2>1. M(u) \in Held(s, e, {u}) /\ M(v) \in Held(s, e, {v})
    BY <1>3
  <2> HIDE DEF M
  <2> QED
    BY <2>1, <1>8 DEF Held
<1> HIDE DEF segs, types, dur, first, N, M
<1>9. \E t \in types : \A u \in types \ {t} : N(t) > N(u) \/ (N(t) = N(u) /\ M(t) < M(u))
  <2> DEFINE D == {(e - s) - N(u) : u \in types}
  <2>0. \A u \in types : N(u) \in Nat /\ (e - s) - N(u) \in Nat /\ M(u) \in Nat
    <3>1. SUFFICES ASSUME NEW u \in types
                   PROVE  N(u) \in Nat /\ (e - s) - N(u) \in Nat /\ M(u) \in Nat
      OBVIOUS
    <3>2. N(u) \in 0..(e - s) /\ M(u) \in Nat
      BY <1>2, <1>3
    <3> QED
      BY <3>2, <1>0
  <2>1. D \in SUBSET Nat /\ D # {}
    BY <1>5, <2>0
  <2>2. PICK k \in D : \A l \in D : k <= l
    <3> HIDE DEF D
    <3> QED
      BY <2>1, LeastNatural
  <2>3. PICK a \in types : k = (e - s) - N(a)
    BY <2>2
  <2>4. ASSUME NEW u \in types PROVE N(u) <= N(a)
    <3>1. (e - s) - N(u) \in D
      OBVIOUS
    <3> HIDE DEF D
    <3>2. (e - s) - N(a) <= (e - s) - N(u)
      BY <2>2, <2>3, <3>1
    <3> QED
      BY <3>2, <2>0, <1>0
  <2> DEFINE top == {u \in types : N(u) = N(a)}
             F == {M(u) : u \in top}
  <2>5. F \in SUBSET Nat /\ F # {}
    BY <2>0
  <2>6. PICK f \in F : \A l \in F : f <= l
    <3> HIDE DEF F
    <3> QED
      BY <2>5, LeastNatural
  <2>7. PICK t \in top : f = M(t)
    BY <2>6
  <2>8. ASSUME NEW u \in types \ {t} PROVE N(t) > N(u) \/ (N(t) = N(u) /\ M(t) < M(u))
    <3>1. t \in types /\ N(t) = N(a) /\ N(u) <= N(a) /\ N(u) \in Nat /\ N(a) \in Nat
      BY <2>0, <2>4
    <3>2. CASE N(u) = N(a)
      <4>1. M(u) \in F
        BY <3>2
      <4>2. M(t) <= M(u) /\ M(t) # M(u) /\ M(t) \in Nat /\ M(u) \in Nat
        <5> HIDE DEF F
        <5> QED
          BY <4>1, <2>6, <2>7, <2>0, <1>8, <3>1
      <4> QED
        BY <3>1, <3>2, <4>2
    <3>3. CASE N(u) # N(a)
      BY <3>1, <3>3
    <3> QED
      BY <3>2, <3>3
  <2> QED
    BY <2>8
<1>10. \E t \in types : \A u \in types \ {t} :
           dur[t] > dur[u] \/ (dur[t] = dur[u] /\ first[t] < first[u])
  BY <1>6, <1>9
<1> DEFINE d == Points!dominant(schedule, s, e)
<1>11. d \in types /\ \A u \in types \ {d} :
           dur[d] > dur[u] \/ (dur[d] = dur[u] /\ first[d] < first[u])
  BY <1>7, <1>10
<1> HIDE DEF d
<1>12. \A u \in types \ {d} : N(d) > N(u) \/ (N(d) = N(u) /\ M(d) < M(u))
  BY <1>6, <1>11
<1>13. ASSUME NEW u \in (0..6) \ {d} PROVE Before(s, e, d, u)
  <2>1. CASE u \in types
    BY <2>1, <1>12 DEF Before, N, M
  <2>2. CASE u \notin types
    <3>1. N(u) = 0
      <4>1. Cardinality({}) = 0
        BY FS_EmptySet
      <4> QED
        BY <2>2, <1>4, <4>1 DEF N
    <3>2. N(d) > 0
      <4>1. Held(s, e, {d}) # {} /\ IsFiniteSet(Held(s, e, {d}))
        BY <1>2, <1>3, <1>11
      <4>2. Cardinality(Held(s, e, {d})) # 0
        BY <4>1, FS_EmptySet
      <4>3. N(d) \in 0..(e - s)
        BY <1>2
      <4> QED
        BY <4>2, <4>3, <1>0 DEF N
    <3> QED
      BY <3>1, <3>2 DEF Before, N
  <2> QED
    BY <2>1, <2>2
<1>14. d \in 0..6 /\ Held(s, e, {d}) # {}
  BY <1>3, <1>5, <1>11
<1> QED
  BY <1>13, <1>14 DEF d

\* Rounding to the nearest whole number, between two bounds that hold.
LEMMA RoundedIs ==
    ASSUME NEW w \in Nat, NEW l \in Nat, l > 0, l <= w, w <= 30 * l
    PROVE  LET c == Points!clamp_temperature((2 * w + l) \div (2 * l))
           IN  c \in Nat /\ 2 * w - l <= 2 * l * c /\ 2 * l * c <= 2 * w + l
<1> DEFINE a == 2 * w + l
           b == 2 * l
           q == a \div b
<1>1. a \in Nat /\ b \in Nat /\ b > 0
  OBVIOUS
<1>2. q \in Int /\ b * q <= a /\ a < b * q + b
  <2> HIDE DEF a, b
  <2> QED
    BY <1>1
<1> HIDE DEF q
<1>3. q >= 1
  <2>1. SUFFICES ASSUME q <= 0 PROVE FALSE
    BY <1>2
  <2>2. b * q <= 0
    <3> HIDE DEF b
    <3> QED
      BY <1>1, <1>2, <2>1
  <2>3. b * q \in Int
    BY <1>1, <1>2
  <2> HIDE DEF q
  <2>4. 3 * l <= a
    OBVIOUS
  <2> QED
    BY <1>2, <2>2, <2>3, <2>4
<1>4. q <= 30
  <2>1. SUFFICES ASSUME q >= 31 PROVE FALSE
    BY <1>2
  <2>2. b * q >= b * 31
    <3> HIDE DEF b
    <3>1. q - 31 \in Nat
      BY <1>2, <2>1
    <3>2. b * (q - 31) >= 0 /\ b * (q - 31) = b * q - b * 31
      BY <3>1, <1>1, <1>2
    <3>3. b * q \in Int /\ b * 31 \in Int
      BY <1>1, <1>2
    <3> QED
      BY <3>2, <3>3
  <2>3. b * 31 = 62 * l /\ a <= 61 * l /\ b * q \in Int
    BY <1>1, <1>2
  <2> QED
    BY <1>1, <1>2, <2>2, <2>3
<1>5. Points!clamp_temperature(q) = q
  BY <1>2, <1>3, <1>4 DEF Points!clamp_temperature
<1>6. 2 * w - l <= b * q /\ b * q <= 2 * w + l
  <2>1. b * q \in Int
    BY <1>1, <1>2
  <2> QED
    BY <1>2, <2>1
<1>7. q \in Nat
  BY <1>2, <1>3
<1> QED
  BY <1>5, <1>6, <1>7 DEF q

\* Pairing each element of a set with each of the first n numbers.
LEMMA PairsCount ==
    ASSUME NEW S, IsFiniteSet(S), NEW n \in Nat
    PROVE  /\ IsFiniteSet(S \X (1..n)) /\ Cardinality(S \X (1..n)) = Cardinality(S) * n
           /\ Cardinality(S) \in Nat
<1> DEFINE T == 1..n
<1>1. IsFiniteSet(T) /\ Cardinality(T) = IF 1 > n THEN 0 ELSE n - 1 + 1
  BY FS_Interval
<1> HIDE DEF T
<1>2. Cardinality(T) = n
  BY <1>1
<1>3. IsFiniteSet(S \X T) /\ Cardinality(S \X T) = Cardinality(S) * Cardinality(T)
  BY <1>1, FS_Product
<1>4. Cardinality(S) \in Nat
  BY FS_CardinalityType
<1> QED
  BY <1>2, <1>3, <1>4 DEF T

\* The temperatures of the walk, weighted by its parts, count the degrees of all instants.
LEMMA WeightedCounts ==
    ASSUME NEW s, NEW e, Bucket(s, e), NEW S, S = Points!Segments(schedule, s, e)
    PROVE  Points!SumFunction([g \in S |-> g.temp * Points!Length(g)])
             = Cardinality(UNION {Span(g) \X (1..g.temp) : g \in S})
<1> DEFINE w == [g \in S |-> g.temp * Points!Length(g)]
           B == [g \in S |-> Span(g) \X (1..g.temp)]
<1>1. /\ IsFiniteSet(S)
      /\ \A g \in S : g.from \in Nat /\ g.to \in Nat /\ g.from < g.to /\ g.temp \in 1..30
      /\ \A g, h \in S : g # h => Span(g) \cap Span(h) = {}
  BY SegmentsAre DEF Bucket
<1>2. ASSUME NEW g \in S PROVE IsFiniteSet(B[g]) /\ Cardinality(B[g]) = w[g]
  <2>1. g.from \in Nat /\ g.to \in Nat /\ g.from < g.to /\ g.temp \in 1..30
    BY <1>1
  <2>2. IsFiniteSet(Span(g)) /\ Cardinality(Span(g)) = g.to - g.from
    BY <2>1, InstantsBetween DEF Span
  <2>3. g.temp \in Nat
    BY <2>1
  <2>4. /\ IsFiniteSet(Span(g) \X (1..g.temp))
        /\ Cardinality(Span(g) \X (1..g.temp)) = (g.to - g.from) * g.temp
    <3> DEFINE X == Span(g)
               n == g.temp
    <3> HIDE DEF X, n
    <3>1. IsFiniteSet(X \X (1..n)) /\ Cardinality(X \X (1..n)) = Cardinality(X) * n
      BY <2>2, <2>3, PairsCount DEF X, n
    <3> QED
      BY <3>1, <2>2 DEF X, n
  <2>5. (g.to - g.from) * g.temp = g.temp * (g.to - g.from)
    BY <2>1
  <2>6. B[g] = Span(g) \X (1..g.temp) /\ w[g] = g.temp * (g.to - g.from)
    BY DEF Points!Length
  <2> QED
    BY <2>4, <2>5, <2>6
<1>3. \A x, y \in S : x # y => B[x] \cap B[y] = {}
  <2>1. SUFFICES ASSUME NEW x \in S, NEW y \in S, x # y,
                        NEW z \in Span(x) \X (1..x.temp), z \in Span(y) \X (1..y.temp)
                 PROVE  FALSE
    OBVIOUS
  <2>2. z[1] \in Span(x) /\ z[1] \in Span(y)
    BY <2>1
  <2> QED
    BY <2>1, <2>2, <1>1
<1>4. DOMAIN w = S
  OBVIOUS
<1>5. {B[g] : g \in S} = {Span(g) \X (1..g.temp) : g \in S}
  OBVIOUS
<1> HIDE DEF w, B
<1>6. Points!SumFunction(w) = Cardinality(UNION {B[g] : g \in S})
  <2>1. IsFiniteSet(S)
    BY <1>1
  <2>2. \A x \in S : IsFiniteSet(B[x]) /\ Cardinality(B[x]) = w[x]
    BY <1>2
  <2> QED
    BY <2>1, <2>2, <1>3, <1>4, SumCounts
<1> QED
  BY <1>5, <1>6 DEF w

\* average_temperature_c_for_window: the mean of the temperatures of the instants, each
\* counted by as many pairs as it has degrees.
LEMMA AverageIs ==
    ASSUME NEW s, NEW e, Bucket(s, e)
    PROVE  LET sum == Points!SumFunction([t \in s..(e - 1) |->
                                             schedule[Points!InForce(t)].temp])
               len == e - s
               c == Points!average_temperature(schedule, s, e)
           IN  2 * sum - len <= 2 * len * c /\ 2 * len * c <= 2 * sum + len
<1> DEFINE segs == Points!Segments(schedule, s, e)
           inst == s..(e - 1)
           temp(t) == schedule[Points!InForce(t)].temp
           wg == [g \in segs |-> g.temp * Points!Length(g)]
           wt == [t \in inst |-> temp(t)]
           Bg == [g \in segs |-> Span(g) \X (1..g.temp)]
           Bt == [t \in inst |-> {t} \X (1..temp(t))]
           Ug == UNION {Bg[g] : g \in segs}
           Ut == UNION {Bt[t] : t \in inst}
           len == e - s
           weighted == Points!SumFunction(wg)
           sum == Points!SumFunction(wt)
<1>0. s \in Nat /\ e \in Nat /\ s < e
  BY DEF Bucket
<1>1. /\ IsFiniteSet(segs)
      /\ \A g \in segs : /\ g.from \in Nat /\ g.to \in Nat /\ g.from < g.to
                         /\ g.temp \in 1..30
                         /\ \A t \in Span(g) : t \in inst /\ temp(t) = g.temp
      /\ \A t \in inst : \E g \in segs : t \in Span(g)
      /\ \A g, h \in segs : g # h => Span(g) \cap Span(h) = {}
  BY SegmentsAre DEF Bucket
<1>2. IsFiniteSet(inst) /\ Cardinality(inst) = len
  BY <1>0, InstantsBetween
<1>a. Points!average_temperature(schedule, s, e)
        = Points!clamp_temperature((2 * weighted + len) \div (2 * len))
  BY DEF Points!average_temperature
<1> HIDE DEF segs, temp
<1>3. \A t \in inst : temp(t) \in 1..30
  BY <1>1
<1>4. weighted = Cardinality(Ug)
  <2>1. {Bg[g] : g \in segs} = {Span(g) \X (1..g.temp) : g \in segs}
    OBVIOUS
  <2> QED
    BY <2>1, WeightedCounts DEF segs
<1>5. sum = Cardinality(Ut)
  <2>1. ASSUME NEW t \in inst PROVE IsFiniteSet(Bt[t]) /\ Cardinality(Bt[t]) = wt[t]
    <3>1. temp(t) \in 1..30
      BY <1>3
    <3>2. IsFiniteSet({t}) /\ Cardinality({t}) = 1
      BY FS_Singleton
    <3>3. temp(t) \in Nat
      BY <3>1
    <3>4. /\ IsFiniteSet({t} \X (1..temp(t)))
          /\ Cardinality({t} \X (1..temp(t))) = 1 * temp(t)
      <4> DEFINE X == {t}
                 n == temp(t)
      <4>0. IsFiniteSet(X) /\ Cardinality(X) = 1 /\ n \in Nat
        BY <3>2, <3>3
      <4> HIDE DEF X, n
      <4>1. IsFiniteSet(X \X (1..n)) /\ Cardinality(X \X (1..n)) = Cardinality(X) * n
        BY <4>0, PairsCount
      <4> QED
        BY <4>0, <4>1 DEF X, n
    <3>5. 1 * temp(t) = temp(t)
      BY <3>1
    <3>6. Bt[t] = {t} \X (1..temp(t)) /\ wt[t] = temp(t)
      OBVIOUS
    <3> QED
      BY <3>4, <3>5, <3>6
  <2>2. \A x, y \in inst : x # y => Bt[x] \cap Bt[y] = {}
    OBVIOUS
  <2>3. DOMAIN wt = inst
    OBVIOUS
  <2> HIDE DEF wt, Bt, inst
  <2> QED
    BY <2>1, <2>2, <2>3, <1>2, SumCounts
<1>6. Ug = Ut
  <2>1. ASSUME NEW z \in Ug PROVE z \in Ut
    <3>1. PICK g \in segs : z \in Span(g) \X (1..g.temp)
      OBVIOUS
    <3>2. z[1] \in inst /\ temp(z[1]) = g.temp /\ z[2] \in 1..g.temp /\ z = <<z[1], z[2]>>
      BY <3>1, <1>1
    <3>3. z \in {z[1]} \X (1..temp(z[1]))
      BY <3>2
    <3> QED
      BY <3>2, <3>3
  <2>2. ASSUME NEW z \in Ut PROVE z \in Ug
    <3>1. PICK t \in inst : z \in {t} \X (1..temp(t))
      OBVIOUS
    <3>2. PICK g \in segs : t \in Span(g)
      BY <1>1
    <3>3. temp(t) = g.temp
      BY <1>1, <3>2
    <3>4. z \in Span(g) \X (1..g.temp)
      BY <3>1, <3>2, <3>3
    <3> QED
      BY <3>4
  <2> QED
    BY <2>1, <2>2
<1>7. /\ len \in Nat /\ len > 0 /\ Cardinality(Ut) \in Nat
      /\ len <= Cardinality(Ut) /\ Cardinality(Ut) <= 30 * len
  <2>0. len \in Nat /\ len > 0
    BY <1>0
  <2> DEFINE most == inst \X (1..30)
             least == inst \X (1..1)
  <2>1. Ut \in SUBSET most
    <3>1. ASSUME NEW t \in inst PROVE {t} \X (1..temp(t)) \subseteq most
      BY <1>3
    <3> HIDE DEF most, inst
    <3> QED
      BY <3>1
  <2>2. least \in SUBSET Ut
    <3>1. SUFFICES ASSUME NEW z \in least PROVE z \in Ut
      OBVIOUS
    <3>2. z[1] \in inst /\ z[2] = 1 /\ z = <<z[1], z[2]>>
      OBVIOUS
    <3>3. z[2] \in 1..temp(z[1])
      BY <3>2, <1>3
    <3>4. z \in {z[1]} \X (1..temp(z[1]))
      BY <3>2, <3>3
    <3> QED
      BY <3>2, <3>4
  <2>3. /\ IsFiniteSet(most) /\ Cardinality(most) = len * 30
        /\ IsFiniteSet(least) /\ Cardinality(least) = len * 1
    <3> HIDE DEF inst, len
    <3> QED
      BY <1>2, PairsCount
  <2> HIDE DEF most, least, Ut
  <2>7. IsFiniteSet(Ut) /\ Cardinality(Ut) <= Cardinality(most)
    BY <2>1, <2>3, FS_Subset
  <2>8. Cardinality(least) <= Cardinality(Ut)
    BY <2>2, <2>7, FS_Subset
  <2>9. Cardinality(Ut) \in Nat
    BY <2>7, FS_CardinalityType
  <2> HIDE DEF len
  <2> QED
    BY <2>0, <2>3, <2>7, <2>8, <2>9
<1> DEFINE c == Points!average_temperature(schedule, s, e)
<1>8. weighted \in Nat /\ sum = weighted /\ len <= weighted /\ weighted <= 30 * len
  BY <1>4, <1>5, <1>6, <1>7
<1> HIDE DEF weighted, sum, len, Ut, Ug
<1>9. 2 * weighted - len <= 2 * len * c /\ 2 * len * c <= 2 * weighted + len
  BY <1>7, <1>8, <1>a, RoundedIs
<1> QED
  BY <1>8, <1>9 DEF sum, len, temp

\* project_forecast and the ends of the buckets: each point begins a bucket, and a
\* bucket ends no later than the next point.
LEMMA TimesAre ==
    ASSUME PointsInv
    PROVE  LET times == Points!project_forecast(schedule, start)
           IN  /\ times \in SUBSET Nat
               /\ \A t \in times :
                    /\ t <= start + Horizon
                    /\ Bucket(t, Points!BucketEnd(times, t))
                    /\ \A u \in times : t < u =>
                         /\ Points!BucketEnd(times, t) <= u
                         /\ (\A z \in times : z <= t \/ z >= u) =>
                               Points!BucketEnd(times, t) = u
<1> DEFINE times == Points!project_forecast(schedule, start)
           na == Points!NextAligned(start)
<1>0. start \in Nat /\ InOrder(schedule) /\ Step \in Nat /\ Step # 0 /\ Horizon \in Nat
  BY PointsConstants DEF PointsInv
<1>1. na \in Nat
  <2>1. start % Step \in 0..(Step - 1)
    BY <1>0
  <2> QED
    BY <1>0, <2>1 DEF Points!NextAligned
<1>2. times = {t \in {start} \cup {u \in na..(start + Horizon) : (u - na) % Step = 0} :
                  Points!Started(schedule, t) > 0}
  BY DEF Points!project_forecast
<1> HIDE DEF times, na
<1>3. ASSUME NEW t \in times
      PROVE  t \in Nat /\ t <= start + Horizon /\ Points!Started(schedule, t) > 0
  <2>1. t = start \/ t \in na..(start + Horizon)
    BY <1>2
  <2> QED
    BY <1>0, <1>1, <1>2, <2>1
<1>4. times \in SUBSET Nat
  BY <1>3
<1>5. ASSUME NEW t \in times
      PROVE  LET later == {u \in times : u > t}
                 end == Points!BucketEnd(times, t)
             IN  /\ later = {} => end = t + Step
                 /\ later # {} => end \in later /\ \A y \in later : end <= y
  <2> DEFINE later == {u \in times : u > t}
  <2>1. Points!BucketEnd(times, t) = IF later = {} THEN t + Step ELSE Points!Min(later)
    BY DEF Points!BucketEnd
  <2>2. later \in SUBSET Nat
    BY <1>4
  <2> HIDE DEF later
  <2>3. later # {} => Points!Min(later) \in later /\ \A y \in later : Points!Min(later) <= y
    BY <2>2, MinIs
  <2> QED
    BY <2>1, <2>3 DEF later
<1>6. ASSUME NEW t \in times
      PROVE  /\ Bucket(t, Points!BucketEnd(times, t))
             /\ \A u \in times : t < u =>
                   /\ Points!BucketEnd(times, t) <= u
                   /\ (\A z \in times : z <= t \/ z >= u) => Points!BucketEnd(times, t) = u
  <2> DEFINE end == Points!BucketEnd(times, t)
             later == {u \in times : u > t}
  <2>1. /\ later = {} => end = t + Step
        /\ later # {} => end \in later /\ \A y \in later : end <= y
    BY <1>5
  <2>2. t \in Nat /\ Points!Started(schedule, t) > 0
    BY <1>3
  <2> HIDE DEF end
  <2>3. end \in Nat /\ t < end
    <3>1. CASE later = {}
      BY <3>1, <2>1, <2>2, <1>0
    <3>2. CASE later # {}
      <4>1. end \in times /\ end > t
        BY <3>2, <2>1
      <4> QED
        BY <4>1, <1>4, <2>2
    <3> QED
      BY <3>1, <3>2
  <2>4. Bucket(t, end)
    BY <2>2, <2>3, <1>0 DEF Bucket
  <2>5. ASSUME NEW u \in times, t < u
        PROVE  end <= u /\ ((\A z \in times : z <= t \/ z >= u) => end = u)
    <3>1. u \in later
      BY <2>5, <2>2, <1>4
    <3>2. end \in times /\ end > t /\ end <= u
      BY <3>1, <2>1
    <3>3. end \in Nat /\ u \in Nat
      BY <3>2, <1>4
    <3> QED
      BY <3>2, <3>3, <2>2
  <2> QED
    BY <2>4, <2>5 DEF end
<1> QED
  BY <1>3, <1>4, <1>6 DEF times

\* choose_weather_type_for_probability: each outcome allows the probability.
LEMMA OutcomeFits ==
    ASSUME NEW t, NEW p \in 0..100, NEW u \in Points!Outcomes(t, p)
    PROVE  p \in Points!Bounds(u)
<1> DEFINE fit == {v \in Points!Transitions(t) : p \in Points!Bounds(v)}
<1>1. CASE p \in Points!Bounds(t)
  <2>1. u \in {t} \cup fit
    BY <1>1 DEF Points!Outcomes
  <2> QED
    BY <1>1, <2>1
<1>2. CASE p \notin Points!Bounds(t) /\ fit # {}
  <2>1. u \in fit
    BY <1>2 DEF Points!Outcomes
  <2> QED
    BY <2>1
<1>3. CASE p \notin Points!Bounds(t) /\ fit = {}
  <2>1. u = Points!Fallback(p)
    BY <1>3 DEF Points!Outcomes
  <2>2. p \in Int /\ 0 <= p /\ p <= 100
    OBVIOUS
  <2>3. CASE p >= 50
    BY <2>1, <2>2, <2>3 DEF Points!Fallback, Points!Bounds, Points!LightRain, Points!Unspecified,
       Points!Clear, Points!PartlyCloudy, Points!Overcast
  <2>4. CASE p < 50 /\ p >= 5
    BY <2>1, <2>2, <2>4 DEF Points!Fallback, Points!Bounds, Points!Unspecified,
       Points!Clear, Points!PartlyCloudy, Points!Overcast
  <2>5. CASE p < 5 /\ p >= 1
    BY <2>1, <2>2, <2>5 DEF Points!Fallback, Points!Bounds, Points!Unspecified,
       Points!Clear, Points!PartlyCloudy, Points!Overcast
  <2>6. CASE p < 1
    BY <2>1, <2>2, <2>6 DEF Points!Fallback, Points!Bounds, Points!Unspecified,
       Points!Clear, Points!PartlyCloudy, Points!Overcast
  <2> QED
    BY <2>2, <2>3, <2>4, <2>5, <2>6
<1> QED
  BY <1>1, <1>2, <1>3

\* A point of a forecast says what its instants do.
LEMMA PointIs ==
    ASSUME NEW t, NEW e, Bucket(t, e), t <= start + Horizon, NEW pt,
           pt.time = t, pt.to = e,
           pt.type = Points!dominant(schedule, t, e),
           pt.rain = Points!rain_ms(schedule, t, e),
           pt.temp = Points!average_temperature(schedule, t, e)
    PROVE  /\ pt.time < pt.to /\ pt.time <= start + Horizon
           /\ pt.rain = Points!Cardinality(Points!Instants(pt,
                            {Points!LightRain, Points!MediumRain, Points!HeavyRain}))
           /\ \A u \in Points!AllTypes \ {pt.type} :
                LET mine == Points!Instants(pt, {pt.type})
                    theirs == Points!Instants(pt, {u})
                IN  \/ Points!Cardinality(mine) > Points!Cardinality(theirs)
                    \/ /\ Points!Cardinality(mine) = Points!Cardinality(theirs)
                       /\ Points!Min(mine) < Points!Min(theirs)
           /\ LET sum == Points!SumFunction([i \in pt.time..(pt.to - 1) |->
                                                schedule[Points!InForce(i)].temp])
                  len == pt.to - pt.time
              IN  2 * sum - len <= 2 * len * pt.temp /\ 2 * len * pt.temp <= 2 * sum + len
<1>1. pt.time < pt.to /\ pt.time <= start + Horizon
  BY DEF Bucket
<1>2. ASSUME NEW T PROVE Points!Instants(pt, T) = Held(t, e, T)
  BY DEF Points!Instants, Held
<1>3. pt.rain = Points!Cardinality(Points!Instants(pt,
                    {Points!LightRain, Points!MediumRain, Points!HeavyRain}))
  <2> DEFINE T == {Points!LightRain, Points!MediumRain, Points!HeavyRain}
  <2>1. T = {4, 5, 6}
    BY DEF Points!LightRain, Points!MediumRain, Points!HeavyRain
  <2> HIDE DEF T
  <2>2. Points!Instants(pt, T) = Held(t, e, T)
    BY <1>2
  <2>3. Points!Cardinality(Held(t, e, T)) = Cardinality(Held(t, e, T))
    BY CardinalityIs
  <2>4. pt.rain = Cardinality(Held(t, e, {4, 5, 6}))
    BY RainIs
  <2>5. pt.rain = Points!Cardinality(Points!Instants(pt, T))
    BY <2>1, <2>2, <2>3, <2>4
  <2> QED
    BY <2>5 DEF T
<1>4. ASSUME NEW u \in Points!AllTypes \ {pt.type}
      PROVE  LET mine == Points!Instants(pt, {pt.type})
                 theirs == Points!Instants(pt, {u})
             IN  \/ Points!Cardinality(mine) > Points!Cardinality(theirs)
                 \/ /\ Points!Cardinality(mine) = Points!Cardinality(theirs)
                    /\ Points!Min(mine) < Points!Min(theirs)
  <2> DEFINE d == pt.type
  <2>1. u \in (0..6) \ {d}
    BY DEF Points!AllTypes
  <2>2. d = Points!dominant(schedule, t, e)
    OBVIOUS
  <2> HIDE DEF d
  <2>3. Before(t, e, d, u)
    BY <2>1, <2>2, DominantIs
  <2>4. Points!Instants(pt, {d}) = Held(t, e, {d}) /\ Points!Instants(pt, {u}) = Held(t, e, {u})
    BY <1>2
  <2>5. /\ Points!Cardinality(Held(t, e, {d})) = Cardinality(Held(t, e, {d}))
        /\ Points!Cardinality(Held(t, e, {u})) = Cardinality(Held(t, e, {u}))
    BY CardinalityIs
  <2>6. \/ Points!Cardinality(Points!Instants(pt, {d})) > Points!Cardinality(Points!Instants(pt, {u}))
        \/ /\ Points!Cardinality(Points!Instants(pt, {d})) = Points!Cardinality(Points!Instants(pt, {u}))
           /\ Points!Min(Points!Instants(pt, {d})) < Points!Min(Points!Instants(pt, {u}))
    BY <2>3, <2>4, <2>5 DEF Before
  <2> QED
    BY <2>6 DEF d
<1>5. LET sum == Points!SumFunction([i \in pt.time..(pt.to - 1) |->
                                        schedule[Points!InForce(i)].temp])
          len == pt.to - pt.time
      IN  2 * sum - len <= 2 * len * pt.temp /\ 2 * len * pt.temp <= 2 * sum + len
  <2>1. LET sum == Points!SumFunction([i \in t..(e - 1) |-> schedule[Points!InForce(i)].temp])
            len == e - t
            c == Points!average_temperature(schedule, t, e)
        IN  2 * sum - len <= 2 * len * c /\ 2 * len * c <= 2 * sum + len
    BY AverageIs
  <2> QED
    BY <2>1
<1> QED
  BY <1>1, <1>3, <1>4, <1>5

\* So every forecast of a schedule in order agrees with the schedule.
LEMMA PointsAreTrue == PointsInv => Points!ForecastIsPointwise /\ Points!TypeFitsProbability
<1>1. SUFFICES ASSUME PointsInv
               PROVE  Points!ForecastIsPointwise /\ Points!TypeFitsProbability
  OBVIOUS
<1> DEFINE times == Points!project_forecast(schedule, start)
           end(t) == Points!BucketEnd(times, t)
           point(t) == [time |-> t, to |-> end(t),
                        type |-> Points!dominant(schedule, t, end(t)),
                        rain |-> Points!rain_ms(schedule, t, end(t)),
                        temp |-> Points!average_temperature(schedule, t, end(t))]
           points == Points!Points(schedule, start)
<1>2. /\ times \in SUBSET Nat
      /\ \A t \in times : /\ t <= start + Horizon /\ Bucket(t, end(t))
                          /\ \A u \in times : t < u =>
                               /\ end(t) <= u
                               /\ (\A z \in times : z <= t \/ z >= u) => end(t) = u
  BY <1>1, TimesAre
<1>3. points = {point(t) : t \in times}
  BY DEF Points!Points
<1> HIDE DEF times, end, points
<1>4. ASSUME NEW x \in points
      PROVE  \E t \in times : /\ x = point(t) /\ x.time = t /\ x.to = end(t)
                              /\ x.type = Points!dominant(schedule, t, end(t))
                              /\ x.rain = Points!rain_ms(schedule, t, end(t))
                              /\ x.temp = Points!average_temperature(schedule, t, end(t))
  BY <1>3
<1>t. ASSUME NEW t \in times PROVE \E z \in points : z.time = t
  <2>1. point(t) \in points
    <3> HIDE DEF point
    <3> QED
      BY <1>3
  <2>2. point(t).time = t
    OBVIOUS
  <2> QED
    BY <2>1, <2>2
<1> HIDE DEF point
<1>5. ASSUME NEW x \in points, NEW y \in points, x.time < y.time
      PROVE  /\ x.to <= y.time
             /\ (\A z \in points : z.time <= x.time \/ z.time >= y.time) => x.to = y.time
  <2>1. x.time \in times /\ y.time \in times /\ x.to = end(x.time)
    BY <1>4
  <2>2. /\ end(x.time) <= y.time
        /\ (\A z \in times : z <= x.time \/ z >= y.time) => end(x.time) = y.time
    BY <1>2, <1>5, <2>1
  <2>3. (\A z \in points : z.time <= x.time \/ z.time >= y.time)
           => (\A z \in times : z <= x.time \/ z >= y.time)
    BY <1>t
  <2> QED
    BY <2>1, <2>2, <2>3
<1>6. Points!ForecastIsPointwise
  <2>1. ASSUME NEW pt \in points
        PROVE  /\ pt.time < pt.to /\ pt.time <= start + Horizon
               /\ pt.rain = Points!Cardinality(Points!Instants(pt,
                                {Points!LightRain, Points!MediumRain, Points!HeavyRain}))
               /\ \A u \in Points!AllTypes \ {pt.type} :
                    LET mine == Points!Instants(pt, {pt.type})
                        theirs == Points!Instants(pt, {u})
                    IN  \/ Points!Cardinality(mine) > Points!Cardinality(theirs)
                        \/ /\ Points!Cardinality(mine) = Points!Cardinality(theirs)
                           /\ Points!Min(mine) < Points!Min(theirs)
               /\ LET sum == Points!SumFunction([t \in pt.time..(pt.to - 1) |->
                                                    schedule[Points!InForce(t)].temp])
                      len == pt.to - pt.time
                  IN  2 * sum - len <= 2 * len * pt.temp /\ 2 * len * pt.temp <= 2 * sum + len
    <3>1. PICK t \in times : /\ pt.time = t /\ pt.to = end(t)
                             /\ pt.type = Points!dominant(schedule, t, end(t))
                             /\ pt.rain = Points!rain_ms(schedule, t, end(t))
                             /\ pt.temp = Points!average_temperature(schedule, t, end(t))
      BY <1>4
    <3>2. Bucket(t, end(t)) /\ t <= start + Horizon
      BY <1>2
    <3> QED
      BY <3>1, <3>2, PointIs
  <2> QED
    BY <1>5, <2>1 DEF Points!ForecastIsPointwise, points
<1>7. Points!TypeFitsProbability
  BY OutcomeFits DEF Points!TypeFitsProbability
<1> QED
  BY <1>6, <1>7

\* The schedule is always in order.
LEMMA PointsInvariance == Spec => []PointsInv
<1>1. Init => PointsInv
  BY PointsInit DEF Init
<1>2. PointsInv /\ [Next]_vars => PointsInv'
  <2>1. SUFFICES ASSUME PointsInv, [Next]_vars PROVE PointsInv'
    OBVIOUS
  <2>2. [Points!Next]_pointVars
    BY <2>1 DEF Next, vars
  <2> QED
    BY <2>1, <2>2, PointsNext
<1> QED
  BY <1>1, <1>2, PTL DEF Spec

\* Forecast: whatever valid schedule an administrator stores and whenever a client asks,
\* the buckets of forecast_points_to_proto follow each other without gap or overlap up
\* to the horizon; each has the rain, the most frequent type (on a tie the earliest)
\* and the rounded mean temperature of its instants; and a type drawn for a
\* probability allows it.
THEOREM ForecastPointwise == Spec => []ForecastIsPointwise
<1>1. PointsInv => ForecastIsPointwise
  BY PointsAreTrue DEF ForecastIsPointwise
<1> QED
  BY <1>1, PointsInvariance, PTL

=============================================================================
