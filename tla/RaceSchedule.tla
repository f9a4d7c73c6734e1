---------------------------- MODULE RaceSchedule ----------------------------
\* The schedule of official races: RaceConfigAdminService and its repository,
\* and the public menu that shows the races of the next hour through a cache
\* (services/race_config_admin.rs, domain/race_config.rs,
\* db/repos/race_config.rs, services/public_menu.rs).
\*
\* Administrators and readers are concurrent handlers, one step per await.  A
\* database transaction is one step: a snapshot holds the revision row FOR
\* SHARE, a change holds it FOR UPDATE.  Times and durations keep only their
\* order; names, maps and presets of a race are left out.

EXTENDS Naturals, FiniteSets

CONSTANTS
    Races,       \* race ids (fresh UUIDs)
    Starts,      \* start times a request may name
    Durations,   \* race durations, zero included
    Admins,      \* concurrent administrator requests
    Menus,       \* concurrent readers of the menu
    Window,      \* UPCOMING_RACE_WINDOW_MS
    Ttl,         \* UPCOMING_CACHE_TTL_MS
    Epoch,       \* the time at which the process starts
    MaxTime,     \* bound: the last instant
    MaxRevision, \* bound: persisted changes
    MaxLost,     \* bound: requests dropped while their commit is under way
    Nil

Inputs == [start: Starts, duration: Durations]
Configs == [start: Starts, duration: Durations \ {0}]

\* Assumed of the constants; the cache of a new process is older than its time to
\* live.
ScheduleAssumption ==
    /\ Starts \subseteq Nat /\ Durations \subseteq Nat
    /\ {Window, Ttl, Epoch, MaxTime, MaxRevision, MaxLost} \subseteq Nat
    /\ Epoch > Ttl /\ Epoch <= MaxTime
    /\ Nil \notin Configs
    /\ IsFiniteSet(Races)

VARIABLES
    races,     \* race_config_schedule
    revision,  \* race_config_state.revision
    admin,     \* the request of each administrator
    now,       \* wall clock
    gen,       \* UpcomingRacesCacheInvalidation.generation
    cache,     \* UpcomingRacesCacheState
    menu,      \* the poll of each reader
    lost,      \* number of requests dropped inside their commit
    unacked    \* history: races changed by such a request

store == <<races, revision>>
vars == <<races, revision, admin, now, gen, cache, menu, lost, unacked>>

Kinds == {"create", "update", "delete"}
Idle == [at |-> "idle"]
Requests == [at: {"commit", "invalidate"}, kind: Kinds, race: Races,
             config: Configs \cup {Nil}, expected: 0..MaxRevision,
             old: Configs \cup {Nil}]
Views == SUBSET (Races \X Configs)
Polls == [at: {"snapshot", "store"}, time: Nat, gen: Nat, races: Views]

TypeOK ==
    /\ races \in [Races -> Configs \cup {Nil}]
    /\ revision \in 0..MaxRevision
    /\ admin \in [Admins -> {Idle} \cup Requests]
    /\ now \in Epoch..MaxTime
    /\ gen \in Nat
    /\ cache \in [gen: Nat, at: Nat, races: Views]
    /\ menu \in [Menus -> {Idle} \cup Polls]
    /\ lost \in 0..MaxLost
    /\ unacked \subseteq Races

Init ==
    /\ races = [r \in Races |-> Nil]
    /\ revision = 0
    /\ admin = [a \in Admins |-> Idle]
    /\ now = Epoch
    /\ gen = 0
    /\ cache = [gen |-> 0, at |-> 0, races |-> {}]
    /\ menu = [m \in Menus |-> Idle]
    /\ lost = 0
    /\ unacked = {}

(***************************************************************************)
(* Validation                                                              *)
(***************************************************************************)

Present(s) == {r \in Races : s[r] # Nil}

ends_at_ms(c) == c.start + c.duration

\* The candidate in the order of its start times.  Races that start together
\* follow one another in the order of their ids, which the checks do not see:
\* both orders of such races are here.
sort_by_start_time(s) ==
    {order \in [1..Cardinality(Present(s)) -> Present(s)] :
        /\ \A r \in Present(s) : \E i \in DOMAIN order : order[i] = r
        /\ \A i, j \in DOMAIN order : i < j => s[order[i]].start <= s[order[j]].start}

\* Each entry is compared with the one before it only.
validate_ordering_and_overlap(c, prev) ==
    c.start > prev.start /\ c.start >= ends_at_ms(prev)

validate_schedule(s) ==
    /\ \A r \in Present(s) : s[r].start < ends_at_ms(s[r])
    /\ \E order \in sort_by_start_time(s) :
           \A i \in DOMAIN order \ {1} :
               validate_ordering_and_overlap(s[order[i]], s[order[i - 1]])

(***************************************************************************)
(* Administration                                                          *)
(***************************************************************************)

race_input_from_proto(c) == c.duration # 0

ensure_expected_revision(expected) == expected = revision

Free(a) == admin' = [admin EXCEPT ![a] = Idle]

\* A request that passed the checks of its handler and goes to the repository.
Submit(a, k, r, e, c) ==
    /\ admin' = [admin EXCEPT ![a] = [at |-> "commit", kind |-> k, race |-> r,
                                      config |-> c, expected |-> e, old |-> races[r]]]
    /\ UNCHANGED <<store, now, gen, cache, menu, lost, unacked>>

\* The three handlers up to the call of the repository: a request for revision
\* e arrives, the snapshot is read, the candidate schedule is validated.  A
\* refused request changes nothing.  The id of a new race is fresh.
create_race_config(a) ==
    /\ admin[a].at = "idle"
    /\ \E r \in Races \ Present(races), e \in 0..revision, c \in Inputs :
           /\ race_input_from_proto(c)
           /\ ensure_expected_revision(e)
           /\ validate_schedule([races EXCEPT ![r] = c])
           /\ Submit(a, "create", r, e, c)

update_race_config(a) ==
    /\ admin[a].at = "idle"
    /\ \E r \in Races, e \in 0..revision, c \in Inputs :
           /\ race_input_from_proto(c)
           /\ ensure_expected_revision(e)
           /\ r \in Present(races)
           /\ validate_schedule([races EXCEPT ![r] = c])
           /\ Submit(a, "update", r, e, c)

delete_race_config(a) ==
    /\ admin[a].at = "idle"
    /\ \E r \in Races, e \in 0..revision :
           /\ ensure_expected_revision(e)
           /\ r \in Present(races)
           /\ Submit(a, "delete", r, e, Nil)

bump_revision == revision < MaxRevision /\ revision' = revision + 1

\* The transactions of the repository, where they commit.
create_config(q) ==
    /\ q.kind = "create"
    /\ ensure_expected_revision(q.expected)
    /\ races[q.race] = Nil
    /\ races' = [races EXCEPT ![q.race] = q.config]
    /\ bump_revision

\* Mutated form: the transaction does not look at the revision again.
update_configUnchecked(q) ==
    /\ q.kind = "update"
    /\ races[q.race] # Nil
    /\ races' = [races EXCEPT ![q.race] = q.config]
    /\ bump_revision

update_config(q) ==
    /\ q.kind = "update"
    /\ ensure_expected_revision(q.expected)
    /\ races[q.race] # Nil
    /\ races' = [races EXCEPT ![q.race] = q.config]
    /\ bump_revision

delete_config(q) ==
    /\ q.kind = "delete"
    /\ ensure_expected_revision(q.expected)
    /\ races[q.race] # Nil
    /\ races' = [races EXCEPT ![q.race] = Nil]
    /\ bump_revision

Write(q) == create_config(q) \/ update_config(q) \/ delete_config(q)

Commit(a) ==
    /\ admin[a].at = "commit"
    /\ Write(admin[a])
    /\ admin' = [admin EXCEPT ![a].at = "invalidate"]
    /\ UNCHANGED <<now, gen, cache, menu, lost, unacked>>

\* The caller goes away, or the connection to the database breaks, while the
\* commit is under way: the change is made and the handler does not go on.
CommitLost(a) ==
    LET q == admin[a] IN
    /\ q.at = "commit" /\ lost < MaxLost
    /\ Write(q) /\ Free(a)
    /\ lost' = lost + 1
    /\ unacked' = unacked \cup {q.race}
    /\ UNCHANGED <<now, gen, cache, menu>>

\* The transaction is refused (revision, missing row, database), or the caller
\* goes away before it.
RequestFails(a) ==
    /\ admin[a].at = "commit"
    /\ Free(a)
    /\ UNCHANGED <<store, now, gen, cache, menu, lost, unacked>>

is_within_upcoming_window(c, t) == c.start >= t /\ c.start <= t + Window

invalidate_for_change(q) ==
    \/ q.old # Nil /\ is_within_upcoming_window(q.old, now)
    \/ q.config # Nil /\ is_within_upcoming_window(q.config, now)

Invalidate(a) ==
    /\ admin[a].at = "invalidate"
    /\ gen' = IF invalidate_for_change(admin[a]) THEN gen + 1 ELSE gen
    /\ Free(a)
    /\ UNCHANGED <<store, now, cache, menu, lost, unacked>>

(***************************************************************************)
(* The public menu                                                         *)
(***************************************************************************)

build_upcoming_races(t) ==
    {<<r, races[r]>> : r \in {x \in Present(races) : is_within_upcoming_window(races[x], t)}}

CacheHit == cache.gen = gen /\ now - cache.at <= Ttl

Answer(m) == menu' = [menu EXCEPT ![m] = Idle]

\* get_upcoming_races: the time and the generation are read first, then the
\* cache is looked up.  A hit is answered from the cache and changes nothing.
ReadCache(m) ==
    /\ menu[m].at = "idle"
    /\ ~CacheHit
    /\ menu' = [menu EXCEPT ![m] =
           [at |-> "snapshot", time |-> now, gen |-> gen, races |-> {}]]
    /\ UNCHANGED <<store, admin, now, gen, cache, lost, unacked>>

ReadSnapshot(m) ==
    /\ menu[m].at = "snapshot"
    /\ menu' = [menu EXCEPT ![m].at = "store", ![m].races = build_upcoming_races(menu[m].time)]
    /\ UNCHANGED <<store, admin, now, gen, cache, lost, unacked>>

\* Mutated form: the entry is stored under the generation of the moment.
FillCacheLate(m) ==
    /\ menu[m].at = "store"
    /\ cache' = [gen |-> gen, at |-> menu[m].time, races |-> menu[m].races]
    /\ Answer(m)
    /\ UNCHANGED <<store, admin, now, gen, lost, unacked>>

FillCache(m) ==
    /\ menu[m].at = "store"
    /\ cache' = [gen |-> menu[m].gen, at |-> menu[m].time, races |-> menu[m].races]
    /\ Answer(m)
    /\ UNCHANGED <<store, admin, now, gen, lost, unacked>>

\* The snapshot fails, and with it the request or stream that asked for it.
StreamFails(m) ==
    /\ menu[m].at = "snapshot"
    /\ Answer(m)
    /\ UNCHANGED <<store, admin, now, gen, cache, lost, unacked>>

Tick ==
    /\ now < MaxTime
    /\ now' = now + 1
    /\ UNCHANGED <<store, admin, gen, cache, menu, lost, unacked>>

Next ==
    \/ \E a \in Admins : \/ create_race_config(a) \/ update_race_config(a)
                         \/ delete_race_config(a) \/ Commit(a) \/ CommitLost(a)
                         \/ RequestFails(a) \/ Invalidate(a)
    \/ \E m \in Menus : ReadCache(m) \/ ReadSnapshot(m) \/ FillCache(m) \/ StreamFails(m)
    \/ Tick

Spec == Init /\ [][Next]_vars

(***************************************************************************)
(* Properties                                                              *)
(***************************************************************************)

Promise == INSTANCE Schedule WITH schedule <- races, version <- revision

\* The administration implements Schedule: whatever requests race, each
\* persisted change touches one race, has a revision of its own and leaves a
\* schedule in which no two races overlap, although a candidate is validated
\* against a snapshot and written by a later transaction.
ImplementsSchedule == Promise!Spec

\* The cache never hides a finished change: once no administrator stands
\* between its commit and its invalidation, an entry of the current generation
\* shows exactly the persisted races of its hour that have not started yet,
\* whatever polls and changes overlapped while it was filled.  Races changed
\* by a request that was dropped inside its commit wait for the time to live.
CacheShowsSchedule ==
    (\A a \in Admins : admin[a].at # "invalidate") /\ cache.gen = gen /\ cache.at # 0 =>
        LET Due(view) == {e \in view : e[2].start >= now /\ e[1] \notin unacked}
        IN  Due(cache.races) = Due(build_upcoming_races(cache.at))

=============================================================================
