----------------------------- MODULE MCRecords -----------------------------
(***************************************************************************)
(* Small instances, for TLC, of the official services that cache what is   *)
(* kept elsewhere or is costly to make: the race schedule, the             *)
(* configurations of the sandboxes, the tokens and teams asked of other    *)
(* services, the weather schedule with its forecasts, and the hashes of    *)
(* the asset service; and of the forecast itself.  They share nothing, so  *)
(* one of them runs in each behaviour and the others rest; Running says    *)
(* which may.                                                              *)
(***************************************************************************)
EXTENDS Naturals, TLC

CONSTANTS Running, Admins, Menus, Nil,
          MaxRaceRevision, Races, Starts, Durations, Window, Ttl, Epoch, MaxTime, MaxLost,
          OfficialIds, Rests, Presets, MaxRevision, MaxRuntime,
          Users, Lifetimes, Safety, MinTtl, TeamTtl, CallTime, Retries, MaxTicks,
          MaxTokens,
          ForecastPresets, Schedules, Pointless, Empty, MaxVersion, MaxClock, Minute,
          StepLength, MaxStart, MaxEntries, Types, Temperatures, Horizon, Step, TailOnly,
          Limits, Offsets, Asked, Replaced, Blank

VARIABLES runs,
          races, raceRevision, raceAdmin, now, raceGen, raceCache, raceMenu, lost, unacked,
          configs, revision, runtime, admin, gen, cache, menu,
          time, issued, revoked, auth, teams, call,
          clock, db, cached, refresh, forecasts, compute, ask,
          schedule, start,
          dir, newest, mem, sidecar, locks, bundle, fetch

Schedule == INSTANCE RaceSchedule
    WITH MaxRevision <- MaxRaceRevision, revision <- raceRevision,
         admin <- raceAdmin, gen <- raceGen, cache <- raceCache, menu <- raceMenu

Official == INSTANCE OfficialSandboxes WITH Sandboxes <- OfficialIds

Tokens == INSTANCE ServiceTokens
    WITH Callers <- Admins, MaxTime <- MaxTicks, now <- time, cache <- teams

Weather == INSTANCE WeatherCache
    WITH Handlers <- Admins, Presets <- ForecastPresets, MaxTime <- MaxClock,
         now <- clock, call <- ask

Points == INSTANCE Forecast

\* The second version of a file is shorter than the first.
Size == [v \in 1 .. MaxVersion |-> 2 * (MaxVersion + 1 - v)]

Assets == INSTANCE AssetService
    WITH Handlers <- Admins, cache <- bundle, req <- fetch

ASSUME Assumptions == /\ Running \subseteq {"schedule", "official", "tokens",
                                     "weather", "points", "assets"}
                      /\ Schedule!ScheduleAssumption
                      /\ Official!SandboxesAssumption
                      /\ Tokens!TokenAssumption
                      /\ Weather!CacheAssumption
                      /\ Points!ForecastAssumption
                      /\ Assets!AssetAssumption

scheduleVars == <<races, raceRevision, raceAdmin, now, raceGen, raceCache, raceMenu,
                  lost, unacked>>
officialVars == <<configs, revision, runtime, admin, gen, cache, menu>>
tokenVars == <<time, issued, revoked, auth, teams, call>>
weatherVars == <<clock, db, cached, refresh, forecasts, compute, ask>>
pointVars == <<schedule, start>>
assetVars == <<dir, newest, mem, sidecar, locks, bundle, fetch>>
vars == <<runs, scheduleVars, officialVars, tokenVars, weatherVars, pointVars, assetVars>>

Init == /\ runs \in Running
        /\ Official!Init /\ (runs # "official" => configs = Official!NoRows)
        /\ Weather!Init /\ (runs # "weather" => db.content = Empty)
        /\ Assets!Init /\ (runs # "assets" => dir = newest)
        /\ Schedule!Init /\ Tokens!Init /\ Points!Init

Next == \/ /\ runs = "schedule" /\ Schedule!Next
           /\ UNCHANGED <<runs, officialVars, tokenVars, weatherVars, pointVars, assetVars>>
        \/ /\ runs = "official" /\ Official!Next
           /\ UNCHANGED <<runs, scheduleVars, tokenVars, weatherVars, pointVars, assetVars>>
        \/ /\ runs = "tokens" /\ Tokens!Next
           /\ UNCHANGED <<runs, scheduleVars, officialVars, weatherVars, pointVars, assetVars>>
        \/ /\ runs = "weather" /\ Weather!Next
           /\ UNCHANGED <<runs, scheduleVars, officialVars, tokenVars, pointVars, assetVars>>
        \/ /\ runs = "points" /\ Points!Next
           /\ UNCHANGED <<runs, scheduleVars, officialVars, tokenVars, weatherVars, assetVars>>
        \/ /\ runs = "assets" /\ Assets!Next
           /\ UNCHANGED <<runs, scheduleVars, officialVars, tokenVars, weatherVars, pointVars>>

Spec == Init /\ [][Next]_vars

\* Handlers are interchangeable, and so are races, the values of a configuration and
\* the weather schedules that give points; TLC is fastest when these sets have the
\* same elements.
Symmetry == Permutations(Admins) \cup Permutations(Menus) \cup Permutations(Races)
            \cup Permutations(Rests) \cup Permutations(Presets)
            \cup Permutations(Schedules \ Pointless)

\* RaceSchedule's invariants: the cache of upcoming races never hides a finished
\* change of the schedule.
CacheShowsSchedule ==
    runs = "schedule" => Schedule!TypeOK /\ Schedule!CacheShowsSchedule

\* The administration of the races implements the abstract Schedule, although it
\* validates against a snapshot and writes in a later transaction.
ImplementsSchedule == Schedule!ImplementsSchedule

\* OfficialSandboxes' invariants: the cache of sandbox configurations shows every
\* finished change.
CacheShowsConfigs ==
    runs = "official" => Official!TypeOK /\ Official!CacheShowsConfigs

\* A change of the time of day undoes no other change of a configuration.
TimeOfDayKeepsRest == Official!TimeOfDayKeepsRest

\* ServiceTokens' invariants: a caller gives up only after a fresh token was refused,
\* a cached token lives, and a team served from the cache is recent.
TokensAreLive ==
    runs = "tokens" => /\ Tokens!TypeOK /\ Tokens!RefusedOnlyWhenFresh
                       /\ Tokens!CachedTokenLives /\ Tokens!ServedTeamIsRecent

\* WeatherCache's invariants: the points of a forecast come from the schedule of the
\* generation it is kept with.
ForecastMatchesSchedule ==
    runs = "weather" => Weather!TypeOK /\ Weather!ForecastMatchesSchedule

\* The cached schedule never goes back to an older one.
ScheduleMovesForward == Weather!ScheduleMovesForward

\* Forecast's invariants: the buckets of a forecast agree with the schedule taken
\* point by point, and a type chosen for a probability allows it.
ForecastIsPointwise ==
    runs = "points" => Points!ForecastIsPointwise /\ Points!TypeFitsProbability

\* AssetService's invariants: a hash handed out is that of a version the file had
\* meanwhile, and a download of a file that stays brings all of it.
DownloadsAreTrue ==
    runs = "assets" => Assets!TypeOK /\ Assets!HashIsCurrent /\ Assets!DownloadWhole
=============================================================================
