---------------------------- MODULE WeatherCache ----------------------------
(***************************************************************************)
(* The two caches of the official weather query service                    *)
(* (services/weather/query.rs): the schedule, reloaded from the database   *)
(* when it is a minute old, and per preset the forecast points made from   *)
(* it.  Requests and the refresh loop run concurrently; each await is a    *)
(* step.  A forecast is kept with the generation of the schedule it was    *)
(* made for; within a generation and a step of the preset its later points *)
(* are carried over, so that they do not flicker.                          *)
(***************************************************************************)
EXTENDS Integers, FiniteSets

CONSTANTS Handlers,    \* requests, and the refresh loop
          Presets,     \* forecast presets
          Schedules,   \* contents of a schedule
          Pointless,   \* the schedules that give no point, the empty one among them
          Empty,       \* the empty schedule
          MaxVersion,  \* bound: replacements of the schedule
          MaxTime,     \* bound: the clock
          Minute,      \* CACHE_MAX_STALENESS_MS
          StepLength,  \* preset_step_ms
          Nil

\* Assumed of the constants.
CacheAssumption ==
    /\ Empty \in Pointless /\ Pointless \subseteq Schedules
    /\ {MaxVersion, MaxTime} \subseteq Nat
    /\ {Minute, StepLength} \subseteq Nat \ {0}
    /\ Nil \notin Nat /\ Nil \notin Schedules \cup Handlers

VARIABLES now,        \* the clock
          db,         \* weather_schedule: its content and a version counting replacements
          cached,     \* schedule_cache
          refresh,    \* refresh_guard: who holds it
          forecasts,  \* forecast_cache, per preset
          compute,    \* forecast_refresh_guard: who holds it
          call        \* the requests

vars == <<now, db, cached, refresh, forecasts, compute, call>>

NoForecast == [first |-> Nil, later |-> {}, slot |-> Nil, generation |-> Nil]

Idle == [at |-> "idle", preset |-> Nil, slot |-> Nil, back |-> Nil,
         generation |-> Nil, read |-> Nil]

Init == /\ now = 0
        /\ db \in [content : Schedules, version : {0}]
        /\ cached = [entries |-> Empty, version |-> 0, at |-> Nil, generation |-> 0]
        /\ refresh = Nil /\ compute = Nil
        /\ forecasts = [p \in Presets |-> NoForecast]
        /\ call = [h \in Handlers |-> Idle]

Become(h, c) == call' = [call EXCEPT ![h] = c]
Go(h, at) == call' = [call EXCEPT ![h].at = at]

\* current_minute_start_ms.
Slot == now - (now % Minute)

-----------------------------------------------------------------------------
(* The environment. *)

Tick ==
    /\ now < MaxTime
    /\ now' = now + 1
    /\ UNCHANGED <<db, cached, refresh, forecasts, compute, call>>

\* replace_weather_schedule commits.
ReplaceSchedule(s) ==
    /\ db.version < MaxVersion
    /\ db' = [content |-> s, version |-> db.version + 1]
    /\ UNCHANGED <<now, cached, refresh, forecasts, compute, call>>

-----------------------------------------------------------------------------
(* The schedule cache. *)

\* is_cache_stale, and an empty schedule is never taken for fresh.
Fresh == /\ cached.entries # Empty
         /\ cached.at # Nil
         /\ now - cached.at < Minute

\* ensure_schedule_cache_fresh, current_schedule: the cache if it is fresh.
Ensure(h) ==
    /\ call[h].at = "ensure"
    /\ IF Fresh
       THEN Become(h, [call[h] EXCEPT !.generation = cached.generation, !.at = call[h].back])
       ELSE Go(h, "guard")
    /\ UNCHANGED <<now, db, cached, refresh, forecasts, compute>>

\* Mutated form: two requests may reload the schedule at the same time.
GuardOpen(h) ==
    /\ call[h].at = "guard"
    /\ UNCHANGED refresh
    /\ Go(h, IF Fresh THEN "generation" ELSE "load")
    /\ UNCHANGED <<now, db, cached, forecasts, compute>>

\* refresh_cache_singleflight: under the guard the cache is looked at again.
Guard(h) ==
    /\ call[h].at = "guard"
    /\ refresh = Nil
    /\ IF Fresh THEN Go(h, "generation") /\ UNCHANGED refresh
       ELSE Go(h, "load") /\ refresh' = h
    /\ UNCHANGED <<now, db, cached, forecasts, compute>>

\* refresh_cache_once: the rows are read ...
Load(h) ==
    /\ call[h].at = "load"
    /\ Become(h, [call[h] EXCEPT !.at = "store", !.read = db])
    /\ UNCHANGED <<now, db, cached, refresh, forecasts, compute>>

\* ... and stored; a content that differs begins a generation.
Store(h) ==
    LET r == call[h].read IN
    /\ call[h].at = "store"
    /\ cached' = [entries |-> r.content, version |-> r.version, at |-> now,
                  generation |-> IF r.content = cached.entries THEN cached.generation
                                 ELSE cached.generation + 1]
    /\ refresh' = IF refresh = h THEN Nil ELSE refresh
    /\ Become(h, [call[h] EXCEPT !.at = "generation", !.read = Nil])
    /\ UNCHANGED <<now, db, forecasts, compute>>

\* The cache is read once the guard is free again.
Generation(h) ==
    /\ call[h].at = "generation"
    /\ Become(h, [call[h] EXCEPT !.generation = cached.generation, !.at = call[h].back])
    /\ UNCHANGED <<now, db, cached, refresh, forecasts, compute>>

-----------------------------------------------------------------------------
(* The forecast cache. *)

\* get_forecast_now and emit_forecast_update: current_forecast.
GetForecast(h, p) ==
    /\ call[h] = Idle
    /\ Become(h, [Idle EXCEPT !.preset = p, !.slot = Slot,
                              !.at = "ensure", !.back = "peek"])
    /\ UNCHANGED <<now, db, cached, refresh, forecasts, compute>>

\* get_weather_now and emit_weather_update: the schedule is enough.
GetWeather(h) ==
    /\ call[h] = Idle
    /\ Become(h, [Idle EXCEPT !.at = "ensure", !.back = "done"])
    /\ UNCHANGED <<now, db, cached, refresh, forecasts, compute>>

\* run_cache_refresh_loop: the schedule, then the forecast of each preset.
RefreshLoop(h, p) ==
    /\ \/ /\ call[h] = Idle
          /\ Become(h, [Idle EXCEPT !.preset = p, !.at = "guard", !.back = "loop"])
       \/ /\ call[h].at = "loop" /\ call[h].preset = p
          /\ Become(h, [call[h] EXCEPT !.slot = Slot, !.at = "compute"])
    /\ UNCHANGED <<now, db, cached, refresh, forecasts, compute>>

\* is_forecast_cache_fresh.
ForecastFresh(c) ==
    LET f == forecasts[c.preset] IN
    /\ f.first # Nil /\ f.first \notin Pointless
    /\ f.slot = c.slot
    /\ f.generation = c.generation

Peek(h) ==
    /\ call[h].at = "peek"
    /\ Go(h, IF ForecastFresh(call[h]) THEN "done" ELSE "compute")
    /\ UNCHANGED <<now, db, cached, refresh, forecasts, compute>>

\* refresh_forecast_singleflight: the guard, then the schedule again.
Compute(h) ==
    /\ call[h].at = "compute"
    /\ compute = Nil
    /\ compute' = h
    /\ Become(h, [call[h] EXCEPT !.at = "ensure", !.back = "again"])
    /\ UNCHANGED <<now, db, cached, refresh, forecasts>>

Again(h) ==
    /\ call[h].at = "again"
    /\ IF ForecastFresh(call[h])
       THEN Go(h, "done") /\ compute' = Nil
       ELSE Go(h, "project") /\ UNCHANGED compute
    /\ UNCHANGED <<now, db, cached, refresh, forecasts>>

\* refresh_forecast_once reads the schedule of the cache ...
Project(h) ==
    /\ call[h].at = "project"
    /\ Become(h, [call[h] EXCEPT !.at = "publish", !.read = cached.entries])
    /\ UNCHANGED <<now, db, cached, refresh, forecasts, compute>>

\* Mutated form: the points are labelled with the cache's present generation.
PublishNewest(h) ==
    LET c == call[h] IN
    /\ c.at = "publish"
    /\ forecasts' = [forecasts EXCEPT ![c.preset] =
         [first |-> c.read, later |-> {c.read}, slot |-> c.slot,
          generation |-> cached.generation]]
    /\ compute' = Nil
    /\ Become(h, [c EXCEPT !.at = "done", !.read = Nil])
    /\ UNCHANGED <<now, db, cached, refresh>>

\* ... and publishes the points made from it: the first anew, the later ones
\* carried over within a generation and off the step boundaries
\* (stochasticize_forecast_points).
Publish(h) ==
    LET c == call[h]
        f == forecasts[c.preset]
        carry == f.generation = c.generation /\ c.slot % StepLength # 0
    IN  /\ c.at = "publish"
        /\ forecasts' = [forecasts EXCEPT ![c.preset] =
             [first |-> c.read, slot |-> c.slot, generation |-> c.generation,
              later |-> IF carry THEN f.later \cup {c.read} ELSE {c.read}]]
        /\ compute' = Nil
        /\ Become(h, [c EXCEPT !.at = "done", !.read = Nil])
        /\ UNCHANGED <<now, db, cached, refresh>>

\* The answer is read from the cache and sent.
Done(h) ==
    /\ call[h].at = "done"
    /\ Become(h, Idle)
    /\ UNCHANGED <<now, db, cached, refresh, forecasts, compute>>

\* The database fails or the client goes away: the guards are released.
Fail(h) ==
    /\ call[h].at \notin {"idle", "done"}
    /\ Become(h, Idle)
    /\ refresh' = IF refresh = h THEN Nil ELSE refresh
    /\ compute' = IF compute = h THEN Nil ELSE compute
    /\ UNCHANGED <<now, db, cached, forecasts>>

Next ==
    \/ Tick
    \/ \E s \in Schedules : ReplaceSchedule(s)
    \/ \E h \in Handlers :
         \/ GetWeather(h)
         \/ \E p \in Presets : GetForecast(h, p) \/ RefreshLoop(h, p)
         \/ Ensure(h) \/ Guard(h) \/ Load(h) \/ Store(h) \/ Generation(h)
         \/ Peek(h) \/ Compute(h) \/ Again(h) \/ Project(h) \/ Publish(h)
         \/ Done(h) \/ Fail(h)

Spec == Init /\ [][Next]_vars

-----------------------------------------------------------------------------
(* Properties. *)

\* The variables keep their types, and a guard is held by a request that is
\* inside it.
TypeOK ==
    /\ now \in 0 .. MaxTime
    /\ db \in [content : Schedules, version : 0 .. MaxVersion]
    /\ cached.entries \in Schedules /\ cached.version \in 0 .. MaxVersion
    /\ cached.generation \in Nat
    /\ refresh # Nil => call[refresh].at \in {"load", "store"}
    /\ compute # Nil => call[compute].at \notin {"idle", "peek", "loop", "compute", "done"}
    /\ \A p \in Presets : forecasts[p].later \subseteq Schedules

\* is_forecast_cache_fresh trusts the generation: a forecast labelled with the
\* generation of the cached schedule was made from that schedule alone, its
\* carried-over points included, although schedule, generation and points are
\* read and written under different locks.
ForecastMatchesSchedule ==
    \A p \in Presets : LET f == forecasts[p] IN
        (f.generation = cached.generation /\ f.first # Nil) =>
            {f.first} \cup f.later = {cached.entries}

\* refresh_guard: the cached schedule never goes back to an older state of the
\* table than it already showed.
ScheduleMovesForward == [][cached'.version >= cached.version]_vars

=============================================================================
