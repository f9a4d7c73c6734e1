------------------------------ MODULE Forecast ------------------------------
(***************************************************************************)
(* The weather schedule and what is computed from it: the weather at an    *)
(* instant, the forecast points of a preset, the rain, dominant weather    *)
(* and temperature of a bucket (domain/weather.rs, services/weather/       *)
(* mappers.rs), and the noise put on a point (stochastic.rs).  An          *)
(* administrator replaces the schedule; clients ask for forecasts.  Each   *)
(* algorithm is compared with a definition that looks at every instant.    *)
(* Time is in steps of the smallest unit; probabilities are in percent.    *)
(***************************************************************************)
EXTENDS Integers, Sequences, FiniteSets, FiniteSetsExt, Functions

CONSTANTS MaxStart,      \* bound: entries start at 0 .. MaxStart
          MaxEntries,    \* bound: entries of a schedule
          Types,         \* weather types in use, in the order of the enum
          Temperatures,  \* temperatures in use
          Horizon,       \* preset_window: how far a forecast looks
          Step,          \* preset_window: the length of a bucket
          TailOnly       \* UnspecifiedPolicy::AllowOnlyTail

Unspecified == 0
Clear == 1
PartlyCloudy == 2
Overcast == 3
LightRain == 4
MediumRain == 5
HeavyRain == 6
AllTypes == 0 .. 6

\* Assumed of the constants.
ForecastAssumption ==
    /\ Types \subseteq AllTypes /\ Temperatures \subseteq 1 .. 30
    /\ Step \in Nat \ {0} /\ Horizon \in Nat /\ MaxStart \in Nat

VARIABLES schedule,   \* the rows of weather_schedule, by start
          start       \* the instant a client asks at

vars == <<schedule, start>>

Entry == [at : 0 .. MaxStart, type : Types, temp : Temperatures]
is_rain_type(t) == t \in {LightRain, MediumRain, HeavyRain}

-----------------------------------------------------------------------------
(* The schedule. *)

validate_schedule(es, tail) ==
    \A i \in DOMAIN es :
        /\ i < Len(es) => es[i].at < es[i + 1].at
        /\ (tail /\ es[i].type = Unspecified) => i = Len(es)

\* partition_point: the entries that have started.
Started(es, t) == Cardinality({i \in DOMAIN es : es[i].at <= t})

weather_at(es, t) == es[Started(es, t)]

\* The walk over the schedule that rain_probability_for_window,
\* dominant_weather_type_for_window and average_temperature_c_for_window share:
\* the entry in force at the start, then each that begins before the end.
Segments(es, s, e) ==
    LET p == Started(es, s)
        q == Cardinality({i \in DOMAIN es : es[i].at < e})
        last == IF q > p THEN q ELSE p
    IN  {[from |-> IF i = p THEN s ELSE es[i].at,
          to   |-> IF i < Len(es) THEN Min({es[i + 1].at, e}) ELSE e,
          type |-> IF i = 0 THEN Unspecified ELSE es[i].type,
          temp |-> IF i = 0 THEN 0 ELSE es[i].temp] : i \in p .. last}

\* The time they take together.
Length(seg) == seg.to - seg.from
Duration(segs) == SumFunction([g \in segs |-> Length(g)])

rain_ms(es, s, e) == Duration({g \in Segments(es, s, e) : is_rain_type(g.type)})

\* Mutated form: on a tie the later type is taken.
dominantLatest(es, s, e) ==
    LET segs == Segments(es, s, e)
        types == {g.type : g \in segs}
        dur == [t \in types |-> Duration({g \in segs : g.type = t})]
        seen == [t \in types |-> Min({g.from : g \in {h \in segs : h.type = t}})]
    IN  CHOOSE t \in types : \A u \in types \ {t} :
            dur[t] > dur[u] \/ (dur[t] = dur[u] /\ seen[t] > seen[u])

dominant(es, s, e) ==
    LET segs == Segments(es, s, e)
        types == {g.type : g \in segs}
        dur == [t \in types |-> Duration({g \in segs : g.type = t})]
        seen == [t \in types |-> Min({g.from : g \in {h \in segs : h.type = t}})]
    IN  CHOOSE t \in types : \A u \in types \ {t} :
            dur[t] > dur[u] \/ (dur[t] = dur[u] /\ seen[t] < seen[u])

clamp_temperature(c) == IF c < 1 THEN 1 ELSE IF c > 30 THEN 30 ELSE c

\* The rounded mean, weighted by duration.
average_temperature(es, s, e) ==
    LET weighted == SumFunction([g \in Segments(es, s, e) |-> g.temp * Length(g)])
    IN  clamp_temperature((2 * weighted + (e - s)) \div (2 * (e - s)))

-----------------------------------------------------------------------------
(* Forecasts. *)

\* next_aligned_bucket_start.
NextAligned(t) == t + Step - (t % Step)

\* project_forecast: the start, then every bucket boundary up to the horizon;
\* instants before the first entry give no point.
project_forecast(es, s) ==
    {t \in {s} \cup {u \in NextAligned(s) .. s + Horizon : (u - NextAligned(s)) % Step = 0} :
        Started(es, t) > 0}

\* forecast_points_to_proto: a bucket ends where the next point begins.
BucketEnd(points, t) ==
    LET later == {u \in points : u > t} IN
    IF later = {} THEN t + Step ELSE Min(later)

Points(es, s) ==
    LET times == project_forecast(es, s) IN
    {[time |-> t, to |-> BucketEnd(times, t),
      type |-> dominant(es, t, BucketEnd(times, t)),
      rain |-> rain_ms(es, t, BucketEnd(times, t)),
      temp |-> average_temperature(es, t, BucketEnd(times, t))] : t \in times}

-----------------------------------------------------------------------------
(* The noise. *)

\* rain_probability_bounds_for_type.
Bounds(t) == CASE t \in {Unspecified, Clear} -> 0 .. 25
               [] t = PartlyCloudy -> 0 .. 40
               [] t = Overcast -> 0 .. 50
               [] OTHER -> 50 .. 100

\* transition_candidates_for_type.
Transitions(t) == CASE t = Unspecified -> {Clear}
                    [] t = Clear -> {PartlyCloudy}
                    [] t = PartlyCloudy -> {Clear, Overcast, LightRain}
                    [] t = Overcast -> {PartlyCloudy, LightRain, MediumRain}
                    [] t = LightRain -> {Overcast, MediumRain, PartlyCloudy, HeavyRain}
                    [] t = MediumRain -> {LightRain, HeavyRain, Overcast}
                    [] OTHER -> {MediumRain}

\* fallback_type_for_probability.
Fallback(p) == IF p >= 50 THEN LightRain ELSE IF p >= 5 THEN Overcast
               ELSE IF p >= 1 THEN PartlyCloudy ELSE Clear

\* choose_weather_type_for_probability: the types it may return. The weights
\* and the smoothing penalty leave every candidate possible.
Outcomes(t, p) ==
    LET fit == {u \in Transitions(t) : p \in Bounds(u)} IN
    IF p \in Bounds(t) THEN {t} \cup fit
    ELSE IF fit # {} THEN fit ELSE {Fallback(p)}

-----------------------------------------------------------------------------
(* The services. *)

Init == schedule = <<>> /\ start = 0

\* replace_weather_schedule: the draft must be valid; the rows are replaced in
\* one transaction and read back in order of their start. The drafts sent here
\* are the schedule with one more entry, and the empty one.
Drafts == {<<>>} \cup {Append(schedule, e) : e \in Entry}

replace_weather_schedule ==
    /\ \E draft \in Drafts :
         /\ Len(draft) <= MaxEntries
         /\ validate_schedule(draft, TailOnly)
         /\ schedule' = draft
    /\ UNCHANGED start

\* A client asks at a later instant.
Ask ==
    /\ start < MaxStart
    /\ start' = start + 1
    /\ UNCHANGED schedule

Next == replace_weather_schedule \/ Ask

Spec == Init /\ [][Next]_vars

-----------------------------------------------------------------------------
(* Properties. *)

\* The weather in force at an instant: the last entry that is not later.
InForce(t) == LET past == {i \in DOMAIN schedule : schedule[i].at <= t} IN
              CHOOSE i \in past : \A j \in past : schedule[j].at <= schedule[i].at

\* The instants of a bucket with a weather type.
Instants(pt, T) == {t \in pt.time .. pt.to - 1 : schedule[InForce(t)].type \in T}

\* forecast_points_to_proto: the buckets follow each other without gap or
\* overlap and none starts past the horizon; in each, the rain is the number of
\* rainy instants, the type the most frequent one and on a tie the earliest.
ForecastIsPointwise ==
    LET points == Points(schedule, start) IN
    /\ \A x, y \in points : x.time < y.time =>
         /\ x.to <= y.time
         /\ (\A z \in points : z.time <= x.time \/ z.time >= y.time) => x.to = y.time
    /\ \A pt \in points :
         /\ pt.time < pt.to /\ pt.time <= start + Horizon
         /\ pt.rain = Cardinality(Instants(pt, {LightRain, MediumRain, HeavyRain}))
         /\ \A u \in AllTypes \ {pt.type} :
              LET mine == Instants(pt, {pt.type})
                  theirs == Instants(pt, {u})
              IN  \/ Cardinality(mine) > Cardinality(theirs)
                  \/ Cardinality(mine) = Cardinality(theirs) /\ Min(mine) < Min(theirs)
         /\ LET sum == SumFunction([t \in pt.time .. pt.to - 1 |->
                                        schedule[InForce(t)].temp])
                len == pt.to - pt.time
            IN  2 * sum - len <= 2 * len * pt.temp /\ 2 * len * pt.temp <= 2 * sum + len

\* choose_weather_type_for_probability: whatever the dice, the type goes with
\* the probability, so cohere_rain_probability_and_type changes neither.
TypeFitsProbability ==
    \A pt \in Points(schedule, start), p \in 0 .. 100 :
        \A u \in Outcomes(pt.type, p) : p \in Bounds(u)

=============================================================================
