----------------------------- MODULE RaceTable -----------------------------
(***************************************************************************)
(* The race table (services/race_table.rs): positions, gaps and the cars   *)
(* that dropped out, computed from frames of the frame hub.  Clients ask   *)
(* once or hold a stream; each takes the latest frame, waits for the lock  *)
(* of the table's cache and computes from the frame it holds, so an older  *)
(* frame may be worked on after a newer one.  The cache remembers where    *)
(* each car was first seen, its trajectory, its last gap and the cars that *)
(* vanished.                                                               *)
(*                                                                         *)
(* Distances are in metres scaled to small numbers, times in tenths of a   *)
(* second; the thresholds of the code are constants.                       *)
(***************************************************************************)
EXTENDS Integers, Sequences, SequencesExt, FiniteSetsExt

CONSTANTS Clients,     \* requests for the table
          Streams,     \* the clients that hold a stream
          Maps,
          LapLength,
          Steps,       \* how far a car moves between two frames
          Moved,       \* START_PROGRESS_MOVED_EPSILON_M
          Backtrack,   \* TRAJECTORY_RESET_BACKTRACK_M
          Slack,       \* the 100 ms by which time may go back
          MaxAge,      \* TRAJECTORY_MAX_AGE_MS_OFFICIAL
          MaxBehind,   \* GAP_DISABLED_LAPS_BEHIND_THRESHOLD
          GridSize,    \* cars that start a race
          MaxCars,     \* bound: cars ever spawned
          MaxElapsed,  \* bound: the time a race lasts
          MaxLaps,     \* bound: laps a car completes
          Nil

\* Assumed of the constants.
TableAssumption ==
    /\ LapLength \in Nat \ {0} /\ Steps \subseteq Int
    /\ {Moved, Backtrack, Slack, MaxAge, MaxBehind} \subseteq Int
    /\ GridSize \in Nat /\ MaxCars \in Nat
    /\ Streams \subseteq Clients
    /\ Nil \notin Int

VARIABLES frame,     \* the latest frame, and clock, the engine's race time
          hub,       \* FrameCollectorCache: official_map_id, official_lap_length_m
          spawned,   \* the cars there have been; their ids count up
          req,       \* the frame each client's request holds
          cache,     \* OfficialRaceCache
          answer,    \* the rows last computed and the cars they come from
          open,      \* the streams that run
          seen,      \* history: cars of the frames worked on since the last reset
          whole      \* history: since then, baselines were taken on the grid
                     \* and the lap length was known

vars == <<frame, hub, spawned, req, cache, answer, open, seen, whole>>

Empty == << >>
Idle == [on |-> FALSE, map |-> Nil, clock |-> 0, elapsed |-> Nil, lap |-> 1, cars |-> Empty]

Init == /\ frame = Idle
        /\ hub = [map |-> Nil, lap |-> 1]
        /\ spawned = 0
        /\ req = [c \in Clients |-> Nil]
        /\ cache = [marker |-> Nil, elapsed |-> Nil, active |-> Empty, dnf |-> Empty,
                    traj |-> Empty, gap |-> Empty, start |-> Empty]
        /\ answer = [rows |-> <<>>, cars |-> Empty, progress |-> Empty]
        /\ open = {}
        /\ seen = {}
        /\ whole = TRUE

-----------------------------------------------------------------------------
(* Frames. *)

\* The hub reads the lap length once per map: a failed read is not repeated
\* until the map changes, and the table then takes the length to be 1.
LapRead(map, ok) ==
    IF hub.map = map THEN hub ELSE [map |-> map, lap |-> IF ok THEN LapLength ELSE 1]

\* An official race becomes the activity; its cars stand behind the line.
StartRace(map, ok) ==
    /\ ~frame.on
    /\ spawned < MaxCars
    /\ hub' = LapRead(map, ok)
    /\ spawned' = Min({spawned + GridSize, MaxCars})
    /\ frame' = [on |-> TRUE, map |-> map, clock |-> 0, elapsed |-> 0, lap |-> hub'.lap,
                 cars |-> [c \in spawned + 1 .. spawned' |-> [laps |-> 0, m |-> -1]]]
    /\ UNCHANGED <<req, cache, answer, open, seen, whole>>

StopRace ==
    /\ frame.on
    /\ frame' = Idle
    /\ UNCHANGED <<hub, spawned, req, cache, answer, open, seen, whole>>

Move(car, d) ==
    LET m == Max({car.m + d, -1})
    IN  [laps |-> car.laps + Max({m, 0}) \div LapLength,
         m |-> IF m < 0 THEN m ELSE m % LapLength]

\* A new frame: the cars have moved.
Drive(step) ==
    /\ frame.on /\ frame.clock < MaxElapsed
    /\ LET cars == [c \in DOMAIN frame.cars |-> Move(frame.cars[c], step[c])]
       IN  /\ \A c \in DOMAIN cars : cars[c].laps <= MaxLaps
           /\ frame' = [frame EXCEPT !.clock = @ + 1, !.elapsed = frame.clock + 1,
                                     !.cars = cars]
    /\ UNCHANGED <<hub, spawned, req, cache, answer, open, seen, whole>>

\* A new frame for which the engine did not answer what the race time is.
LoseTime ==
    /\ frame.on /\ frame.elapsed # Nil
    /\ frame' = [frame EXCEPT !.elapsed = Nil]
    /\ UNCHANGED <<hub, spawned, req, cache, answer, open, seen, whole>>

\* A car is despawned; a car the engine has no metrics of is left out alike.
Vanish(c) ==
    /\ c \in DOMAIN frame.cars
    /\ frame' = [frame EXCEPT !.cars = [d \in DOMAIN @ \ {c} |-> @[d]]]
    /\ UNCHANGED <<hub, spawned, req, cache, answer, open, seen, whole>>

-----------------------------------------------------------------------------
(* What the table is made of. *)

Get(f, c, default) == IF c \in DOMAIN f THEN f[c] ELSE default

reset_runtime_progress(k) ==
    [marker |-> k.marker, elapsed |-> Nil, active |-> Empty, dnf |-> Empty,
     traj |-> Empty, gap |-> Empty, start |-> Empty]

\* The marker of a session is the map it runs on.
SessionChanged(k, f) == k.marker # f.map

Rewound(k, f) == k.elapsed # Nil /\ f.elapsed + Slack < k.elapsed

\* sample_to_official_entry: progress_total_m.
RawProgress(f, c) == f.cars[c].laps * f.lap + Max({f.cars[c].m, 0})

\* normalize_active_progress_from_start: the first progress seen of each car.
Baselines(k, f) ==
    [c \in DOMAIN f.cars |-> Get(k.start, c, RawProgress(f, c))]

Progress(start, f) ==
    [c \in DOMAIN f.cars |-> Max({RawProgress(f, c) - start[c], 0})]

\* sort_active_entries: the furthest first, then the lower car id. The i-th car is
\* the one that has i - 1 cars ahead.
Ahead(p, c, d) == p[c] > p[d] \/ (p[c] = p[d] /\ c < d)
sort_active_entries(p) ==
    [i \in 1 .. Cardinality(DOMAIN p) |->
        CHOOSE c \in DOMAIN p : Cardinality({d \in DOMAIN p : Ahead(p, d, c)}) = i - 1]

Appends(tr, p, t) == tr = <<>> \/ (t > Last(tr).t /\ p > Last(tr).p)

\* update_car_trajectories, for one car.
update_trajectory(tr, p, t) ==
    LET kept  == IF tr # <<>> /\ Last(tr).p - p >= Backtrack THEN <<>> ELSE tr
        grown == IF Appends(kept, p, t) THEN Append(kept, [p |-> p, t |-> t]) ELSE kept
        first == Min({i \in DOMAIN grown : grown[i].t >= t - MaxAge \/ i = Len(grown)})
    IN  SubSeq(grown, first, Len(grown))

Trajectories(k, p, t) ==
    [c \in DOMAIN p |-> update_trajectory(Get(k.traj, c, <<>>), p[c], t)]

BinarySearch(tr, p) ==
    LET search[range \in (DOMAIN tr) \X (DOMAIN tr)] ==
            LET lo  == range[1]
                hi  == range[2]
                mid == lo + (hi - lo) \div 2
            IN  IF lo >= hi THEN lo
                ELSE IF tr[mid].p < p THEN search[<<mid + 1, hi>>] ELSE search[<<lo, mid>>]
    IN  search[<<1, Len(tr)>>]

\* interpolate_leader_time_ms, as the time that has passed since (rounded down).
TimeSince(tr, p, now) ==
    LET i  == BinarySearch(tr, p)
        dp == tr[i].p - tr[i-1].p
        dt == tr[i].t - tr[i-1].t
    IN  IF tr[i].p = p \/ i = 1 \/ dp <= 0 THEN Max({now - tr[i].t, 0})
        ELSE Max({(dp * (now - tr[i-1].t) - (p - tr[i-1].p) * dt) \div dp, 0})

Covers(tr, p) == tr # <<>> /\ tr[1].p <= p /\ p <= Last(tr).p

LapsBehind(f, leader, c) == Max({f.cars[leader].laps - f.cars[c].laps, 0})

\* What the table says of one car's gap to the leader; Nil hides it.
GapOf(k, f, p, traj, leader, c, now) ==
    LET tr == traj[leader]
    IN  IF c = leader THEN 0
        ELSE IF f.cars[c].m < 0 \/ LapsBehind(f, leader, c) > MaxBehind THEN Nil
        ELSE IF Len(tr) < 2 \/ p[leader] <= Moved THEN 0
        ELSE IF Covers(tr, p[c]) THEN TimeSince(tr, p[c], now)
        ELSE Get(k.gap, c, Nil)

\* last_computed_gap_ms: a gap that is hidden before the line is forgotten, one
\* that is hidden for another reason is kept.
LastGaps(k, f, leader, gap) ==
    [c \in {d \in DOMAIN f.cars \ {leader} :
                gap[d] # Nil \/ (f.cars[d].m >= 0 /\ d \in DOMAIN k.gap)}
         \cup (DOMAIN k.gap \cap {leader})
     |-> IF c # leader /\ gap[c] # Nil THEN gap[c] ELSE k.gap[c]]

\* Mutated form: only the cars of the previous table can be archived.
ArchivedLatest(k, ids) == [c \in DOMAIN k.active \ ids |-> k.active[c]]

\* Cars that are back are no longer archived; cars that were in the previous
\* table and are gone are archived as they stood.
Archived(k, ids) ==
    [c \in (DOMAIN k.dnf \cup DOMAIN k.active) \ ids |-> Get(k.dnf, c, k.active[c])]

Row(gap, behind, c, status) == [car |-> c, gap |-> gap, behind |-> behind, status |-> status]

\* compute_official_rows_with_cache, from the lock to the rows.
Table(k0, f0) ==
    LET f     == [f0 EXCEPT !.elapsed = IF @ = Nil THEN 0 ELSE @]
        reset == SessionChanged(k0, f) \/ Rewound(k0, f)
        k     == IF reset THEN reset_runtime_progress(k0) ELSE k0
        ids   == DOMAIN f.cars
        start == Baselines(k, f)
        p     == Progress(start, f)
        order == sort_active_entries(p)
        traj  == Trajectories(k, p, f.elapsed)
        gap   == [c \in ids |-> GapOf(k, f, p, traj, order[1], c, f.elapsed)]
        row   == [c \in ids |-> Row(gap[c], LapsBehind(f, order[1], c), c, "active")]
        dnf   == Archived(k, ids)
        out   == sort_active_entries([c \in DOMAIN dnf |-> 0])  \* by car id
    IN  [cache |-> [marker |-> f.map, elapsed |-> f.elapsed, active |-> row, dnf |-> dnf,
                    traj |-> traj, start |-> start,
                    gap |-> IF ids = {} THEN Empty ELSE LastGaps(k, f, order[1], gap)],
         rows |-> [i \in DOMAIN order |-> row[order[i]]]
                      \o [i \in DOMAIN out |-> [dnf[out[i]] EXCEPT !.status = "dnf"]],
         reset |-> reset,
         grid |-> f.lap = LapLength
                  /\ \A c \in ids \ DOMAIN k.start : f.cars[c] = [laps |-> 0, m |-> -1]]

\* build_local_race_snapshot: the table of a local race comes from the frame
\* alone, ordered by the distance from the line.
local_race_rows(f) ==
    LET order == sort_active_entries([c \in DOMAIN f.cars |-> RawProgress(f, c)])
    IN  [i \in DOMAIN order |->
            Row(IF i = 1 THEN 0 ELSE Nil, LapsBehind(f, order[1], order[i]), order[i], "active")]

-----------------------------------------------------------------------------
(* Requests. *)

\* build_snapshot: the frame is read, and the race has to be on.
Take(c) ==
    /\ req[c] = Nil
    /\ frame.on
    /\ req' = [req EXCEPT ![c] = frame]
    /\ UNCHANGED <<frame, hub, spawned, cache, answer, open, seen, whole>>

\* A stream whose race is over ends with an error.
EndStream(s) ==
    /\ req[s] = Nil /\ s \in open
    /\ ~frame.on
    /\ open' = open \ {s}
    /\ UNCHANGED <<frame, hub, spawned, req, cache, answer, seen, whole>>

Answer(f) ==
    \E t \in {Table(cache, f)} :
        /\ cache' = t.cache
        /\ answer' = [rows |-> t.rows, cars |-> f.cars,
                      progress |-> Progress(t.cache.start, f)]
        /\ seen' = DOMAIN f.cars \cup (IF t.reset THEN {} ELSE seen)
        /\ whole' = (t.grid /\ (whole \/ t.reset))

\* The request has the lock; a stream sends the table if it changed.
Compute(c) ==
    /\ req[c] # Nil
    /\ Answer(req[c])
    /\ open' = open \cup ({c} \cap Streams)
    /\ req' = [req EXCEPT ![c] = Nil]
    /\ UNCHANGED <<frame, hub, spawned>>

\* get_race_table of one more client, which finds the lock free.
Serve ==
    /\ frame.on
    /\ Answer(frame)
    /\ UNCHANGED <<frame, hub, spawned, req, open>>

\* A client goes away while its request waits for the lock.
Drop(c) ==
    /\ req[c] # Nil
    /\ req' = [req EXCEPT ![c] = Nil]
    /\ open' = open \ {c}
    /\ UNCHANGED <<frame, hub, spawned, cache, answer, seen, whole>>

Next == \/ \E map \in Maps, ok \in BOOLEAN : StartRace(map, ok)
        \/ StopRace
        \/ \E step \in [DOMAIN frame.cars -> Steps] : Drive(step)
        \/ LoseTime
        \/ \E c \in 1..MaxCars : Vanish(c)
        \/ \E c \in Clients : Take(c) \/ Compute(c) \/ Drop(c)
        \/ Serve
        \/ \E s \in Streams : EndStream(s)

Spec == Init /\ [][Next]_vars

-----------------------------------------------------------------------------
(* Properties. *)

Status(rows, status) == {rows[i].car : i \in {j \in DOMAIN rows : rows[j].status = status}}

\* The table has one row for every car that was in some frame since the table
\* was last reset: the cars of the frame it was computed from as active, then
\* all others as DNF, whatever order frames were worked on in.
TableIsComplete ==
    LET rows == answer.rows
    IN  /\ Len(rows) = Cardinality(seen)
        /\ Status(rows, "active") = DOMAIN answer.cars
        /\ Status(rows, "dnf") = seen \ DOMAIN answer.cars
        /\ \A i, j \in DOMAIN rows :
               rows[i].status = "dnf" /\ rows[j].status = "active" => j < i

\* A trajectory only ever grows in time and in distance, so that the binary
\* search and the interpolation between two points are meaningful.
TrajectoriesGrow ==
    \A c \in DOMAIN cache.traj :
        LET tr == cache.traj[c]
        IN  \A i \in 1..Len(tr)-1 : tr[i].p < tr[i+1].p /\ tr[i].t < tr[i+1].t

Further(a, b) == a.laps > b.laps \/ (a.laps = b.laps /\ a.m > b.m /\ a.m > 0)

InRaceOrder(rows, cars) ==
    \A i, j \in DOMAIN rows :
        rows[i].status = "active" /\ rows[j].status = "active"
          /\ Further(cars[rows[i].car], cars[rows[j].car]) => i < j

\* A car that is further along the track is placed before one that is behind:
\* in the official table when it was asked for from the start and the lap length
\* is known, in the table of a local race whenever the lap length is known.
PositionsFollowRace ==
    /\ whole => InRaceOrder(answer.rows, answer.cars)
    /\ frame.lap = LapLength => InRaceOrder(local_race_rows(frame), frame.cars)

\* The gap of a car, where it is computed from the leader's trajectory, is the
\* time since the leader was where the car is now: between the last point the
\* leader recorded before that place and the first one behind it.
GapsAreTrue ==
    \A i \in DOMAIN answer.rows :
        LET row    == answer.rows[i]
            now    == cache.elapsed
            leader == answer.rows[1].car
            tr     == cache.traj[leader]
            p      == answer.progress[row.car]
        IN  row.status = "active" /\ row.gap # Nil /\ i > 1 /\ Len(tr) >= 2
              /\ Covers(tr, p) /\ answer.progress[leader] > Moved
            => \A j \in DOMAIN tr :
                 /\ tr[j].p >= p => now - tr[j].t <= row.gap
                 /\ tr[j].p <= p => row.gap <= Max({now - tr[j].t, 0})

TypeOK ==
    /\ frame.on \in BOOLEAN
    /\ hub.lap \in {1, LapLength}
    /\ \A c \in Clients : req[c] # Nil => req[c].on
    /\ DOMAIN cache.traj = DOMAIN cache.start /\ DOMAIN cache.active = DOMAIN cache.start
    /\ DOMAIN cache.gap \subseteq DOMAIN cache.active
    /\ DOMAIN cache.dnf \cap DOMAIN cache.active = {}
    /\ open \subseteq Streams
=============================================================================
