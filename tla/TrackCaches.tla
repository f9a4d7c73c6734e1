---------------------------- MODULE TrackCaches ----------------------------
(***************************************************************************)
(* Who remembers tracks: the achievement stream (achievement_stream.rs),   *)
(* which announces each running source with its map and track before it    *)
(* sends snapshots of it, and the track service (track.rs).  Both learn    *)
(* from a frame or from the engine's state which map a source runs, and    *)
(* ask the engine for the track in a second step, when the source may      *)
(* already run another map.                                                *)
(***************************************************************************)
EXTENDS Integers, FiniteSetsExt

CONSTANTS Sandboxes,   \* sandbox ids, positive numbers
          Maps,
          Streams,     \* achievement streams
          Readers,     \* requests for the track of a map
          MaxSwitches, \* bound: changes of what the engine runs
          Nil

\* Assumed of the constants.
TrackAssumption == Sandboxes \subseteq Nat \ {0} /\ Nil \notin Maps

\* AchievementSourceKey, in its order; the local race is a source of tracks only.
Local == -1
Race == 0
Sources == {Race} \cup Sandboxes

VARIABLES world,      \* what the engine runs: source -> map
          switches,
          frame,      \* the world of the latest frame
          cache,      \* descriptor_cache: source -> map and track
          stream,     \* the achievement streams
          known,      \* what each stream's client was told of each source
          snap,       \* the sources and maps of the client's last snapshot
          tracks,     \* TrackServiceImpl::cache: map -> track
          reader,     \* the requests for tracks
          late        \* history: what was read after the source had moved on

vars == <<world, switches, frame, cache, stream, known, snap, tracks, reader, late>>

Empty == << >>
Closed == [at |-> "closed", frame |-> Empty, todo |-> {}, got |-> Empty, announced |-> Empty]

\* An official race runs alone; a local race may run beside sandboxes.
Worlds == UNION {[ids -> Maps] : ids \in {{Race}} \cup SUBSET ({Local} \cup Sandboxes)}

Init == /\ world = Empty /\ switches = 0 /\ frame = Empty
        /\ cache = Empty
        /\ stream = [s \in Streams |-> Closed]
        /\ known = [s \in Streams |-> Empty]
        /\ snap = [s \in Streams |-> Empty]
        /\ tracks = Empty
        /\ reader = [r \in Readers |-> Nil]
        /\ late = [pairs |-> {}, maps |-> {}]

Put(f, k, v) == [x \in DOMAIN f \cup {k} |-> IF x = k THEN v ELSE f[x]]

-----------------------------------------------------------------------------
(* The engine and the frame hub. *)

Switch ==
    /\ switches < MaxSwitches
    /\ switches' = switches + 1
    /\ world' \in Worlds \ {world}
    /\ UNCHANGED <<frame, cache, stream, known, snap, tracks, reader, late>>

Publish ==
    /\ frame' = world
    /\ UNCHANGED <<world, switches, cache, stream, known, snap, tracks, reader, late>>

-----------------------------------------------------------------------------
(* The achievement stream. *)

\* collect_active_sources
active_sources(f) == DOMAIN f \cap Sources

\* run_stream, the beginning of a round: a frame, and its sources to resolve.
Round(s) ==
    /\ stream[s].at \in {"closed", "tick"}
    /\ stream' = [stream EXCEPT ![s].at = "resolve", ![s].frame = frame,
                                ![s].todo = active_sources(frame), ![s].got = Empty]
    /\ UNCHANGED <<world, switches, frame, cache, known, snap, tracks, reader, late>>

\* Mutated form: the cache answers for any map of the source.
CachedAnyMap(src, map) == src \in DOMAIN cache

\* cached_descriptor answers only for the map the frame names.
Cached(src, map) == src \in DOMAIN cache /\ cache[src].map = map

Resolved(s, src, track) ==
    stream' = [stream EXCEPT ![s].at = "resolve", ![s].todo = @ \ {src},
                             ![s].got = Put(@, src, [map |-> stream[s].frame[src],
                                                     track |-> track])]

\* resolve_descriptor, for the next source: from the cache, or else the engine
\* is asked.
Resolve(s) ==
    /\ stream[s].at = "resolve" /\ stream[s].todo # {}
    /\ LET src == Min(stream[s].todo)
       IN  IF Cached(src, stream[s].frame[src])
           THEN Resolved(s, src, cache[src].track)
           ELSE stream' = [stream EXCEPT ![s].at = "read"]
    /\ UNCHANGED <<world, switches, frame, cache, known, snap, tracks, reader, late>>

\* The engine answers with the track of what runs now.
ReadTrack(s) ==
    /\ stream[s].at = "read"
    /\ LET src == Min(stream[s].todo)
           map == stream[s].frame[src]
       IN  /\ src \in DOMAIN world
           /\ cache' = Put(cache, src, [map |-> map, track |-> world[src]])
           /\ Resolved(s, src, world[src])
           /\ late' = IF world[src] = map THEN late
                      ELSE [late EXCEPT !.pairs = @ \cup {<<src, map>>}]
    /\ UNCHANGED <<world, switches, frame, known, snap, tracks, reader>>

\* The source is gone or the engine does not answer: the round goes on without.
ReadFails(s) ==
    /\ stream[s].at = "read"
    /\ stream' = [stream EXCEPT ![s].at = "resolve", ![s].todo = @ \ {Min(@)}]
    /\ UNCHANGED <<world, switches, frame, cache, known, snap, tracks, reader, late>>

\* Sources that are new or run another map than the one announced.
Upserted(s) ==
    {src \in DOMAIN stream[s].got :
        src \notin DOMAIN stream[s].announced
          \/ stream[s].announced[src] # stream[s].got[src].map}

\* The bootstrap or the topology update; then announced_sources is what this
\* round resolved.
Announce(s) ==
    /\ stream[s].at = "resolve" /\ stream[s].todo = {}
    /\ known' = [known EXCEPT ![s] =
                    [src \in DOMAIN @ \cup Upserted(s) |->
                        IF src \in Upserted(s) THEN stream[s].got[src] ELSE @[src]]]
    /\ stream' = [stream EXCEPT ![s].at = "send",
                                ![s].announced = [src \in DOMAIN stream[s].got |->
                                                     stream[s].got[src].map]]
    /\ UNCHANGED <<world, switches, frame, cache, snap, tracks, reader, late>>

\* build_snapshot: the sources of this round, with the cars of its frame.
SendSnapshot(s) ==
    /\ stream[s].at = "send"
    /\ snap' = [snap EXCEPT ![s] = stream[s].announced]
    /\ stream' = [stream EXCEPT ![s].at = "tick", ![s].frame = Empty, ![s].got = Empty]
    /\ UNCHANGED <<world, switches, frame, cache, known, tracks, reader, late>>

\* A send fails: the client is gone.
Close(s) ==
    /\ stream[s].at \in {"resolve", "send"}
    /\ stream' = [stream EXCEPT ![s] = Closed]
    /\ known' = [known EXCEPT ![s] = Empty]
    /\ snap' = [snap EXCEPT ![s] = Empty]
    /\ UNCHANGED <<world, switches, frame, cache, tracks, reader, late>>

-----------------------------------------------------------------------------
(* The track service. *)

\* resolve_track_target: the local race first, then the official race or the
\* first sandbox that runs the map.
resolve_track_target(map) ==
    LET on == {src \in DOMAIN world : world[src] = map}
    IN  IF on = {} THEN Nil
        ELSE IF Local \in on THEN Local ELSE Min(on)

\* get_track_data: the map is not cached and something runs it.
GetTrack(r, map) ==
    /\ reader[r] = Nil
    /\ map \notin DOMAIN tracks
    /\ resolve_track_target(map) # Nil
    /\ reader' = [reader EXCEPT ![r] = [map |-> map, src |-> resolve_track_target(map)]]
    /\ UNCHANGED <<world, switches, frame, cache, stream, known, snap, tracks, late>>

\* track_data_in answers; the track is cached under the map that was asked for.
StoreTrack(r) ==
    /\ reader[r] # Nil
    /\ reader[r].src \in DOMAIN world
    /\ LET track == world[reader[r].src]
       IN  /\ tracks' = Put(tracks, reader[r].map, track)
           /\ late' = IF track = reader[r].map THEN late
                      ELSE [late EXCEPT !.maps = @ \cup {reader[r].map}]
    /\ reader' = [reader EXCEPT ![r] = Nil]
    /\ UNCHANGED <<world, switches, frame, cache, stream, known, snap>>

GiveUp(r) ==
    /\ reader[r] # Nil
    /\ reader' = [reader EXCEPT ![r] = Nil]
    /\ UNCHANGED <<world, switches, frame, cache, stream, known, snap, tracks, late>>

Next == \/ Switch
        \/ Publish
        \/ \E s \in Streams : \/ Round(s) \/ Resolve(s) \/ ReadTrack(s) \/ ReadFails(s)
                              \/ Announce(s) \/ SendSnapshot(s) \/ Close(s)
        \/ \E r \in Readers : \/ \E map \in Maps : GetTrack(r, map)
                              \/ StoreTrack(r) \/ GiveUp(r)

Spec == Init /\ [][Next]_vars

-----------------------------------------------------------------------------
(* Properties. *)

TypeOK ==
    /\ DOMAIN world \cup DOMAIN frame \subseteq {Local} \cup Sources
    /\ Race \in DOMAIN world => DOMAIN world = {Race}
    /\ DOMAIN cache \subseteq Sources
    /\ \A s \in Streams :
          /\ stream[s].at \in {"closed", "resolve", "read", "send", "tick"}
          /\ stream[s].todo \cup DOMAIN stream[s].got \subseteq active_sources(stream[s].frame)
          /\ stream[s].at = "read" => stream[s].todo # {}
    /\ DOMAIN tracks \subseteq Maps

\* A client can place every car it is sent: each source of its last snapshot was
\* announced to it with the map that snapshot is of, through switches, failed
\* reads and sources that come back.
SnapshotIsAnnounced ==
    \A s \in Streams : \A src \in DOMAIN snap[s] :
        /\ src \in DOMAIN known[s]
        /\ stream[s].at # "send" => known[s][src].map = snap[s][src]

\* A track is remembered or announced under another map's name only if the
\* source was switched between the moment its map was learnt and the moment the
\* engine answered; nothing else mixes them up.
TracksFitMaps ==
    /\ \A src \in DOMAIN cache :
           cache[src].track = cache[src].map \/ <<src, cache[src].map>> \in late.pairs
    /\ \A s \in Streams : \A src \in DOMAIN known[s] :
           known[s][src].track = known[s][src].map \/ <<src, known[s][src].map>> \in late.pairs
    /\ \A map \in DOMAIN tracks : tracks[map] = map \/ map \in late.maps
=============================================================================
